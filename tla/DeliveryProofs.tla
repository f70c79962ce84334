---------------------------- MODULE DeliveryProofs ----------------------------
(* Theorems about Delivery.                                                *)
EXTENDS Delivery, LinesProofs, FiniteSetTheorems

--------------------------------------------------------------------------------
(* The bucket.                                                             *)

LimiterTypes ==
    /\ tokens \in Int /\ age \in Nat
    /\ window \in [age : Nat, rows : Nat]

\* By now a bucket has at least what it was left with, and a request that
\* found it emptied by a later one cannot leave it less.
NeverOverdrawn == tokens + age * Refill >= 0

\* What the observer saw granted and what the bucket has now come from one
\* full bucket and the refill since his moment.
Conserved ==
    window.rows = 0 \/ window.rows + tokens + age * Refill <= Capacity + window.age * Refill

LimiterInv == LimiterTypes /\ NeverOverdrawn /\ Conserved

\* The products of the refill, for provers that do not multiply.
LEMMA Products ==
    ASSUME NEW a \in Int, NEW b \in Int
    PROVE  /\ a * Refill \in Int
           /\ (a - b) * Refill = a * Refill - b * Refill
           /\ (a + 1) * Refill = a * Refill + Refill
           /\ a <= b => a * Refill <= b * Refill
<1>1. Refill \in Nat
  BY LimiterAssumption
<1> QED
  BY <1>1, SMT

\* A request, whenever it read the time, keeps the account of the bucket.
LEMMA AllowKeepsAccount ==
    ASSUME LimiterInv, NEW rows \in Nat, NEW d \in Nat, NEW granted \in BOOLEAN,
           allow(rows, d, granted)
    PROVE  LimiterInv'
<1> DEFINE level == tokens + (age - d) * Refill
<1>1. Capacity \in Nat /\ Refill \in Nat
  BY LimiterAssumption
<1>2. /\ age * Refill \in Int /\ d * Refill \in Int /\ window.age * Refill \in Int
      /\ (age - d) * Refill = age * Refill - d * Refill
      /\ d <= window.age => d * Refill <= window.age * Refill
      /\ d * Refill >= 0
  <2>1. age \in Int /\ d \in Int /\ window.age \in Int
    BY DEF LimiterInv, LimiterTypes
  <2>2. age * Refill \in Int /\ (age - d) * Refill = age * Refill - d * Refill
    BY <2>1, Products
  <2>3. d * Refill \in Int /\ (d <= window.age => d * Refill <= window.age * Refill)
    BY <2>1, Products
  <2>4. window.age * Refill \in Int
    BY <2>1, Products
  <2>5. d * Refill >= 0
    BY <1>1, SMT
  <2> QED
    BY <2>2, <2>3, <2>4, <2>5
<1>3. level \in Int /\ level + d * Refill = tokens + age * Refill
  BY <1>2 DEF LimiterInv, LimiterTypes
<1>4. refilled(d) \in Int /\ refilled(d) <= Capacity /\ refilled(d) <= level
      /\ refilled(d) + d * Refill >= 0
  BY <1>1, <1>2, <1>3 DEF refilled, LimiterInv, NeverOverdrawn, LimiterTypes
<1>5. /\ age' = d
      /\ tokens' \in {refilled(d), refilled(d) - rows}
      /\ granted => tokens' = refilled(d) - rows /\ refilled(d) >= rows
      /\ ~granted => tokens' = refilled(d)
  BY DEF allow
<1>6. LimiterTypes'
  BY <1>4, <1>5 DEF allow, LimiterInv, LimiterTypes
<1>7. NeverOverdrawn'
  <2>1. tokens' + d * Refill >= 0
    BY <1>2, <1>4, <1>5
  <2> QED
    BY <2>1, <1>5 DEF NeverOverdrawn
<1>8. Conserved'
  <2>1. CASE granted /\ d <= window.age
    <3>1. window'.rows = window.rows + rows /\ window'.age = window.age
      BY <2>1 DEF allow, LimiterInv, LimiterTypes
    <3>2. window.rows \in Nat
      BY DEF LimiterInv, LimiterTypes
    <3>3. window.rows + rows + (refilled(d) - rows) + d * Refill
            <= Capacity + window.age * Refill
      BY <1>1, <1>2, <1>3, <1>4, <2>1, <3>2 DEF LimiterInv, Conserved, LimiterTypes
    <3> QED
      BY <3>1, <3>3, <1>5, <2>1 DEF Conserved
  <2>2. CASE ~(granted /\ d <= window.age)
    <3>1. window' = window
      BY <2>2 DEF allow
    <3>2. tokens' + d * Refill <= tokens + age * Refill
      BY <1>2, <1>3, <1>4, <1>5 DEF LimiterInv, LimiterTypes
    <3>3. window.rows \in Nat /\ tokens' \in Int /\ tokens \in Int
      BY <1>6 DEF LimiterInv, LimiterTypes
    <3>4. window.rows = 0 \/ window.rows + tokens' + d * Refill
                               <= Capacity + window.age * Refill
      BY <1>1, <1>2, <3>2, <3>3 DEF LimiterInv, Conserved
    <3> QED
      BY <3>1, <3>4, <1>5 DEF Conserved
  <2> QED
    BY <2>1, <2>2
<1> QED
  BY <1>6, <1>7, <1>8 DEF LimiterInv

\* So does time.
LEMMA PassKeepsAccount ==
    ASSUME LimiterInv, pass
    PROVE  LimiterInv'
<1>1. Capacity \in Nat /\ Refill \in Nat /\ Horizon \in Nat
  BY LimiterAssumption
<1>2. /\ tokens' = tokens /\ tokens \in Int
      /\ age \in Nat /\ age' \in {age, age + 1}
      /\ window.age \in Nat /\ window.rows \in Nat
  BY DEF pass, LimiterInv, LimiterTypes
<1>3. /\ age * Refill \in Int /\ window.age * Refill \in Int
      /\ (age + 1) * Refill = age * Refill + Refill
      /\ (window.age + 1) * Refill = window.age * Refill + Refill
  <2>1. age \in Int /\ window.age \in Int
    BY <1>2
  <2>2. age * Refill \in Int /\ (age + 1) * Refill = age * Refill + Refill
    BY <2>1, Products
  <2>3. /\ window.age * Refill \in Int
        /\ (window.age + 1) * Refill = window.age * Refill + Refill
    BY <2>1, Products
  <2> QED
    BY <2>2, <2>3
<1>4. /\ age' * Refill \in Int
      /\ age' * Refill >= age * Refill /\ age' * Refill <= age * Refill + Refill
  <2>1. CASE age' = age
    BY <2>1, <1>1, <1>3
  <2>2. CASE age' = age + 1
    BY <2>2, <1>1, <1>3
  <2> QED
    BY <2>1, <2>2, <1>2
<1>5. LimiterTypes' /\ NeverOverdrawn'
  BY <1>2, <1>3, <1>4 DEF pass, NoWindow, LimiterInv, LimiterTypes, NeverOverdrawn
<1>6. Conserved'
  <2>1. CASE window' = NoWindow
    BY <2>1 DEF NoWindow, Conserved
  <2>2. CASE window' = [window EXCEPT !.age = @ + 1]
    <3>1. window'.age = window.age + 1 /\ window'.rows = window.rows
      BY <2>2 DEF LimiterInv, LimiterTypes
    <3>2. window.rows = 0
            \/ window.rows + tokens + age' * Refill <= Capacity + (window.age + 1) * Refill
      BY <1>1, <1>2, <1>3, <1>4 DEF LimiterInv, Conserved
    <3> QED
      BY <3>1, <3>2, <1>2 DEF Conserved
  <2> QED
    BY <2>1, <2>2 DEF pass
<1> QED
  BY <1>5, <1>6 DEF LimiterInv

\* The account bounds what the observer sees.
LEMMA AccountBoundsRate ==
    ASSUME LimiterInv
    PROVE  RateIsBounded
<1>1. Capacity \in Nat /\ Refill \in Nat
  BY LimiterAssumption
<1>2. /\ age * Refill \in Int /\ window.age * Refill \in Int /\ window.age * Refill >= 0
      /\ window.rows \in Nat /\ tokens \in Int
  BY <1>1, Products, SMT DEF LimiterInv, LimiterTypes
<1> QED
  BY <1>1, <1>2 DEF LimiterInv, NeverOverdrawn, Conserved, RateIsBounded

--------------------------------------------------------------------------------
(* The inductive invariant.                                                *)

Types ==
    /\ captured \in Nat /\ queue \in Seq(Nat) /\ buffered \in 0..Len(queue)
    /\ readings \in Seq(ToSet(readings)) /\ Len(readings) = captured
    /\ seen \in Seq(ToSet(seen))
    /\ asked \in Threads \cup {NoThread}
    /\ pc \in [Threads -> {"idle", "post_samples", "allow", "filter_new"}]
    /\ job \in [Threads -> Seq(Nat)] /\ rest \in [Threads -> Seq(Nat)]
    /\ unique = [t \in Threads |-> unique[t]]
    /\ delay \in [Threads -> Nat]

\* The queue is in the order of capture, with gaps where rows were lost.
QueueInOrder ==
    /\ \A i \in 1..Len(queue) : queue[i] \in 1..captured
    /\ \A i, j \in 1..Len(queue) : i < j => queue[i] < queue[j]

\* A job was the front of the queue once: what still stands in the queue
\* before one of its rows is of the job too.
JobAhead(t) ==
    \A x \in ToSet(job[t]) : /\ x \in 1..captured
                             /\ \A y \in ToSet(queue) : y < x => y \in ToSet(job[t])

ThreadInOrder(t) ==
    /\ pc[t] # "idle" => JobAhead(t)
    /\ pc[t] = "filter_new" => ToSet(rest[t]) \subseteq ToSet(job[t])
    /\ pc[t] # "filter_new" => unique[t] = {}

ThreadsInOrder == \A t \in Threads : ThreadInOrder(t)

\* The node waits for a thread that has the front of its queue.
AskedForTheFront ==
    asked # NoThread => /\ pc[asked] # "idle" /\ Len(job[asked]) \in 1..Len(queue)
                        /\ \A i \in 1..Len(job[asked]) : job[asked][i] = queue[i]

Held == staged \cup UNION {unique[t] : t \in Threads}

CoveredKeys == {Key(r) : r \in Held} \cup caught

Covered(i) == Key(readings[i]) \in CoveredKeys

\* What has left the queue, what a thread has looked at and what the window
\* knows is covered, but for what the node has given up.
AllCovered ==
    /\ \A i \in 1..captured : i \in ToSet(queue) \/ i \in GivenUp \/ Covered(i)
    /\ \A t \in Threads : pc[t] = "filter_new" =>
           \A i \in ToSet(job[t]) : i \in ToSet(rest[t]) \/ Covered(i)
    /\ Window \subseteq CoveredKeys

AllDelivered ==
    /\ \A i \in 1..captured : i \in ToSet(queue) \/ i \in GivenUp \/ i \in delivered
    /\ \A t \in Threads : pc[t] = "filter_new" => ToSet(job[t]) \subseteq delivered

Order == Types /\ QueueInOrder /\ ThreadsInOrder /\ AskedForTheFront

QueueInv == Order /\ AllCovered /\ AllDelivered

--------------------------------------------------------------------------------
(* Sequences.                                                              *)

\* A sequence is one over its own elements.
LEMMA OverItself ==
    ASSUME NEW S, NEW s \in Seq(S)
    PROVE  /\ s \in Seq(ToSet(s)) /\ Len(s) \in Nat
           /\ DOMAIN s = 1..Len(s) /\ ToSet(s) = {s[i] : i \in 1..Len(s)}
<1>1. Len(s) \in Nat /\ DOMAIN s = 1..Len(s)
  BY LenProperties
<1>2. ToSet(s) = {s[i] : i \in 1..Len(s)}
  BY <1>1 DEF ToSet
<1>3. SubSeq(s, 1, Len(s)) \in Seq(ToSet(s))
  BY <1>1, <1>2, SubSeqProperties
<1> QED
  BY <1>1, <1>2, <1>3, SubSeqFull

LEMMA AppendOverItself ==
    ASSUME NEW s, s \in Seq(ToSet(s)), NEW e
    PROVE  /\ Append(s, e) \in Seq(ToSet(Append(s, e)))
           /\ Len(Append(s, e)) = Len(s) + 1 /\ Len(s) \in Nat
           /\ \A i \in 1..Len(s) : Append(s, e)[i] = s[i]
           /\ Append(s, e)[Len(s) + 1] = e
<1> DEFINE S == ToSet(s) \cup {e}
<1>1. s \in Seq(S) /\ e \in S
  BY SeqMonotonic
<1>2. /\ Append(s, e) \in Seq(S)
      /\ Len(Append(s, e)) = Len(s) + 1
      /\ \A i \in 1..Len(s) : Append(s, e)[i] = s[i]
      /\ Append(s, e)[Len(s) + 1] = e
  <2> HIDE DEF S
  <2> QED
    BY <1>1, AppendProperties
<1>3. Append(s, e) \in Seq(ToSet(Append(s, e)))
  <2> HIDE DEF S
  <2> QED
    BY <1>2, OverItself
<1>4. Len(s) \in Nat
  BY LenProperties
<1> QED
  BY <1>2, <1>3, <1>4

\* The window after a key was remembered.
LEMMA Remembered ==
    ASSUME NEW k, seen \in Seq(ToSet(seen)), remember(k)
    PROVE  seen' \in Seq(ToSet(seen')) /\ Window' \subseteq Window \cup {k}
<1> DEFINE longer == Append(seen, k)
<1>1. /\ longer \in Seq(ToSet(longer)) /\ Len(longer) = Len(seen) + 1 /\ Len(seen) \in Nat
      /\ \A i \in 1..Len(seen) : longer[i] = seen[i]
      /\ longer[Len(seen) + 1] = k
  BY AppendOverItself
<1>2. {longer[i] : i \in 1..Len(longer)} \subseteq Window \cup {k}
  <2> SUFFICES ASSUME NEW i \in 1..Len(longer) PROVE longer[i] \in Window \cup {k}
    OBVIOUS
  <2>1. CASE i = Len(seen) + 1
    BY <1>1, <2>1
  <2>2. CASE i \in 1..Len(seen)
    BY <1>1, <2>2 DEF Window
  <2> QED
    BY <1>1, <2>1, <2>2
<1>3. CASE seen' = longer
  BY <1>1, <1>2, <1>3 DEF Window
<1>4. CASE seen' = Tail(longer)
  <2> HIDE DEF longer
  <2>1. longer # <<>>
    BY <1>1, EmptySeq
  <2>2. /\ Tail(longer) \in Seq(ToSet(longer)) /\ Len(Tail(longer)) = Len(longer) - 1
        /\ \A i \in 1..Len(Tail(longer)) : Tail(longer)[i] = longer[i + 1]
    BY <1>1, <2>1, HeadTailProperties
  <2>3. Window' \subseteq {longer[i] : i \in 1..Len(longer)}
    BY <1>1, <1>4, <2>2 DEF Window
  <2> QED
    BY <1>2, <1>4, <2>2, <2>3, OverItself
<1> QED
  BY <1>3, <1>4 DEF remember

--------------------------------------------------------------------------------
\* What the invariant says of sizes and elements.
LEMMA OrderFacts ==
    ASSUME Order
    PROVE  /\ captured \in Nat /\ queue \in Seq(Nat) /\ Len(queue) \in Nat
           /\ buffered \in 0..Len(queue)
           /\ ToSet(queue) = {queue[i] : i \in 1..Len(queue)}
           /\ NoThread \notin Threads
<1>1. captured \in Nat /\ queue \in Seq(Nat) /\ buffered \in 0..Len(queue)
  BY DEF Order, Types
<1>2. Len(queue) \in Nat /\ ToSet(queue) = {queue[i] : i \in 1..Len(queue)}
  BY <1>1, Elements
<1> QED
  BY <1>1, <1>2, StagingAssumption

LEMMA ThreadFacts ==
    ASSUME Order, NEW t \in Threads
    PROVE  /\ job[t] \in Seq(Nat) /\ rest[t] \in Seq(Nat)
           /\ Len(job[t]) \in Nat /\ Len(rest[t]) \in Nat /\ delay[t] \in Nat
           /\ ToSet(job[t]) = {job[t][i] : i \in 1..Len(job[t])}
           /\ ToSet(rest[t]) = {rest[t][i] : i \in 1..Len(rest[t])}
           /\ ThreadInOrder(t)
<1>1. job[t] \in Seq(Nat) /\ rest[t] \in Seq(Nat) /\ delay[t] \in Nat /\ ThreadInOrder(t)
  BY DEF Order, Types, ThreadsInOrder
<1> QED
  BY <1>1, Elements

\* The thread the node waits for has so many rows from the front.
LEMMA AskedFacts ==
    ASSUME Order, asked # NoThread
    PROVE  /\ asked \in Threads /\ pc[asked] # "idle"
           /\ Len(job[asked]) \in 1..Len(queue)
           /\ ToSet(job[asked]) = {queue[i] : i \in 1..Len(job[asked])}
<1>1. /\ asked \in Threads /\ pc[asked] # "idle"
      /\ Len(job[asked]) \in 1..Len(queue)
      /\ \A i \in 1..Len(job[asked]) : job[asked][i] = queue[i]
  BY DEF Order, Types, AskedForTheFront
<1>2. ToSet(job[asked]) = {job[asked][i] : i \in 1..Len(job[asked])}
  BY <1>1, ThreadFacts
<1> QED
  BY <1>1, <1>2

--------------------------------------------------------------------------------
(* What the node does with the answer to a push, and with none.            *)

\* The rows that leave the queue are among those gone; the node waits for
\* nobody any more, or as before.
NodeStep(gone) ==
    /\ captured' = captured /\ readings' = readings
    /\ queue' \in Seq(Nat) /\ buffered' \in 0..Len(queue') /\ QueueInOrder'
    /\ ToSet(queue)' \subseteq ToSet(queue) /\ ToSet(queue) \subseteq ToSet(queue)' \cup gone
    /\ dropped \subseteq dropped' /\ lost \subseteq lost'
    /\ asked' = NoThread \/ (asked' = asked /\ queue' = queue)

\* The queue without its first k rows.
LEMMA WithoutTheFirst ==
    ASSUME Order, NEW k \in 0..Len(queue), captured' = captured, queue' = Node!Rest(k)
    PROVE  /\ queue' \in Seq(Nat) /\ Len(queue') = Len(queue) - k /\ QueueInOrder'
           /\ ToSet(queue)' \subseteq ToSet(queue)
           /\ ToSet(queue) \subseteq ToSet(queue)' \cup Node!First(k)
<1>1. /\ Len(queue) \in Nat /\ queue \in Seq(Nat)
      /\ ToSet(queue) = {queue[i] : i \in 1..Len(queue)}
  BY OrderFacts
<1>2. PICK n \in Nat : n = Len(queue) /\ k \in 0..n
  BY <1>1
<1>3. \A i \in (k + 1)..n : i \in 1..n
  BY <1>2
<1>4. /\ queue' \in Seq(Nat)
      /\ Len(queue') = n - k
      /\ \A i \in 1..(n - k) : queue'[i] = queue[k + i]
  <2> DEFINE tail == SubSeq(queue, k + 1, n)
  <2>1. \A i \in (k + 1)..n : queue[i] \in Nat
    BY <1>1, <1>2, <1>3, ElementOfSeq
  <2>2. k + 1 \in Int /\ n \in Int
    BY <1>2
  <2>3. /\ tail \in Seq(Nat)
        /\ Len(tail) = IF k + 1 <= n THEN n - (k + 1) + 1 ELSE 0
        /\ \A i \in 1..(n - (k + 1) + 1) : tail[i] = queue[(k + 1) + i - 1]
    BY <2>1, <2>2, SubSeqProperties
  <2>4. queue' = tail
    BY <1>2 DEF Node!Rest
  <2>5. Len(tail) = n - k
    BY <2>3, <1>2
  <2>6. \A i \in 1..(n - k) : i \in 1..(n - (k + 1) + 1) /\ (k + 1) + i - 1 = k + i
    BY <1>2
  <2> HIDE DEF tail
  <2> QED
    BY <2>3, <2>4, <2>5, <2>6
<1>5. ToSet(queue)' = {queue'[i] : i \in 1..Len(queue')}
  <2>1. PICK q : q = queue'
    OBVIOUS
  <2>2. q \in Seq(Nat)
    BY <1>4, <2>1
  <2>3. ToSet(q) = {q[i] : i \in 1..Len(q)}
    BY <2>2, Elements
  <2> QED
    BY <2>1, <2>3
<1>6. \A i \in 1..(n - k) : k + i \in 1..n
  BY <1>2
<1>7. QueueInOrder'
  <2>1. \A i \in 1..(n - k) : queue'[i] \in 1..captured
    BY <1>2, <1>4, <1>6 DEF Order, QueueInOrder
  <2>2. ASSUME NEW i \in 1..(n - k), NEW j \in 1..(n - k), i < j
        PROVE  queue'[i] < queue'[j]
    <3>1. k + i \in 1..n /\ k + j \in 1..n /\ k + i < k + j
      BY <2>2, <1>2, <1>6
    <3>2. queue[k + i] < queue[k + j]
      BY <1>2, <3>1 DEF Order, QueueInOrder
    <3> QED
      BY <1>4, <3>2
  <2> QED
    BY <1>4, <2>1, <2>2 DEF QueueInOrder
<1>8. ToSet(queue)' \subseteq ToSet(queue)
  BY <1>1, <1>2, <1>4, <1>5, <1>6
<1>9. ToSet(queue) \subseteq ToSet(queue)' \cup Node!First(k)
  <2> SUFFICES ASSUME NEW i \in 1..n, i \notin 1..k
               PROVE  queue[i] \in ToSet(queue)'
    BY <1>1, <1>2 DEF Node!First
  <2>1. PICK j \in 1..(n - k) : k + j = i
    <3>1. i - k \in 1..(n - k) /\ k + (i - k) = i
      BY <1>2
    <3> QED
      BY <3>1
  <2> QED
    BY <1>4, <1>5, <2>1
<1> QED
  BY <1>2, <1>4, <1>7, <1>8, <1>9

LEMMA KeepRowsStep ==
    ASSUME Order, NEW n \in 1..Len(queue), KeepRows(n)
    PROVE  /\ NodeStep(dropped' \cup lost') /\ asked' = NoThread
           /\ \E k \in 0..Len(queue) : /\ queue' = Node!Rest(k)
                                      /\ dropped' = dropped \cup Node!First(k)
           /\ UNCHANGED <<captured, lost>>
<1>1. Len(queue) \in Nat /\ buffered \in 0..Len(queue)
  BY OrderFacts
<1>2. PICK b \in 0..Len(queue), k \in 0..Len(queue) :
        /\ queue' = Node!Rest(k) /\ buffered' = b - k /\ k <= b
        /\ dropped' = dropped \cup Node!First(k)
  <2>1. PICK b \in BatchEnds(n) : \E k \in 0..(IF b > buffered THEN b ELSE 0) :
          /\ queue' = Node!Rest(k) /\ buffered' = b - k
          /\ dropped' = dropped \cup Node!First(k)
    BY DEF KeepRows
  <2>2. b \in 0..Len(queue)
    BY <1>1, <2>1 DEF BatchEnds
  <2>3. PICK k \in 0..(IF b > buffered THEN b ELSE 0) :
          /\ queue' = Node!Rest(k) /\ buffered' = b - k
          /\ dropped' = dropped \cup Node!First(k)
    BY <2>1
  <2>4. k \in 0..Len(queue) /\ k <= b
    BY <1>1, <2>2, <2>3
  <2> QED
    BY <2>2, <2>3, <2>4
<1>3. /\ captured' = captured /\ readings' = readings /\ lost' = lost /\ asked' = NoThread
  BY DEF KeepRows
<1>4. /\ queue' \in Seq(Nat) /\ Len(queue') = Len(queue) - k /\ QueueInOrder'
      /\ ToSet(queue)' \subseteq ToSet(queue)
      /\ ToSet(queue) \subseteq ToSet(queue)' \cup Node!First(k)
  BY <1>2, <1>3, WithoutTheFirst
<1>5. buffered' \in 0..Len(queue')
  BY <1>1, <1>2, <1>4
<1> QED
  BY <1>2, <1>3, <1>4, <1>5 DEF NodeStep

LEMMA DropRowsStep ==
    ASSUME Order, NEW n \in 1..Len(queue), DropRows(n), dropped \subseteq dropped'
    PROVE  /\ NodeStep(Node!First(n)) /\ asked' = NoThread
           /\ queue' = Node!Rest(n) /\ UNCHANGED <<captured, lost>>
<1>1. Len(queue) \in Nat /\ buffered \in 0..Len(queue)
  BY OrderFacts
<1>2. /\ captured' = captured /\ readings' = readings /\ lost' = lost /\ asked' = NoThread
      /\ queue' = Node!Rest(n)
      /\ buffered' = IF buffered > n THEN buffered - n ELSE 0
  BY DEF DropRows
<1>3. n \in 0..Len(queue)
  BY <1>1
<1>4. /\ queue' \in Seq(Nat) /\ Len(queue') = Len(queue) - n /\ QueueInOrder'
      /\ ToSet(queue)' \subseteq ToSet(queue)
      /\ ToSet(queue) \subseteq ToSet(queue)' \cup Node!First(n)
  BY <1>2, <1>3, WithoutTheFirst
<1>5. buffered' \in 0..Len(queue')
  BY <1>1, <1>2, <1>4
<1> QED
  BY <1>2, <1>4, <1>5 DEF NodeStep

\* What is left when a flush has lost its batch: the backlog in its place,
\* and what was captured meanwhile.
LEMMA LoseBatchStep ==
    ASSUME Order, NEW n \in 1..Len(queue), LoseBatch(n)
    PROVE  /\ NodeStep(dropped' \cup lost') /\ asked' = NoThread
           /\ UNCHANGED <<captured, dropped>>
           /\ \E rows \in SUBSET ToSet(queue) :
                /\ queue' = Kept(queue, {i \in 1..Len(queue) : queue[i] \notin rows})
                /\ lost' = lost \cup rows
<1>1. /\ Len(queue) \in Nat /\ queue \in Seq(Nat) /\ buffered \in 0..Len(queue)
      /\ ToSet(queue) = {queue[i] : i \in 1..Len(queue)}
  BY OrderFacts
<1>2. PICK b \in 0..Len(queue) :
        /\ queue' = Kept(queue, (1..Len(queue)) \ ((buffered + 1)..b))
        /\ lost' = lost \cup {queue[i] : i \in (buffered + 1)..b}
  <2>1. PICK b \in BatchEnds(n) :
          /\ queue' = Kept(queue, (1..Len(queue)) \ ((buffered + 1)..b))
          /\ lost' = lost \cup {queue[i] : i \in (buffered + 1)..b}
    BY DEF LoseBatch
  <2>2. b \in 0..Len(queue)
    BY <1>1 DEF BatchEnds
  <2> QED
    BY <2>1, <2>2
<1>3. /\ captured' = captured /\ readings' = readings /\ dropped' = dropped
      /\ buffered' = buffered /\ asked' = NoThread
  BY DEF LoseBatch
<1> DEFINE batch == (buffered + 1)..b
           places == (1..Len(queue)) \ batch
           rows == {queue[i] : i \in batch}
<1>4. batch \subseteq 1..Len(queue) /\ places \in SUBSET (1..Len(queue))
  BY <1>1
<1>5. queue' \in Seq(Nat) /\ KeptFrom(queue', queue, places)
  <2>1. queue' = Kept(queue, places)
    BY <1>2
  <2> HIDE DEF places
  <2> QED
    BY <1>1, <1>4, <2>1, KeptLines
<1>6. /\ Len(queue') \in Nat /\ ToSet(queue)' = {queue'[i] : i \in 1..Len(queue')}
  <2>1. Len(queue') \in Nat /\ ToSet(queue') = {queue'[i] : i \in 1..Len(queue')}
    BY <1>5, Elements
  <2> QED
    BY <2>1
<1>7. \A i, j \in 1..Len(queue) : i < j => queue[i] < queue[j]
  BY DEF Order, QueueInOrder
<1>8. \A i, j \in 1..Len(queue) : queue[i] = queue[j] => i = j
  <2>1. ASSUME NEW i \in 1..Len(queue), NEW j \in 1..Len(queue), queue[i] = queue[j]
        PROVE  i = j
    <3>1. queue[i] \in Nat /\ queue[j] \in Nat
      BY <1>1, ElementOfSeq
    <3>2. ~(queue[i] < queue[j]) /\ ~(queue[j] < queue[i])
      BY <2>1, <3>1
    <3>3. ~(i < j) /\ ~(j < i)
      BY <1>7, <3>2
    <3> QED
      BY <1>1, <3>3
  <2> QED
    BY <2>1
<1>9. QueueInOrder'
  <2>1. \A k \in 1..Len(queue') : queue'[k] \in 1..captured
    <3>1. \A p \in 1..Len(queue) : queue[p] \in 1..captured
      BY DEF Order, QueueInOrder
    <3> QED
      BY <1>5, <3>1, <1>4 DEF KeptFrom
  <2>2. \A j, k \in 1..Len(queue') : j < k => queue'[j] < queue'[k]
    <3>1. ASSUME NEW j \in 1..Len(queue'), NEW k \in 1..Len(queue'), j < k
          PROVE  queue'[j] < queue'[k]
      <4>1. PICK p \in places, q \in places :
              p < q /\ queue'[j] = queue[p] /\ queue'[k] = queue[q]
        <5> HIDE DEF places
        <5> QED
          BY <1>5, <3>1 DEF KeptFrom
      <4> QED
        BY <1>4, <1>7, <4>1
    <3> QED
      BY <3>1
  <2> QED
    BY <1>3, <2>1, <2>2 DEF QueueInOrder
<1>10. ToSet(queue)' \subseteq ToSet(queue)
  <2>1. \A k \in 1..Len(queue') : \E p \in 1..Len(queue) : queue'[k] = queue[p]
    BY <1>4, <1>5 DEF KeptFrom
  <2> QED
    BY <1>1, <1>6, <2>1
<1>11. ToSet(queue) \subseteq ToSet(queue)' \cup rows
  <2>1. ASSUME NEW p \in 1..Len(queue) PROVE queue[p] \in ToSet(queue)' \cup rows
    <3>1. CASE p \in batch
      BY <3>1
    <3>2. CASE p \notin batch
      <4>1. p \in places
        BY <3>2
      <4>2. \E k \in 1..Len(queue') : queue'[k] = queue[p]
        <5> HIDE DEF places
        <5> QED
          BY <1>5, <4>1 DEF KeptFrom
      <4> QED
        BY <1>6, <4>2
    <3> QED
      BY <3>1, <3>2
  <2> HIDE DEF rows
  <2> QED
    BY <1>1, <2>1
<1>12. buffered' \in 0..Len(queue')
  <2> DEFINE Moved == {p \in 1..buffered : ~(p \in 1..Len(queue') /\ queue'[p] = queue[p])}
  <2>1. Moved = {}
    <3>1. SUFFICES ASSUME Moved # {} PROVE FALSE
      OBVIOUS
    <3>2. Moved \in SUBSET Nat
      BY <1>1
    <3>3. PICK p \in Moved : \A k \in Moved : ~(k < p)
      <4> HIDE DEF Moved
      <4> QED
        BY <3>1, <3>2, Least
    <3>4. p \in 1..buffered /\ p \in Nat /\ p \in places
      BY <1>1
    <3>5. PICK k \in 1..Len(queue') : k <= p /\ queue'[k] = queue[p]
      <4> HIDE DEF places, Moved
      <4> QED
        BY <1>5, <3>4 DEF KeptFrom
    <3>6. k \in Nat /\ k # p
      BY <1>6, <3>3, <3>5
    <3>7. k \in 1..buffered /\ k < p
      BY <1>1, <3>4, <3>5, <3>6
    <3>8. queue'[k] = queue[k]
      BY <3>3, <3>7
    <3>9. k \in 1..Len(queue) /\ p \in 1..Len(queue)
      BY <1>1, <3>4, <3>7
    <3> QED
      BY <1>8, <3>5, <3>6, <3>8, <3>9
  <2>2. \A p \in 1..buffered : p \in 1..Len(queue')
    BY <2>1
  <2>3. buffered # 0 => buffered \in 1..Len(queue')
    <3>1. buffered # 0 => buffered \in 1..buffered
      BY <1>1
    <3> QED
      BY <2>2, <3>1
  <2> QED
    BY <1>1, <1>3, <1>6, <2>3
<1>13. rows \in SUBSET ToSet(queue) /\ lost' = lost \cup rows
  BY <1>1, <1>2, <1>4
<1>14. queue' = Kept(queue, {i \in 1..Len(queue) : queue[i] \notin rows})
  <2>1. {i \in 1..Len(queue) : queue[i] \notin rows} = places
    <3>1. ASSUME NEW i \in 1..Len(queue) PROVE queue[i] \in rows <=> i \in batch
      BY <1>4, <1>8
    <3> HIDE DEF rows, batch
    <3> QED
      BY <3>1
  <2> QED
    BY <1>2, <2>1
<1>15. NodeStep(dropped' \cup lost')
  <2>1. ToSet(queue) \subseteq ToSet(queue)' \cup (dropped' \cup lost')
    BY <1>11, <1>13
  <2> QED
    BY <1>3, <1>5, <1>9, <1>10, <1>12, <1>13, <2>1 DEF NodeStep
<1> QED
  BY <1>3, <1>13, <1>14, <1>15

\* What a thread's answer does, when it is no success.
LEMMA AnsweredStep ==
    ASSUME Order, NEW t \in Threads, pc[t] # "idle",
           NEW status \in {400, 429, 500}, answered(t, status)
    PROVE  NodeStep(dropped' \cup lost') /\ asked' # t
<1>1. CASE asked # t
  <2>1. UNCHANGED <<captured, queue, buffered, readings, dropped, lost, asked>>
    BY <1>1 DEF answered, nodeVars
  <2>2. queue' \in Seq(Nat) /\ buffered' \in 0..Len(queue') /\ QueueInOrder'
    BY <2>1 DEF Order, Types, QueueInOrder
  <2> QED
    BY <1>1, <2>1, <2>2 DEF NodeStep
<1>2. CASE asked = t
  <2>1. Len(job[t]) \in 1..Len(queue) /\ NoThread # t
    BY <1>2, AskedFacts, OrderFacts
  <2>2. PICK n \in 1..Len(queue) : n = Len(job[t])
    BY <2>1
  <2>3. CASE status = 400
    <3>1. DropRows(n) /\ dropped' = dropped \cup Node!First(n)
      BY <1>2, <2>2, <2>3 DEF answered
    <3>2. NodeStep(Node!First(n)) /\ asked' = NoThread
      BY <3>1, DropRowsStep
    <3> QED
      BY <2>1, <3>1, <3>2 DEF NodeStep
  <2>4. CASE status = 429
    <3>1. KeepRows(n)
      BY <1>2, <2>2, <2>4 DEF answered
    <3> QED
      BY <2>1, <3>1, KeepRowsStep
  <2>5. CASE status = 500
    <3>1. LoseBatch(n)
      BY <1>2, <2>2, <2>5 DEF answered
    <3> QED
      BY <2>1, <3>1, LoseBatchStep
  <2> QED
    BY <2>3, <2>4, <2>5
<1> QED
  BY <1>1, <1>2

\* A success: the rows of the job leave the queue.
LEMMA AcceptedStep ==
    ASSUME Order, NEW t \in Threads, answered(t, 200)
    PROVE  NodeStep(ToSet(job[t])) /\ asked' # t
<1>1. CASE asked # t
  <2>1. UNCHANGED <<captured, queue, buffered, readings, dropped, lost, asked>>
    BY <1>1 DEF answered, nodeVars
  <2>2. queue' \in Seq(Nat) /\ buffered' \in 0..Len(queue') /\ QueueInOrder'
    BY <2>1 DEF Order, Types, QueueInOrder
  <2> QED
    BY <1>1, <2>1, <2>2 DEF NodeStep
<1>2. CASE asked = t
  <2>1. /\ Len(job[t]) \in 1..Len(queue) /\ NoThread # t
        /\ ToSet(job[t]) = {queue[i] : i \in 1..Len(job[t])}
    BY <1>2, AskedFacts, OrderFacts
  <2>2. PICK n \in 1..Len(queue) : n = Len(job[t])
    BY <2>1
  <2>3. DropRows(n) /\ dropped' = dropped
    BY <1>2, <2>2 DEF answered
  <2>4. NodeStep(Node!First(n)) /\ asked' = NoThread
    BY <2>3, DropRowsStep
  <2> QED
    BY <2>1, <2>2, <2>4 DEF Node!First
<1> QED
  BY <1>1, <1>2

--------------------------------------------------------------------------------
(* What a step keeps that lets some threads go, others stay as they are.   *)

Stays(t) == /\ pc'[t] = pc[t] /\ job'[t] = job[t]
            /\ rest'[t] = rest[t] /\ unique'[t] = unique[t]

Leaves(t) == pc'[t] = "idle" /\ unique'[t] = {}

ThreadTypes ==
    /\ pc \in [Threads -> {"idle", "post_samples", "allow", "filter_new"}]
    /\ job \in [Threads -> Seq(Nat)] /\ rest \in [Threads -> Seq(Nat)]
    /\ unique = [t \in Threads |-> unique[t]]
    /\ delay \in [Threads -> Nat]

LEMMA StayOrLeave ==
    ASSUME QueueInv, NEW gone, NodeStep(gone), ThreadTypes', seen' \in Seq(ToSet(seen')),
           \A t \in Threads : Stays(t) \/ (Leaves(t) /\ asked' # t),
           CoveredKeys \subseteq CoveredKeys', Window' \subseteq CoveredKeys',
           delivered \subseteq delivered',
           \A i \in gone : i \in dropped' \cup lost'
                            \/ (i \in delivered' /\ Key(readings[i]) \in CoveredKeys')
    PROVE  QueueInv'
<1> USE DEF QueueInv
<1>1. /\ captured' = captured /\ readings' = readings
      /\ queue' \in Seq(Nat) /\ buffered' \in 0..Len(queue') /\ QueueInOrder'
      /\ ToSet(queue)' \subseteq ToSet(queue) /\ ToSet(queue) \subseteq ToSet(queue)' \cup gone
      /\ dropped \subseteq dropped' /\ lost \subseteq lost'
      /\ asked' = NoThread \/ (asked' = asked /\ queue' = queue)
  BY DEF NodeStep
<1>2. Types'
  <2>1. asked' \in Threads \cup {NoThread}
    BY <1>1 DEF Order, Types
  <2> QED
    BY <1>1, <2>1 DEF Order, Types, ThreadTypes
<1>3. ThreadsInOrder'
  <2> SUFFICES ASSUME NEW t \in Threads PROVE ThreadInOrder(t)'
    BY DEF ThreadsInOrder
  <2>1. CASE Leaves(t)
    BY <2>1 DEF Leaves, ThreadInOrder
  <2>2. CASE Stays(t)
    <3>1. ThreadInOrder(t)
      BY DEF Order, ThreadsInOrder
    <3>2. JobAhead(t) => JobAhead(t)'
      <4>1. ToSet(job[t])' = ToSet(job[t])
        BY <2>2 DEF Stays
      <4> QED
        BY <1>1, <4>1 DEF JobAhead
    <3> QED
      BY <2>2, <3>1, <3>2 DEF Stays, ThreadInOrder
  <2> QED
    BY <2>1, <2>2
<1>4. AskedForTheFront'
  <2> SUFFICES ASSUME asked' # NoThread
               PROVE  /\ pc'[asked'] # "idle" /\ Len(job'[asked']) \in 1..Len(queue')
                      /\ \A i \in 1..Len(job'[asked']) : job'[asked'][i] = queue'[i]
    BY DEF AskedForTheFront
  <2>1. asked' = asked /\ queue' = queue /\ asked \in Threads
    BY <1>1, AskedFacts
  <2>2. Stays(asked)
    BY <2>1
  <2> QED
    BY <2>1, <2>2 DEF Stays, Order, AskedForTheFront
<1>5. \A i : Covered(i) => Covered(i)'
  BY <1>1 DEF Covered, Key
<1>6. \A i \in gone : i \in GivenUp' \/ (i \in delivered' /\ Covered(i)')
  BY <1>1 DEF GivenUp, Covered, Key
<1>7. GivenUp \subseteq GivenUp'
  BY <1>1 DEF GivenUp
<1>8. AllCovered'
  <2>1. ASSUME NEW i \in 1..captured PROVE i \in ToSet(queue)' \/ i \in GivenUp' \/ Covered(i)'
    <3>1. i \in ToSet(queue) \/ i \in GivenUp \/ Covered(i)
      BY DEF AllCovered
    <3> QED
      BY <1>1, <1>5, <1>6, <1>7, <3>1
  <2>2. ASSUME NEW t \in Threads, pc'[t] = "filter_new", NEW i \in ToSet(job'[t])
        PROVE  i \in ToSet(rest'[t]) \/ Covered(i)'
    <3>1. Stays(t)
      BY <2>2 DEF Leaves
    <3>2. i \in ToSet(rest[t]) \/ Covered(i)
      BY <2>2, <3>1 DEF Stays, AllCovered
    <3> QED
      BY <1>5, <3>1, <3>2 DEF Stays
  <2> QED
    BY <1>1, <2>1, <2>2 DEF AllCovered
<1>9. AllDelivered'
  <2>1. ASSUME NEW i \in 1..captured
        PROVE  i \in ToSet(queue)' \/ i \in GivenUp' \/ i \in delivered'
    <3>1. i \in ToSet(queue) \/ i \in GivenUp \/ i \in delivered
      BY DEF AllDelivered
    <3> QED
      BY <1>1, <1>6, <1>7, <3>1
  <2>2. ASSUME NEW t \in Threads, pc'[t] = "filter_new"
        PROVE  ToSet(job'[t]) \subseteq delivered'
    <3>1. Stays(t)
      BY <2>2 DEF Leaves
    <3> QED
      BY <2>2, <3>1 DEF Stays, AllDelivered
  <2> QED
    BY <1>1, <2>1, <2>2 DEF AllDelivered
<1> QED
  BY <1>1, <1>2, <1>3, <1>4, <1>8, <1>9 DEF Order

\* Nothing of the node changes.
LEMMA NodeStill ==
    ASSUME Order, UNCHANGED <<captured, queue, buffered, readings, dropped, lost, asked>>
    PROVE  NodeStep({})
BY DEF Order, Types, QueueInOrder, NodeStep

\* What is held on, or caught, stays covered.
LEMMA CoverGrows ==
    ASSUME \A r \in Held : r \in Held' \/ Key(r) \in caught', caught \subseteq caught'
    PROVE  CoveredKeys \subseteq CoveredKeys'
BY DEF CoveredKeys, Key

LEMMA WindowStays ==
    ASSUME QueueInv, CoveredKeys \subseteq CoveredKeys', UNCHANGED seen
    PROVE  Window' \subseteq CoveredKeys' /\ seen' \in Seq(ToSet(seen'))
<1>1. Window' = Window /\ Window \subseteq CoveredKeys /\ seen \in Seq(ToSet(seen))
  BY DEF Window, QueueInv, AllCovered, Order, Types
<1> QED
  BY <1>1

LEMMA SameKeeps ==
    ASSUME QueueInv, delay' \in [Threads -> Nat],
           UNCHANGED <<captured, queue, buffered, readings, dropped, lost, asked, pc, job, rest,
                       unique, seen, staged, caught, delivered>>
    PROVE  QueueInv'
<1>1. NodeStep({})
  BY NodeStill DEF QueueInv
<1>2. ThreadTypes'
  BY DEF QueueInv, Order, Types, ThreadTypes
<1>3. \A t \in Threads : Stays(t)
  BY DEF Stays
<1>4. CoveredKeys \subseteq CoveredKeys'
  BY CoverGrows DEF Held
<1>5. Window' \subseteq CoveredKeys' /\ seen' \in Seq(ToSet(seen'))
  BY <1>4, WindowStays
<1> QED
  BY <1>1, <1>2, <1>3, <1>4, <1>5, StayOrLeave

--------------------------------------------------------------------------------
(* Each action keeps the invariant.  First those of the node.              *)

LEMMA InitInv ==
    ASSUME Init
    PROVE  QueueInv
<1>1. <<>> \in Seq(Nat) /\ <<>> \in Seq(ToSet(<<>>)) /\ Len(<<>>) = 0
  BY EmptySeq
<1>2. Types
  BY <1>1 DEF Init, StagingInit, Types
<1>3. QueueInOrder /\ ThreadsInOrder /\ AskedForTheFront
  BY <1>1 DEF Init, QueueInOrder, ThreadsInOrder, ThreadInOrder, AskedForTheFront
<1>4. Window = {}
  BY <1>1 DEF Init, StagingInit, Window
<1>5. captured = 0 /\ \A t \in Threads : pc[t] = "idle"
  BY DEF Init
<1>6. AllCovered /\ AllDelivered
  BY <1>4, <1>5 DEF AllCovered, AllDelivered
<1> QED
  BY <1>2, <1>3, <1>6 DEF QueueInv, Order

LEMMA TickKeeps ==
    ASSUME QueueInv, tick \/ refresh_ntp
    PROVE  QueueInv'
<1>1. /\ UNCHANGED <<captured, queue, buffered, readings, dropped, lost, asked, pc, job, rest,
                     unique, seen, staged, caught, delivered>>
      /\ delay' \in [Threads -> Nat]
  <2>1. delay \in [Threads -> Nat]
    BY DEF QueueInv, Order, Types
  <2> QED
    BY <2>1 DEF tick, refresh_ntp, nodeVars, threadVars, stagingVars
<1> QED
  BY <1>1, SameKeeps

LEMMA CaptureKeeps ==
    ASSUME QueueInv, capture
    PROVE  QueueInv'
<1> USE DEF QueueInv
<1>1. PICK r : readings' = Append(readings, r)
  BY DEF capture
<1>2. /\ captured' = captured + 1 /\ queue' = Append(queue, captured + 1)
      /\ UNCHANGED <<buffered, asked, pc, job, rest, unique, delay, seen, staged, caught,
                     delivered, dropped, lost>>
  BY DEF capture, Node!Capture, threadVars, stagingVars
<1>3. /\ captured \in Nat /\ Len(queue) \in Nat /\ queue \in Seq(Nat)
      /\ buffered \in 0..Len(queue)
      /\ readings \in Seq(ToSet(readings)) /\ Len(readings) = captured
      /\ ToSet(queue) = {queue[i] : i \in 1..Len(queue)}
  BY OrderFacts DEF Order, Types
<1>4. /\ queue' \in Seq(Nat) /\ Len(queue') = Len(queue) + 1
      /\ \A i \in 1..Len(queue) : queue'[i] = queue[i]
      /\ queue'[Len(queue) + 1] = captured + 1
  BY <1>2, <1>3, AppendProperties
<1>5. /\ readings' \in Seq(ToSet(readings')) /\ Len(readings') = captured + 1
      /\ \A i \in 1..captured : readings'[i] = readings[i]
  BY <1>1, <1>3, AppendOverItself
<1>6. Types'
  BY <1>2, <1>3, <1>4, <1>5 DEF Order, Types
<1>7. /\ \A i \in 1..Len(queue) : queue[i] \in 1..captured
      /\ \A i, j \in 1..Len(queue) : i < j => queue[i] < queue[j]
  BY DEF Order, QueueInOrder
<1>8. QueueInOrder'
  <2>1. \A i \in 1..(Len(queue) + 1) : i \in 1..Len(queue) \/ i = Len(queue) + 1
    BY <1>3
  <2>2. \A i \in 1..(Len(queue) + 1) : queue'[i] \in 1..(captured + 1)
    <3>1. PICK m \in Nat, c \in Nat : m = Len(queue) /\ c = captured
      BY <1>3
    <3>2. \A i \in 1..m : queue[i] \in 1..(c + 1)
      BY <1>7, <3>1
    <3>3. c + 1 \in 1..(c + 1)
      OBVIOUS
    <3> QED
      BY <1>4, <2>1, <3>1, <3>2, <3>3
  <2>3. ASSUME NEW i \in 1..(Len(queue) + 1), NEW j \in 1..(Len(queue) + 1), i < j
        PROVE  queue'[i] < queue'[j]
    <3>1. i \in 1..Len(queue) /\ queue'[i] = queue[i] /\ queue[i] \in 1..captured
      BY <1>3, <1>4, <1>7, <2>3
    <3>2. CASE j \in 1..Len(queue)
      BY <1>4, <1>7, <2>3, <3>1, <3>2
    <3>3. CASE j = Len(queue) + 1
      BY <1>3, <1>4, <3>1, <3>3
    <3> QED
      BY <2>1, <3>2, <3>3
  <2> QED
    BY <1>2, <1>4, <2>2, <2>3 DEF QueueInOrder
<1>9. ToSet(queue)' = ToSet(queue) \cup {captured + 1}
  <2>1. ToSet(queue') = {queue'[i] : i \in 1..Len(queue')}
    BY <1>4, Elements
  <2>2. {queue'[i] : i \in 1..(Len(queue) + 1)}
          = {queue'[i] : i \in 1..Len(queue)} \cup {queue'[Len(queue) + 1]}
    BY <1>3
  <2>3. {queue'[i] : i \in 1..Len(queue)} = {queue[i] : i \in 1..Len(queue)}
    BY <1>4
  <2> QED
    BY <1>3, <1>4, <2>1, <2>2, <2>3
<1>10. ThreadsInOrder'
  <2> SUFFICES ASSUME NEW t \in Threads PROVE ThreadInOrder(t)'
    BY DEF ThreadsInOrder
  <2>1. ThreadInOrder(t)
    BY DEF Order, ThreadsInOrder
  <2>2. ToSet(job[t])' = ToSet(job[t]) /\ ToSet(rest[t])' = ToSet(rest[t])
    BY <1>2
  <2>3. JobAhead(t) => JobAhead(t)'
    <3> SUFFICES ASSUME JobAhead(t), NEW x \in ToSet(job[t])
                 PROVE  /\ x \in 1..(captured + 1)
                        /\ \A y \in ToSet(queue)' : y < x => y \in ToSet(job[t])
      BY <1>2, <2>2 DEF JobAhead
    <3>1. /\ x \in 1..captured
          /\ \A y \in ToSet(queue) : y < x => y \in ToSet(job[t])
      BY DEF JobAhead
    <3>2. ~(captured + 1 < x) /\ x \in 1..(captured + 1)
      BY <1>3, <3>1
    <3> QED
      BY <1>9, <3>1, <3>2
  <2> QED
    BY <1>2, <2>1, <2>2, <2>3 DEF ThreadInOrder
<1>11. AskedForTheFront'
  <2> SUFFICES ASSUME asked # NoThread
               PROVE  /\ pc[asked] # "idle" /\ Len(job[asked]) \in 1..Len(queue')
                      /\ \A i \in 1..Len(job[asked]) : job[asked][i] = queue'[i]
    BY <1>2 DEF AskedForTheFront
  <2>1. /\ pc[asked] # "idle" /\ Len(job[asked]) \in 1..Len(queue)
        /\ \A i \in 1..Len(job[asked]) : job[asked][i] = queue[i]
    BY DEF Order, AskedForTheFront
  <2>2. \A i \in 1..Len(job[asked]) : i \in 1..Len(queue)
    BY <1>3, <2>1
  <2> QED
    BY <1>3, <1>4, <2>1, <2>2
<1>12. \A i \in 1..captured : Covered(i) => Covered(i)'
  <2>1. CoveredKeys' = CoveredKeys
    BY <1>2 DEF CoveredKeys, Held, Key
  <2> QED
    BY <1>5, <2>1 DEF Covered, Key
<1>13. \A i \in 1..(captured + 1) : i \in 1..captured \/ i = captured + 1
  BY <1>3
<1>14. GivenUp' = GivenUp
  BY <1>2 DEF GivenUp
<1>15. AllCovered'
  <2>1. \A i \in 1..(captured + 1) : i \in ToSet(queue)' \/ i \in GivenUp \/ Covered(i)'
    BY <1>9, <1>12, <1>13 DEF AllCovered
  <2>2. ASSUME NEW t \in Threads, pc[t] = "filter_new", NEW i \in ToSet(job[t])
        PROVE  i \in ToSet(rest[t]) \/ Covered(i)'
    <3>1. i \in 1..captured
      BY <2>2 DEF Order, ThreadsInOrder, ThreadInOrder, JobAhead
    <3>2. i \in ToSet(rest[t]) \/ Covered(i)
      BY <2>2 DEF AllCovered
    <3> QED
      BY <1>12, <3>1, <3>2
  <2>3. Window' \subseteq CoveredKeys'
    BY <1>2 DEF AllCovered, Window, CoveredKeys, Held, Key
  <2> QED
    BY <1>2, <1>14, <2>1, <2>2, <2>3 DEF AllCovered
<1>16. AllDelivered'
  <2>1. \A i \in 1..(captured + 1) : i \in ToSet(queue)' \/ i \in GivenUp \/ i \in delivered
    BY <1>9, <1>13 DEF AllDelivered
  <2> QED
    BY <1>2, <1>14, <2>1 DEF AllDelivered
<1> QED
  BY <1>6, <1>8, <1>10, <1>11, <1>15, <1>16 DEF Order

LEMMA PushKeeps ==
    ASSUME QueueInv, push
    PROVE  QueueInv'
<1> USE DEF QueueInv
<1>1. /\ captured \in Nat /\ Len(queue) \in Nat /\ queue \in Seq(Nat)
      /\ buffered \in 0..Len(queue) /\ NoThread \notin Threads
      /\ ToSet(queue) = {queue[i] : i \in 1..Len(queue)}
  BY OrderFacts
<1>2. /\ UNCHANGED <<captured, queue, buffered, readings, dropped, lost, rest, unique, delay,
                     seen, staged, caught, delivered>>
      /\ asked = NoThread
  BY DEF push, nodeVars, stagingVars
<1>3. PICK t \in Threads, n \in 1..Len(queue) :
        /\ pc[t] = "idle"
        /\ job' = [job EXCEPT ![t] = SubSeq(queue, 1, n)]
        /\ pc' = [pc EXCEPT ![t] = "post_samples"]
        /\ asked' = t
  <2>1. Chunk \in Nat /\ Chunk >= 1
    BY DeliveryAssumption, LimiterAssumption
  <2>2. Sizes \subseteq 1..Len(queue)
    BY <1>1, <2>1 DEF Sizes
  <2> QED
    BY <2>2 DEF push
<1>4. \A i \in 1..n : i \in 1..Len(queue)
  BY <1>1
<1>5. /\ job'[t] \in Seq(Nat) /\ Len(job'[t]) = n
      /\ \A i \in 1..n : job'[t][i] = queue[i]
  <2> DEFINE taken == SubSeq(queue, 1, n)
  <2>1. \A i \in 1..n : queue[i] \in Nat
    BY <1>1, <1>4, ElementOfSeq
  <2>2. /\ taken \in Seq(Nat) /\ Len(taken) = IF 1 <= n THEN n - 1 + 1 ELSE 0
        /\ \A i \in 1..(n - 1 + 1) : taken[i] = queue[1 + i - 1]
    BY <1>1, <2>1, SubSeqProperties
  <2>3. Len(taken) = n /\ \A i \in 1..n : i \in 1..(n - 1 + 1) /\ 1 + i - 1 = i
    BY <1>1, <2>2
  <2>4. job'[t] = taken
    BY <1>3 DEF Order, Types
  <2> HIDE DEF taken
  <2> QED
    BY <2>2, <2>3, <2>4
<1>6. /\ ThreadTypes'
      /\ pc'[t] = "post_samples" /\ unique'[t] = {}
      /\ \A u \in Threads \ {t} : Stays(u)
  <2>1. /\ pc \in [Threads -> {"idle", "post_samples", "allow", "filter_new"}]
        /\ job \in [Threads -> Seq(Nat)] /\ rest \in [Threads -> Seq(Nat)]
        /\ unique = [u \in Threads |-> unique[u]] /\ delay \in [Threads -> Nat]
    BY DEF Order, Types
  <2>2. unique[t] = {}
    BY <1>3 DEF Order, ThreadsInOrder, ThreadInOrder
  <2>3. job' \in [Threads -> Seq(Nat)]
    BY <1>3, <1>5, <2>1
  <2> QED
    BY <1>2, <1>3, <2>1, <2>2, <2>3 DEF ThreadTypes, Stays
<1>7. ToSet(job'[t]) = {queue[i] : i \in 1..n}
  <2>1. ToSet(job'[t]) = {job'[t][i] : i \in 1..n}
    BY <1>5, Elements
  <2> QED
    BY <1>5, <2>1
<1>8. Types'
  BY <1>2, <1>3, <1>6 DEF Order, Types, ThreadTypes
<1>9. QueueInOrder'
  BY <1>2 DEF Order, QueueInOrder
<1>10. ThreadsInOrder'
  <2> SUFFICES ASSUME NEW u \in Threads PROVE ThreadInOrder(u)'
    BY DEF ThreadsInOrder
  <2>1. CASE u = t
    <3>1. ASSUME NEW i \in 1..n, NEW y \in ToSet(queue), y < queue[i]
          PROVE  y \in {queue[k] : k \in 1..n}
      <4>1. PICK k \in 1..Len(queue) : y = queue[k]
        BY <1>1
      <4>2. i \in 1..Len(queue)
        BY <1>4
      <4>3. queue[k] \in Nat /\ queue[i] \in Nat
        BY <1>1, <4>2, ElementOfSeq
      <4>4. ~(i < k) /\ i # k
        BY <3>1, <4>1, <4>2, <4>3 DEF Order, QueueInOrder
      <4>5. k \in 1..n
        BY <1>1, <4>2, <4>4
      <4> QED
        BY <4>1, <4>5
    <3>2. \A i \in 1..n : queue[i] \in 1..captured
      BY <1>4 DEF Order, QueueInOrder
    <3>3. JobAhead(t)'
      BY <1>2, <1>7, <3>1, <3>2 DEF JobAhead
    <3> QED
      BY <1>6, <2>1, <3>3 DEF ThreadInOrder
  <2>2. CASE u # t
    <3>1. Stays(u) /\ ThreadInOrder(u)
      BY <1>6, <2>2 DEF Order, ThreadsInOrder
    <3>2. JobAhead(u) => JobAhead(u)'
      BY <1>2, <3>1 DEF Stays, JobAhead
    <3> QED
      BY <3>1, <3>2 DEF Stays, ThreadInOrder
  <2> QED
    BY <2>1, <2>2
<1>11. AskedForTheFront'
  BY <1>2, <1>3, <1>5, <1>6 DEF AskedForTheFront
<1>12. CoveredKeys' = CoveredKeys /\ \A i : Covered(i)' <=> Covered(i)
  BY <1>2 DEF Covered, CoveredKeys, Held, Key
<1>13. AllCovered'
  <2>1. ASSUME NEW u \in Threads, pc'[u] = "filter_new"
        PROVE  \A i \in ToSet(job'[u]) : i \in ToSet(rest'[u]) \/ Covered(i)'
    <3>1. Stays(u)
      BY <1>6, <2>1
    <3> QED
      BY <1>12, <2>1, <3>1 DEF Stays, AllCovered
  <2>2. Window' = Window
    BY <1>2 DEF Window
  <2> QED
    BY <1>2, <1>12, <2>1, <2>2 DEF AllCovered, GivenUp
<1>14. AllDelivered'
  <2>1. ASSUME NEW u \in Threads, pc'[u] = "filter_new"
        PROVE  ToSet(job'[u]) \subseteq delivered'
    <3>1. Stays(u)
      BY <1>6, <2>1
    <3> QED
      BY <1>2, <2>1, <3>1 DEF Stays, AllDelivered
  <2> QED
    BY <1>2, <2>1 DEF AllDelivered, GivenUp
<1> QED
  BY <1>8, <1>9, <1>10, <1>11, <1>13, <1>14 DEF Order

\* A push given up: the thread that had it goes on or never did.
LEMMA AbandonKeeps ==
    ASSUME QueueInv, give_up \/ time_out
    PROVE  QueueInv'
<1> USE DEF QueueInv
<1>1. /\ asked \in Threads /\ pc[asked] # "idle" /\ Len(job[asked]) \in 1..Len(queue)
      /\ NoThread \notin Threads
  BY AskedFacts, OrderFacts DEF give_up, time_out, Abandon
<1>2. NodeStep(dropped' \cup lost') /\ asked' = NoThread
  BY <1>1, KeepRowsStep, LoseBatchStep DEF give_up, time_out
<1>3. /\ UNCHANGED <<rest, unique, delivered, delay, caught, seen, staged>>
      /\ \/ UNCHANGED <<pc, job>>
         \/ /\ pc[asked] = "post_samples"
            /\ pc' = [pc EXCEPT ![asked] = "idle"] /\ job' = [job EXCEPT ![asked] = <<>>]
  BY DEF give_up, time_out, Abandon, stagingVars
<1>4. /\ pc \in [Threads -> {"idle", "post_samples", "allow", "filter_new"}]
      /\ job \in [Threads -> Seq(Nat)] /\ rest \in [Threads -> Seq(Nat)]
      /\ unique = [t \in Threads |-> unique[t]] /\ delay \in [Threads -> Nat]
  BY DEF Order, Types
<1>5. pc[asked] = "post_samples" => unique[asked] = {}
  BY <1>1 DEF Order, ThreadsInOrder, ThreadInOrder
<1>6. ThreadTypes' /\ \A t \in Threads : Stays(t) \/ Leaves(t)
  <2>1. <<>> \in Seq(Nat)
    BY EmptySeq
  <2> QED
    BY <1>1, <1>3, <1>4, <1>5, <2>1 DEF ThreadTypes, Stays, Leaves
<1>7. CoveredKeys \subseteq CoveredKeys'
  BY <1>3, CoverGrows DEF Held
<1>8. Window' \subseteq CoveredKeys' /\ seen' \in Seq(ToSet(seen'))
  BY <1>3, <1>7, WindowStays
<1>9. \A t \in Threads : asked' # t
  BY <1>1, <1>2
<1> QED
  BY <1>2, <1>3, <1>6, <1>7, <1>8, <1>9, StayOrLeave

--------------------------------------------------------------------------------
(* The server's threads.                                                   *)

\* A thread that leaves takes nothing from the others.
LEMMA LeaveFacts ==
    ASSUME Order, NEW t \in Threads, Leave(t), delay' \in [Threads -> Nat]
    PROVE  ThreadTypes' /\ Leaves(t) /\ \A u \in Threads \ {t} : Stays(u)
<1>1. <<>> \in Seq(Nat)
  BY EmptySeq
<1>2. /\ pc \in [Threads -> {"idle", "post_samples", "allow", "filter_new"}]
      /\ job \in [Threads -> Seq(Nat)] /\ rest \in [Threads -> Seq(Nat)]
      /\ unique = [u \in Threads |-> unique[u]]
  BY DEF Order, Types
<1>3. /\ pc' = [pc EXCEPT ![t] = "idle"] /\ job' = [job EXCEPT ![t] = <<>>]
      /\ rest' = [rest EXCEPT ![t] = <<>>] /\ unique' = [unique EXCEPT ![t] = {}]
  BY DEF Leave
<1>4. /\ unique' = [u \in Threads |-> unique'[u]]
      /\ unique'[t] = {} /\ \A u \in Threads \ {t} : unique'[u] = unique[u]
  BY <1>2, <1>3
<1>5. ThreadTypes'
  BY <1>1, <1>2, <1>3, <1>4 DEF ThreadTypes
<1>6. Leaves(t) /\ \A u \in Threads \ {t} : Stays(u)
  BY <1>2, <1>3, <1>4 DEF Leaves, Stays
<1> QED
  BY <1>5, <1>6

\* A thread that leaves with nothing found new and answers no success.
LEMMA TurnedAwayKeeps ==
    ASSUME QueueInv, NEW t \in Threads, pc[t] \in {"post_samples", "allow"}, Leave(t),
           NEW status \in {400, 429}, answered(t, status), delay' \in [Threads -> Nat],
           UNCHANGED <<delivered, caught, seen, staged>>
    PROVE  QueueInv'
<1> USE DEF QueueInv
<1>1. NodeStep(dropped' \cup lost') /\ asked' # t
  BY AnsweredStep
<1>2. ThreadTypes' /\ Leaves(t) /\ \A u \in Threads \ {t} : Stays(u)
  BY LeaveFacts
<1>3. unique[t] = {}
  BY DEF Order, ThreadsInOrder, ThreadInOrder
<1>4. CoveredKeys \subseteq CoveredKeys'
  <2>1. \A u \in Threads : unique'[u] = unique[u]
    BY <1>2, <1>3 DEF Leaves, Stays
  <2> QED
    BY <2>1, CoverGrows DEF Held
<1>5. Window' \subseteq CoveredKeys' /\ seen' \in Seq(ToSet(seen'))
  BY <1>4, WindowStays
<1>6. \A u \in Threads : Stays(u) \/ (Leaves(u) /\ asked' # u)
  BY <1>1, <1>2
<1> QED
  BY <1>1, <1>2, <1>4, <1>5, <1>6, StayOrLeave

LEMMA RefuseKeeps ==
    ASSUME QueueInv, NEW t \in Threads, refuse(t)
    PROVE  QueueInv'
<1>1. /\ pc[t] = "post_samples" /\ Leave(t) /\ answered(t, 400)
      /\ delay' \in [Threads -> Nat] /\ UNCHANGED <<delivered, caught, seen, staged>>
  BY DEF refuse, stagingVars, QueueInv, Order, Types
<1> QED
  BY <1>1, TurnedAwayKeeps

\* A thread goes on to its next step, with its job and what it found.
LEMMA GoesOn ==
    ASSUME QueueInv, NEW t \in Threads, pc[t] \in {"post_samples", "allow"},
           NEW to \in {"allow", "filter_new"}, pc' = [pc EXCEPT ![t] = to],
           rest' \in [Threads -> Seq(Nat)], \A u \in Threads \ {t} : rest'[u] = rest[u],
           to = "filter_new" => rest'[t] = job[t] /\ ToSet(job[t]) \subseteq delivered',
           delivered \subseteq delivered', delay' \in [Threads -> Nat],
           UNCHANGED <<captured, queue, buffered, readings, dropped, lost, asked, job, unique,
                       seen, staged, caught>>
    PROVE  QueueInv'
<1> USE DEF QueueInv
<1>1. /\ pc \in [Threads -> {"idle", "post_samples", "allow", "filter_new"}]
      /\ unique[t] = {} /\ JobAhead(t) /\ pc[t] # "idle"
  BY DEF Order, Types, ThreadsInOrder, ThreadInOrder
<1>2. /\ pc' \in [Threads -> {"idle", "post_samples", "allow", "filter_new"}]
      /\ pc'[t] = to /\ \A u \in Threads \ {t} : pc'[u] = pc[u]
  BY <1>1
<1>3. Types'
  BY <1>2 DEF Order, Types
<1>4. QueueInOrder'
  BY DEF Order, QueueInOrder
<1>5. ThreadsInOrder'
  <2> SUFFICES ASSUME NEW u \in Threads PROVE ThreadInOrder(u)'
    BY DEF ThreadsInOrder
  <2>1. JobAhead(u) => JobAhead(u)'
    BY DEF JobAhead
  <2>2. CASE u = t
    BY <1>1, <1>2, <2>1, <2>2 DEF ThreadInOrder
  <2>3. CASE u # t
    <3>1. ThreadInOrder(u)
      BY DEF Order, ThreadsInOrder
    <3> QED
      BY <1>2, <2>1, <2>3, <3>1 DEF ThreadInOrder
  <2> QED
    BY <2>2, <2>3
<1>6. AskedForTheFront'
  <2>1. asked # NoThread => pc'[asked] # "idle"
    <3>1. asked # NoThread => asked \in Threads /\ pc[asked] # "idle"
      BY AskedFacts
    <3> QED
      BY <1>2, <3>1
  <2> QED
    BY <2>1 DEF Order, AskedForTheFront
<1>7. CoveredKeys' = CoveredKeys /\ \A i : Covered(i)' <=> Covered(i)
  BY DEF Covered, CoveredKeys, Held, Key
<1>8. AllCovered'
  <2>1. ASSUME NEW u \in Threads, pc'[u] = "filter_new"
        PROVE  \A i \in ToSet(job[u]) : i \in ToSet(rest'[u]) \/ Covered(i)
    <3>1. CASE u = t
      BY <1>2, <2>1, <3>1
    <3>2. CASE u # t
      BY <1>2, <2>1, <3>2 DEF AllCovered
    <3> QED
      BY <3>1, <3>2
  <2>2. Window' = Window
    BY DEF Window
  <2> QED
    BY <1>7, <2>1, <2>2 DEF AllCovered, GivenUp
<1>9. AllDelivered'
  <2>1. ASSUME NEW u \in Threads, pc'[u] = "filter_new"
        PROVE  ToSet(job[u]) \subseteq delivered'
    <3>1. CASE u = t
      BY <1>2, <2>1, <3>1
    <3>2. CASE u # t
      BY <1>2, <2>1, <3>2 DEF AllDelivered
    <3> QED
      BY <3>1, <3>2
  <2> QED
    BY <2>1 DEF AllDelivered, GivenUp
<1> QED
  BY <1>3, <1>4, <1>5, <1>6, <1>8, <1>9 DEF Order

LEMMA ReadTimeKeeps ==
    ASSUME QueueInv, NEW t \in Threads, read_time(t)
    PROVE  QueueInv'
<1>1. /\ pc[t] = "post_samples" /\ pc' = [pc EXCEPT ![t] = "allow"]
      /\ UNCHANGED <<captured, queue, buffered, readings, dropped, lost, asked, job, rest,
                     unique, seen, staged, caught, delivered, delay>>
  BY DEF read_time, nodeVars, stagingVars
<1>2. rest \in [Threads -> Seq(Nat)] /\ delay \in [Threads -> Nat]
  BY DEF QueueInv, Order, Types
<1> QED
  BY <1>1, <1>2, GoesOn

LEMMA LimitKeeps ==
    ASSUME QueueInv, NEW t \in Threads, limit(t)
    PROVE  QueueInv'
<1>1. /\ pc[t] = "allow" /\ delay' = [delay EXCEPT ![t] = 0]
      /\ UNCHANGED <<caught, seen, staged>>
      /\ \/ /\ pc' = [pc EXCEPT ![t] = "filter_new"]
            /\ rest' = [rest EXCEPT ![t] = job[t]]
            /\ delivered' = delivered \cup ToSet(job[t])
            /\ UNCHANGED <<captured, queue, buffered, readings, dropped, lost, asked, job,
                           unique>>
         \/ Leave(t) /\ answered(t, 429) /\ UNCHANGED delivered
  BY DEF limit, nodeVars, stagingVars
<1>2. /\ rest \in [Threads -> Seq(Nat)] /\ job \in [Threads -> Seq(Nat)]
      /\ delay' \in [Threads -> Nat]
  BY <1>1 DEF QueueInv, Order, Types
<1>3. CASE Leave(t) /\ answered(t, 429) /\ UNCHANGED delivered
  BY <1>1, <1>2, <1>3, TurnedAwayKeeps
<1>4. CASE /\ pc' = [pc EXCEPT ![t] = "filter_new"]
           /\ rest' = [rest EXCEPT ![t] = job[t]]
           /\ delivered' = delivered \cup ToSet(job[t])
           /\ UNCHANGED <<captured, queue, buffered, readings, dropped, lost, asked, job,
                          unique>>
  <2>1. /\ rest' \in [Threads -> Seq(Nat)] /\ rest'[t] = job[t]
        /\ \A u \in Threads \ {t} : rest'[u] = rest[u]
    BY <1>2, <1>4
  <2> QED
    BY <1>1, <1>2, <1>4, <2>1, GoesOn
<1> QED
  BY <1>1, <1>3, <1>4

LEMMA FilterNewKeeps ==
    ASSUME QueueInv, NEW t \in Threads, filter_new(t)
    PROVE  QueueInv'
<1> USE DEF QueueInv
<1>1. /\ UNCHANGED <<captured, queue, buffered, readings, dropped, lost, asked, pc, job, delay,
                     staged, caught, delivered>>
      /\ pc[t] = "filter_new" /\ rest[t] # <<>>
      /\ rest' = [rest EXCEPT ![t] = Tail(rest[t])]
  BY DEF filter_new, filter_row, nodeVars
<1>2. /\ rest[t] \in Seq(Nat) /\ Len(rest[t]) \in Nat
      /\ ToSet(rest[t]) = {rest[t][i] : i \in 1..Len(rest[t])}
      /\ JobAhead(t) /\ ToSet(rest[t]) \subseteq ToSet(job[t])
  <2>1. ThreadInOrder(t)
    BY ThreadFacts
  <2> QED
    BY <1>1, <2>1, ThreadFacts DEF ThreadInOrder
<1>3. PICK i0, r : i0 = Head(rest[t]) /\ r = readings[i0]
  OBVIOUS
<1>4. /\ Len(rest[t]) >= 1 /\ i0 = rest[t][1]
      /\ Tail(rest[t]) \in Seq(Nat) /\ Len(Tail(rest[t])) = Len(rest[t]) - 1
      /\ \A i \in 1..Len(Tail(rest[t])) : Tail(rest[t])[i] = rest[t][i + 1]
  BY <1>1, <1>2, <1>3, EmptySeq, HeadTailProperties
<1>5. /\ rest' \in [Threads -> Seq(Nat)] /\ rest'[t] = Tail(rest[t])
      /\ \A u \in Threads \ {t} : rest'[u] = rest[u]
  BY <1>1, <1>4 DEF Order, Types
<1>6. /\ ToSet(rest'[t]) \subseteq ToSet(rest[t])
      /\ ToSet(rest[t]) \subseteq ToSet(rest'[t]) \cup {i0}
  <2>1. ToSet(rest'[t]) = {rest'[t][i] : i \in 1..Len(rest'[t])}
    BY <1>4, <1>5, Elements
  <2>2. \A i \in 1..Len(rest'[t]) : i + 1 \in 1..Len(rest[t]) /\ rest'[t][i] = rest[t][i + 1]
    BY <1>2, <1>4, <1>5
  <2>3. ASSUME NEW i \in 1..Len(rest[t]), i # 1
        PROVE  rest[t][i] \in {rest'[t][k] : k \in 1..Len(rest'[t])}
    <3>1. PICK k \in 1..Len(rest'[t]) : k + 1 = i
      <4>1. PICK m \in Nat : Len(rest[t]) = m /\ Len(rest'[t]) = m - 1
        BY <1>2, <1>4, <1>5
      <4>2. i - 1 \in 1..(m - 1) /\ (i - 1) + 1 = i
        BY <2>3, <4>1
      <4> QED
        BY <4>1, <4>2
    <3> QED
      BY <2>2, <3>1
  <2> QED
    BY <1>2, <1>4, <2>1, <2>2, <2>3
<1>7. /\ unique' = [unique EXCEPT ![t] = IF Key(r) \in Window THEN unique[t]
                                         ELSE unique[t] \cup {r}]
      /\ IF Key(r) \in Window THEN seen' = seen ELSE remember(Key(r))
  BY <1>3 DEF filter_new, filter_row
<1>8. /\ unique' = [u \in Threads |-> unique'[u]]
      /\ unique'[t] = IF Key(r) \in Window THEN unique[t] ELSE unique[t] \cup {r}
      /\ \A u \in Threads \ {t} : unique'[u] = unique[u]
  <2>1. unique = [u \in Threads |-> unique[u]]
    BY DEF Order, Types
  <2> QED
    BY <1>7, <2>1
<1>9. /\ seen' \in Seq(ToSet(seen')) /\ Window' \subseteq Window \cup {Key(r)}
      /\ Key(r) \in Window => seen' = seen
  <2>1. seen \in Seq(ToSet(seen))
    BY DEF Order, Types
  <2>2. CASE Key(r) \in Window
    BY <1>7, <2>1, <2>2 DEF Window
  <2>3. CASE Key(r) \notin Window
    BY <1>7, <2>1, <2>3, Remembered
  <2> QED
    BY <2>2, <2>3
<1>10. Types'
  BY <1>1, <1>5, <1>8, <1>9 DEF Order, Types
<1>11. CoveredKeys \subseteq CoveredKeys' /\ Key(r) \in CoveredKeys'
  <2>1. \A u \in Threads : unique[u] \subseteq unique'[u]
    BY <1>8
  <2>2. Held \subseteq Held'
    BY <1>1, <2>1 DEF Held
  <2>3. CoveredKeys \subseteq CoveredKeys'
    BY <1>1, <2>2, CoverGrows
  <2>4. CASE Key(r) \in Window
    BY <2>3, <2>4 DEF AllCovered
  <2>5. CASE Key(r) \notin Window
    <3>1. r \in Held'
      BY <1>8, <2>5 DEF Held
    <3> QED
      <4>1. Key(r) \in {Key(x) : x \in Held'}
        BY <3>1
      <4>2. Key(r) = Key(r)'
        BY DEF Key
      <4>3. \A x : Key(x) = <<x.node, x.kind, x.at>>
        BY DEF Key
      <4> QED
        BY <2>3, <4>1 DEF CoveredKeys
  <2> QED
    BY <2>3, <2>4, <2>5
<1>12. Covered(i0)' /\ \A i : Covered(i) => Covered(i)'
  BY <1>1, <1>3, <1>11 DEF Covered, Key
<1>13. QueueInOrder' /\ AskedForTheFront'
  BY <1>1 DEF Order, QueueInOrder, AskedForTheFront
<1>14. ThreadsInOrder'
  <2> SUFFICES ASSUME NEW u \in Threads PROVE ThreadInOrder(u)'
    BY DEF ThreadsInOrder
  <2>1. ThreadInOrder(u) /\ (JobAhead(u) => JobAhead(u)')
    BY <1>1 DEF Order, ThreadsInOrder, JobAhead
  <2>2. CASE u = t
    <3>1. ToSet(rest'[u]) \subseteq ToSet(job[u])
      BY <1>2, <1>6, <2>2
    <3> QED
      BY <1>1, <2>1, <2>2, <3>1 DEF ThreadInOrder
  <2>3. CASE u # t
    BY <1>1, <1>5, <1>8, <2>1, <2>3 DEF ThreadInOrder
  <2> QED
    BY <2>2, <2>3
<1>15. AllCovered'
  <2>1. \A i \in 1..captured : i \in ToSet(queue) \/ i \in GivenUp \/ Covered(i)'
    BY <1>12 DEF AllCovered
  <2>2. ASSUME NEW u \in Threads, pc[u] = "filter_new", NEW i \in ToSet(job[u])
        PROVE  i \in ToSet(rest'[u]) \/ Covered(i)'
    <3>1. i \in ToSet(rest[u]) \/ Covered(i)
      BY <2>2 DEF AllCovered
    <3>2. CASE u = t
      BY <1>6, <1>12, <3>1, <3>2
    <3>3. CASE u # t
      BY <1>5, <1>12, <3>1, <3>3
    <3> QED
      BY <3>2, <3>3
  <2>3. Window' \subseteq CoveredKeys'
    BY <1>9, <1>11 DEF AllCovered
  <2> QED
    BY <1>1, <2>1, <2>2, <2>3 DEF AllCovered, GivenUp
<1>16. AllDelivered'
  BY <1>1 DEF AllDelivered, GivenUp
<1> QED
  BY <1>10, <1>13, <1>14, <1>15, <1>16 DEF Order

\* The last step of a thread that has looked at its whole job.
LEMMA AppendKeeps ==
    ASSUME QueueInv, NEW t \in Threads, append(t)
    PROVE  QueueInv'
<1> USE DEF QueueInv
<1>1. /\ pc[t] = "filter_new" /\ rest[t] = <<>> /\ Leave(t) /\ answered(t, 200)
      /\ staged' = staged \cup unique[t] /\ delay' \in [Threads -> Nat]
      /\ UNCHANGED <<delivered, caught, seen>>
  BY DEF append, append_rows, Order, Types
<1>2. NodeStep(ToSet(job[t])) /\ asked' # t
  BY <1>1, AcceptedStep
<1>3. ThreadTypes' /\ Leaves(t) /\ \A u \in Threads \ {t} : Stays(u)
  BY <1>1, LeaveFacts
<1>4. CoveredKeys \subseteq CoveredKeys'
  <2>1. \A u \in Threads : \A r \in unique[u] : r \in Held'
    BY <1>1, <1>3 DEF Held, Stays
  <2>2. Held \subseteq Held'
    BY <1>1, <2>1 DEF Held
  <2> QED
    BY <1>1, <2>2, CoverGrows
<1>5. Window' \subseteq CoveredKeys' /\ seen' \in Seq(ToSet(seen'))
  BY <1>1, <1>4, WindowStays
<1>6. \A i \in ToSet(job[t]) : i \in delivered' /\ Key(readings[i]) \in CoveredKeys'
  <2>1. ToSet(rest[t]) = {}
    <3>1. rest[t] \in Seq(Nat)
      BY ThreadFacts
    <3> QED
      BY <1>1, <3>1, Elements
  <2> QED
    BY <1>1, <1>4, <2>1 DEF AllCovered, AllDelivered, Covered
<1>7. \A u \in Threads : Stays(u) \/ (Leaves(u) /\ asked' # u)
  BY <1>2, <1>3
<1> QED
  BY <1>1, <1>2, <1>3, <1>4, <1>5, <1>6, <1>7, StayOrLeave

LEMMA AppendFailsKeeps ==
    ASSUME QueueInv, NEW t \in Threads, append_fails(t)
    PROVE  QueueInv'
<1> USE DEF QueueInv
<1>1. PICK written \in SUBSET unique[t] :
        /\ staged' = staged \cup written
        /\ caught' = caught \cup {Key(r) : r \in unique[t] \ written}
  BY DEF append_fails, append_rows
<1>2. /\ pc[t] = "filter_new" /\ Leave(t) /\ answered(t, 500)
      /\ delay' \in [Threads -> Nat]
      /\ UNCHANGED <<delivered, seen>>
  BY DEF append_fails, append_rows, Order, Types
<1>3. NodeStep(dropped' \cup lost') /\ asked' # t
  BY <1>2, AnsweredStep
<1>4. ThreadTypes' /\ Leaves(t) /\ \A u \in Threads \ {t} : Stays(u)
  BY <1>2, LeaveFacts
<1>5. CoveredKeys \subseteq CoveredKeys'
  <2>1. \A r \in unique[t] : r \in Held' \/ Key(r) \in caught'
    BY <1>1 DEF Held
  <2>2. \A u \in Threads \ {t} : \A r \in unique[u] : r \in Held'
    BY <1>4 DEF Held, Stays
  <2>3. \A r \in Held : r \in Held' \/ Key(r) \in caught'
    BY <1>1, <2>1, <2>2 DEF Held
  <2> QED
    BY <1>1, <2>3, CoverGrows
<1>6. Window' \subseteq CoveredKeys' /\ seen' \in Seq(ToSet(seen'))
  BY <1>2, <1>5, WindowStays
<1>7. \A u \in Threads : Stays(u) \/ (Leaves(u) /\ asked' # u)
  BY <1>3, <1>4
<1> QED
  BY <1>2, <1>3, <1>4, <1>5, <1>6, <1>7, StayOrLeave

LEMMA RestartKeeps ==
    ASSUME QueueInv, restart
    PROVE  QueueInv'
<1> USE DEF QueueInv
<1>1. /\ caught' = caught \cup {Key(r) : r \in UNION {unique[t] : t \in Threads}}
      /\ pc' = [t \in Threads |-> "idle"] /\ job' = [t \in Threads |-> <<>>]
      /\ rest' = [t \in Threads |-> <<>>] /\ unique' = [t \in Threads |-> {}]
      /\ delay' = [t \in Threads |-> 0]
      /\ seen' = <<>> /\ staged' = staged /\ delivered' = delivered
  BY DEF restart, lose_window
<1>2. NodeStep(dropped' \cup lost') /\ asked' = NoThread
  <2>1. CASE asked = NoThread
    <3>1. UNCHANGED <<captured, queue, buffered, readings, dropped, lost, asked>>
      BY <2>1 DEF restart, nodeVars
    <3>2. NodeStep({})
      BY <3>1, NodeStill
    <3> QED
      BY <2>1, <3>1, <3>2 DEF NodeStep
  <2>2. CASE asked # NoThread
    <3>1. Len(job[asked]) \in 1..Len(queue) /\ KeepRows(Len(job[asked]))
      BY <2>2, AskedFacts DEF restart
    <3> QED
      BY <3>1, KeepRowsStep
  <2> QED
    BY <2>1, <2>2
<1>3. <<>> \in Seq(Nat) /\ <<>> \in Seq(ToSet(<<>>)) /\ Len(<<>>) = 0 /\ NoThread \notin Threads
  BY EmptySeq, StagingAssumption
<1>4. ThreadTypes' /\ \A t \in Threads : Leaves(t) /\ asked' # t
  BY <1>1, <1>2, <1>3 DEF ThreadTypes, Leaves
<1>5. CoveredKeys \subseteq CoveredKeys'
  <2>1. \A r \in Held : r \in Held' \/ Key(r) \in caught'
    BY <1>1 DEF Held
  <2> QED
    BY <1>1, <2>1, CoverGrows
<1>6. Window' \subseteq CoveredKeys' /\ seen' \in Seq(ToSet(seen'))
  BY <1>1, <1>3 DEF Window
<1> QED
  BY <1>1, <1>2, <1>4, <1>5, <1>6, StayOrLeave

LEMMA QueueInvStep ==
    ASSUME QueueInv, [Next]_vars
    PROVE  QueueInv'
<1>1. CASE UNCHANGED vars
  <2>1. delay' \in [Threads -> Nat]
    BY <1>1 DEF vars, QueueInv, Order, Types
  <2>2. UNCHANGED <<captured, queue, buffered, readings, dropped, lost, asked, pc, job, rest,
                    unique, seen, staged, caught, delivered>>
    BY <1>1 DEF vars, nodeVars, threadVars, stagingVars
  <2> QED
    BY <2>1, <2>2, SameKeeps
<1>2. CASE capture \/ push
  BY <1>2, CaptureKeeps, PushKeeps
<1>3. CASE give_up \/ time_out
  BY <1>3, AbandonKeeps
<1>4. CASE tick \/ refresh_ntp
  BY <1>4, TickKeeps
<1>5. CASE restart
  BY <1>5, RestartKeeps
<1>6. ASSUME NEW t \in Threads, serve(t) \/ refuse(t) \/ append_fails(t)
      PROVE  QueueInv'
  BY <1>6, ReadTimeKeeps, LimitKeeps, FilterNewKeeps, AppendKeeps, AppendFailsKeeps,
     RefuseKeeps DEF serve
<1> QED
  BY <1>1, <1>2, <1>3, <1>4, <1>5, <1>6 DEF Next

LEMMA InitAccount ==
    ASSUME Init
    PROVE  LimiterInv
<1>1. Capacity \in Nat /\ Refill \in Nat /\ Horizon \in Nat
  BY LimiterAssumption
<1>2. Horizon * Refill \in Int /\ Horizon * Refill >= 0
  BY <1>1, SMT
<1>3. tokens = Capacity /\ age = Horizon /\ window = [age |-> 0, rows |-> 0]
  BY DEF Init, LimiterInit, NoWindow
<1>4. LimiterTypes /\ Conserved
  BY <1>1, <1>3 DEF LimiterTypes, Conserved
<1>5. NeverOverdrawn
  BY <1>1, <1>2, <1>3 DEF NeverOverdrawn
<1> QED
  BY <1>4, <1>5 DEF LimiterInv

\* Each action asks the bucket, lets time pass, empties the server's memory,
\* or leaves the bucket alone.
LEMMA LimiterInvStep ==
    ASSUME QueueInv, LimiterInv, [Next]_vars
    PROVE  LimiterInv'
<1>1. CASE UNCHANGED limiterVars
  BY <1>1 DEF limiterVars, LimiterInv, LimiterTypes, NeverOverdrawn, Conserved
<1>2. CASE pass
  BY <1>2, PassKeepsAccount
<1>3. ASSUME NEW t \in Threads, limit(t)
      PROVE  LimiterInv'
  <2>1. Len(job[t]) \in Nat /\ delay[t] \in Nat
    BY ThreadFacts DEF QueueInv
  <2>2. PICK granted \in BOOLEAN : allow(Len(job[t]), delay[t], granted)
    BY <1>3 DEF limit
  <2> QED
    BY <2>1, <2>2, AllowKeepsAccount
<1>4. CASE restart
  <2>1. Capacity \in Nat /\ Refill \in Nat /\ Horizon \in Nat
    BY LimiterAssumption
  <2>2. Horizon * Refill \in Int /\ Horizon * Refill >= 0
    BY <2>1, SMT
  <2>3. tokens' = Capacity /\ age' = Horizon /\ window' = [age |-> 0, rows |-> 0]
    BY <1>4 DEF restart, NoWindow
  <2>4. LimiterTypes' /\ Conserved'
    BY <2>1, <2>3 DEF LimiterTypes, Conserved
  <2>5. NeverOverdrawn'
    BY <2>1, <2>2, <2>3 DEF NeverOverdrawn
  <2> QED
    BY <2>4, <2>5 DEF LimiterInv
<1>5. UNCHANGED limiterVars \/ pass \/ (\E t \in Threads : limit(t)) \/ restart
  BY DEF Next, vars, capture, push, give_up, time_out, Abandon, tick, refresh_ntp, serve,
         read_time, refuse, filter_new, append, append_fails
<1> QED
  BY <1>1, <1>2, <1>3, <1>4, <1>5

\* The inductive invariant, for any number of threads: the queue is in order,
\* what stands in it before a row of a job is of the job, and whatever has
\* left it is covered and delivered or given up; the bucket's account is in
\* order.
THEOREM DeliveryInvariant == Spec => [](QueueInv /\ LimiterInv)
<1>1. Init => QueueInv /\ LimiterInv
  BY InitInv, InitAccount
<1>2. QueueInv /\ LimiterInv /\ [Next]_vars => (QueueInv /\ LimiterInv)'
  BY QueueInvStep, LimiterInvStep
<1> QED
  BY <1>1, <1>2, PTL DEF Spec

\* No node is granted more than one full bucket and what was refilled since,
\* from any moment on, for any number of threads, pushes and delays.
THEOREM RateBounded == Spec => []RateIsBounded
<1>1. LimiterInv => RateIsBounded
  BY AccountBoundsRate
<1> QED
  BY <1>1, DeliveryInvariant, PTL

\* Each reading that has left the node and was not given up is on disk or in
\* the hands of a thread that will write it, by its row or by another with its
\* key, unless its key was remembered before a failing write or a restart.
THEOREM ReadingsStaged == Spec => []ReadingsAreStaged
<1>1. QueueInv => ReadingsAreStaged
  <2> SUFFICES ASSUME QueueInv, NEW i \in 1..captured, i \notin GivenUp, i \notin ToSet(queue)
               PROVE  \/ \E r \in Held : Key(r) = Key(readings[i])
                      \/ Key(readings[i]) \in caught
    BY DEF ReadingsAreStaged, Held
  <2>1. Covered(i)
    BY DEF QueueInv, AllCovered
  <2> QED
    BY <2>1 DEF Covered, CoveredKeys
<1> QED
  BY <1>1, DeliveryInvariant, PTL

--------------------------------------------------------------------------------
(* The refinement.                                                         *)

\* A job, asked for or given up long ago, brings the first of the queue and
\* rows that have left it.
LEMMA GrantSends ==
    ASSUME QueueInv, NEW t \in Threads, pc[t] = "allow",
           delivered' = delivered \cup ToSet(job[t]),
           UNCHANGED <<captured, queue, dropped, lost>>
    PROVE  \E k \in 0..Len(queue) : Node!Send(k)
<1>1. /\ captured \in Nat /\ Len(queue) \in Nat /\ queue \in Seq(Nat)
      /\ ToSet(queue) = {queue[i] : i \in 1..Len(queue)}
      /\ JobAhead(t)
  BY OrderFacts, ThreadFacts DEF QueueInv, ThreadInOrder
<1> DEFINE Ours == {i \in 1..Len(queue) : queue[i] \in ToSet(job[t])}
<1>2. PICK k \in 0..Len(queue) : Ours = 1..k
  <2>1. CASE Ours = {}
    <3>1. 0 \in 0..Len(queue) /\ 1..0 = {}
      BY <1>1
    <3> QED
      BY <2>1, <3>1
  <2>2. CASE Ours # {}
    <3>1. PICK k \in Ours : \A i \in Ours : i <= k
      <4>1. Ours \in SUBSET (1..Len(queue))
        OBVIOUS
      <4> HIDE DEF Ours
      <4> QED
        BY <1>1, <2>2, <4>1, Greatest
    <3>2. k \in 1..Len(queue) /\ k \in 0..Len(queue)
      BY <1>1
    <3>3. ASSUME NEW i \in 1..k PROVE i \in Ours
      <4>1. i \in 1..Len(queue)
        BY <1>1, <3>2
      <4>2. CASE i = k
        BY <4>2
      <4>3. CASE i # k
        <5>1. queue[i] < queue[k]
          BY <1>1, <3>2, <4>1, <4>3 DEF QueueInv, Order, QueueInOrder
        <5>2. queue[k] \in ToSet(job[t]) /\ queue[i] \in ToSet(queue)
          BY <1>1, <4>1
        <5>3. queue[i] \in ToSet(job[t])
          BY <1>1, <5>1, <5>2 DEF JobAhead
        <5> QED
          BY <4>1, <5>3
      <4> QED
        BY <4>2, <4>3
    <3>4. \A i \in Ours : i \in 1..k
      BY <1>1, <3>1, <3>2
    <3> HIDE DEF Ours
    <3> QED
      BY <3>2, <3>3, <3>4
  <2> QED
    BY <2>1, <2>2
<1>3. Node!First(k) \subseteq ToSet(job[t])
  <2>1. \A i \in 1..k : queue[i] \in ToSet(job[t])
    BY <1>2
  <2> QED
    BY <2>1 DEF Node!First
<1>4. ASSUME NEW x \in ToSet(job[t])
      PROVE  x \in delivered \cup Node!First(k) \cup dropped \cup lost
  <2>1. x \in 1..captured
    BY <1>1 DEF JobAhead
  <2>2. x \in ToSet(queue) \/ x \in delivered \cup dropped \cup lost
    BY <2>1 DEF QueueInv, AllDelivered, GivenUp
  <2>3. CASE x \in ToSet(queue)
    <3>1. PICK i \in 1..Len(queue) : x = queue[i]
      BY <1>1, <2>3
    <3>2. i \in 1..k
      BY <1>2, <3>1
    <3> QED
      BY <3>1, <3>2 DEF Node!First
  <2> QED
    BY <2>2, <2>3
<1>5. Node!Send(k)
  BY <1>3, <1>4 DEF Node!Send
<1> QED
  BY <1>5

\* What the node does with its rows, as steps of Outbox.
LEMMA NodeSteps ==
    ASSUME Order, UNCHANGED delivered, NEW n \in 1..Len(queue),
           \/ KeepRows(n)
           \/ LoseBatch(n)
           \/ DropRows(n) /\ dropped' = dropped \cup Node!First(n)
           \/ DropRows(n) /\ UNCHANGED dropped /\ Node!First(n) \subseteq delivered
    PROVE  Node!Next
<1>1. Len(queue) \in Nat /\ n \in 0..Len(queue)
  BY OrderFacts
<1>2. CASE KeepRows(n)
  <2>1. PICK k \in 0..Len(queue) : queue' = Node!Rest(k) /\ dropped' = dropped \cup Node!First(k)
    BY <1>2, KeepRowsStep
  <2>2. UNCHANGED <<captured, lost>>
    BY <1>2 DEF KeepRows
  <2>3. Node!GiveUp(k)
    BY <2>1, <2>2 DEF Node!GiveUp
  <2> QED
    BY <2>3 DEF Node!Next
<1>3. CASE LoseBatch(n)
  <2>1. PICK rows \in SUBSET ToSet(queue) :
          /\ queue' = Kept(queue, {i \in 1..Len(queue) : queue[i] \notin rows})
          /\ lost' = lost \cup rows
    BY <1>3, LoseBatchStep
  <2>2. UNCHANGED <<captured, dropped>>
    BY <1>3 DEF LoseBatch
  <2>3. rows # {} => (IF lost' = {} THEN 0 ELSE 1) > 0
    BY <2>1
  <2>4. (IF lost' = {} THEN 0 ELSE 1) \in {IF lost = {} THEN 0 ELSE 1,
                                          (IF lost = {} THEN 0 ELSE 1) + 1}
    BY <2>1
  <2>5. Node!ToSet(queue) = ToSet(queue)
    BY DEF Node!ToSet, ToSet
  <2>6. \A s, places : Node!Kept(s, places) = Kept(s, places)
    BY DEF Node!Kept, Kept
  <2>7. /\ rows \in SUBSET Node!ToSet(queue)
        /\ queue' = Node!Kept(queue, {i \in 1..Len(queue) : queue[i] \notin rows})
    BY <2>1, <2>5, <2>6
  <2>8. Node!Lose
    BY <1>3, <2>1, <2>2, <2>3, <2>4, <2>7 DEF Node!Lose
  <2> QED
    BY <2>8 DEF Node!Next
<1>4. CASE DropRows(n) /\ dropped' = dropped \cup Node!First(n)
  <2>1. Node!GiveUp(n)
    BY <1>4 DEF DropRows, Node!GiveUp
  <2> QED
    BY <1>1, <2>1 DEF Node!Next
<1>5. CASE DropRows(n) /\ UNCHANGED dropped /\ Node!First(n) \subseteq delivered
  <2>1. Node!Release(n)
    BY <1>5 DEF DropRows, Node!Release
  <2> QED
    BY <1>1, <2>1 DEF Node!Next
<1> QED
  BY <1>2, <1>3, <1>4, <1>5

LEMMA AnsweredSimulates ==
    ASSUME QueueInv, NEW t \in Threads, NEW status \in {200, 400, 429, 500},
           answered(t, status), UNCHANGED delivered,
           status = 200 => ToSet(job[t]) \subseteq delivered
    PROVE  [Node!Next]_Node!outboxVars
<1>1. Order
  BY DEF QueueInv
<1>2. CASE asked # t
  BY <1>2 DEF answered, nodeVars, Node!outboxVars
<1>3. CASE asked = t
  <2>1. /\ Len(job[t]) \in 1..Len(queue)
        /\ ToSet(job[t]) = {queue[i] : i \in 1..Len(job[t])}
    BY <1>1, <1>3, AskedFacts, OrderFacts
  <2>2. PICK n \in 1..Len(queue) : n = Len(job[t]) /\ ToSet(job[t]) = Node!First(n)
    BY <2>1 DEF Node!First
  <2>3. \/ KeepRows(n)
        \/ LoseBatch(n)
        \/ DropRows(n) /\ dropped' = dropped \cup Node!First(n)
        \/ DropRows(n) /\ UNCHANGED dropped /\ Node!First(n) \subseteq delivered
    BY <1>3, <2>2 DEF answered
  <2> QED
    BY <1>1, <2>3, NodeSteps
<1> QED
  BY <1>2, <1>3

\* Node and server implement Outbox: under any interleaving of the server's
\* threads, of answers, of pushes given up and of restarts, the server gets the
\* readings from the front of one queue, what is refused or pruned is the front
\* of it, and a row leaves it otherwise only when the server had it or an
\* exception took it.
THEOREM OldestFirst == Spec => InOrder
<1>1. Init => Node!Init
  BY DEF Init, Node!Init
<1>2. ASSUME QueueInv, [Next]_vars
      PROVE  [Node!Next]_Node!outboxVars
  <2>0. Order
    BY <1>2 DEF QueueInv
  <2>1. CASE UNCHANGED <<captured, queue, delivered, dropped, lost>>
    BY <2>1 DEF Node!outboxVars
  <2>2. CASE capture
    <3>1. Node!Capture
      BY <2>2 DEF capture
    <3> QED
      BY <3>1 DEF Node!Next
  <2>3. CASE push \/ tick \/ refresh_ntp \/ UNCHANGED vars
    BY <2>3, <2>1 DEF push, tick, refresh_ntp, vars, nodeVars
  <2>4. CASE give_up \/ time_out
    <3>1. UNCHANGED delivered /\ asked # NoThread
      BY <2>4 DEF give_up, time_out, Abandon
    <3>2. PICK n \in 1..Len(queue) : n = Len(job[asked])
      BY <2>0, <3>1, AskedFacts
    <3>3. KeepRows(n) \/ LoseBatch(n)
      BY <2>4, <3>2 DEF give_up, time_out
    <3> QED
      BY <2>0, <3>1, <3>3, NodeSteps
  <2>5. CASE restart
    <3>1. UNCHANGED delivered
      BY <2>5 DEF restart
    <3>2. CASE asked = NoThread
      BY <2>1, <2>5, <3>1, <3>2 DEF restart, nodeVars
    <3>3. CASE asked # NoThread
      <4>1. PICK n \in 1..Len(queue) : n = Len(job[asked])
        BY <2>0, <3>3, AskedFacts
      <4>2. KeepRows(n)
        BY <2>5, <3>3, <4>1 DEF restart
      <4> QED
        BY <2>0, <3>1, <4>2, NodeSteps
    <3> QED
      BY <3>2, <3>3
  <2>6. ASSUME NEW t \in Threads, serve(t) \/ refuse(t) \/ append_fails(t)
        PROVE  [Node!Next]_Node!outboxVars
    <3>1. CASE limit(t)
      <4>1. \/ /\ delivered' = delivered \cup ToSet(job[t])
               /\ UNCHANGED <<captured, queue, dropped, lost>>
            \/ answered(t, 429) /\ UNCHANGED delivered
        BY <3>1 DEF limit, nodeVars
      <4>2. pc[t] = "allow"
        BY <3>1 DEF limit
      <4>3. CASE answered(t, 429) /\ UNCHANGED delivered
        BY <1>2, <4>3, AnsweredSimulates
      <4>4. CASE /\ delivered' = delivered \cup ToSet(job[t])
                 /\ UNCHANGED <<captured, queue, dropped, lost>>
        <5>1. \E k \in 0..Len(queue) : Node!Send(k)
          BY <1>2, <4>2, <4>4, GrantSends
        <5> QED
          BY <5>1 DEF Node!Next
      <4> QED
        BY <4>1, <4>3, <4>4
    <3>2. CASE append(t)
      <4>1. pc[t] = "filter_new" /\ answered(t, 200) /\ UNCHANGED delivered
        BY <3>2 DEF append
      <4>2. ToSet(job[t]) \subseteq delivered
        BY <1>2, <4>1 DEF QueueInv, AllDelivered
      <4> QED
        BY <1>2, <4>1, <4>2, AnsweredSimulates
    <3>3. CASE refuse(t)
      <4>1. answered(t, 400) /\ UNCHANGED delivered
        BY <3>3 DEF refuse
      <4> QED
        BY <1>2, <4>1, AnsweredSimulates
    <3>4. CASE append_fails(t)
      <4>1. answered(t, 500) /\ UNCHANGED delivered
        BY <3>4 DEF append_fails
      <4> QED
        BY <1>2, <4>1, AnsweredSimulates
    <3>5. CASE read_time(t) \/ filter_new(t)
      BY <2>1, <3>5 DEF read_time, filter_new, nodeVars
    <3> QED
      BY <2>6, <3>1, <3>2, <3>3, <3>4, <3>5 DEF serve
  <2> QED
    BY <1>2, <2>2, <2>3, <2>4, <2>5, <2>6 DEF Next
<1> QED
  BY <1>1, <1>2, DeliveryInvariant, PTL DEF Spec, InOrder, Node!Spec

--------------------------------------------------------------------------------
(* The clock.                                                              *)

\* Ntp counts servers as Delivery does.
LEMMA TheCountIsTheirs == ASSUME NEW S PROVE NTP!Cardinality(S) = Cardinality(S)
BY DEF NTP!Cardinality, Cardinality

\* Those of S whose number is v at most.
AtMost(S, x, v) == {r \in S : x[r] <= v}

\* What median asks of the k-th number.
IsKth(x, S, k, s) == /\ Cardinality({r \in S : x[r] < x[s]}) < k
                     /\ Cardinality({r \in S : x[r] <= x[s]}) >= k

\* The k-th number.
Kth(x, S, k) == x[CHOOSE s \in S : IsKth(x, S, k, s)]

\* Of finitely many numbers there is a k-th.
LEMMA KthExists ==
    ASSUME NEW S, IsFiniteSet(S), NEW x, NEW lo \in Int, NEW hi \in Int,
           \A s \in S : x[s] \in lo..hi, NEW k \in 1..Cardinality(S)
    PROVE  \E s \in S : IsKth(x, S, k, s)
<1> DEFINE N == {d \in Nat : Cardinality(AtMost(S, x, lo + d)) >= k}
<1>0. Cardinality(S) \in Nat /\ k \in Nat /\ k >= 1 /\ Cardinality(S) >= k
  BY FS_CardinalityType
<1>1. \A v : IsFiniteSet(AtMost(S, x, v)) /\ Cardinality(AtMost(S, x, v)) \in Nat
  <2>1. TAKE v
  <2>2. AtMost(S, x, v) \in SUBSET S
    BY DEF AtMost
  <2> QED
    BY <2>2, FS_Subset, FS_CardinalityType
<1>2. N # {}
  <2>1. S # {}
    BY FS_EmptySet
  <2>2. PICK d \in Nat : lo + d = hi
    <3>1. lo <= hi
      BY <2>1
    <3>2. hi - lo \in Nat /\ lo + (hi - lo) = hi
      BY <3>1
    <3> QED
      BY <3>2
  <2>3. AtMost(S, x, hi) = S
    BY DEF AtMost
  <2>4. Cardinality(AtMost(S, x, lo + d)) >= k
    BY <2>2, <2>3, <1>0
  <2> QED
    BY <2>4
<1>3. PICK d \in N : \A e \in N : ~(e < d)
  <2>1. N \in SUBSET Nat
    OBVIOUS
  <2> HIDE DEF N
  <2> QED
    BY <1>2, <2>1, Least
<1>4. d \in Nat /\ Cardinality(AtMost(S, x, lo + d)) >= k /\ k \in Nat
  OBVIOUS
<1>5. Cardinality(AtMost(S, x, lo + d - 1)) < k
  <2>1. CASE d = 0
    <3>1. AtMost(S, x, lo + d - 1) = {}
      BY <2>1 DEF AtMost
    <3>2. Cardinality(AtMost(S, x, lo + d - 1)) = 0
      BY <3>1, FS_EmptySet
    <3> QED
      BY <1>0, <3>2
  <2>2. CASE d # 0
    <3>1. d - 1 \in Nat /\ d - 1 < d /\ lo + (d - 1) = lo + d - 1
      BY <1>4, <2>2
    <3>2. ~(Cardinality(AtMost(S, x, lo + (d - 1))) >= k)
      BY <1>3, <3>1
    <3> QED
      BY <1>1, <1>4, <3>1, <3>2
  <2> QED
    BY <2>1, <2>2
<1>6. PICK s \in S : x[s] = lo + d
  <2>1. SUFFICES ASSUME \A s \in S : x[s] # lo + d PROVE FALSE
    OBVIOUS
  <2>2. AtMost(S, x, lo + d) = AtMost(S, x, lo + d - 1)
    BY <1>4, <2>1 DEF AtMost
  <2> QED
    BY <1>1, <1>4, <1>5, <2>2
<1>7. {r \in S : x[r] <= x[s]} = AtMost(S, x, lo + d) /\ {r \in S : x[r] < x[s]} = AtMost(S, x, lo + d - 1)
  BY <1>4, <1>6 DEF AtMost
<1> QED
  BY <1>4, <1>5, <1>7 DEF IsKth

\* With at least one number on each side of it, the k-th lies between two of
\* the numbers that are not the odd one out.
LEMMA KthIsBetween ==
    ASSUME NEW S, IsFiniteSet(S), NEW x, \A s \in S : x[s] \in Int, NEW bad,
           NEW k \in 2..(Cardinality(S) - 1), NEW s \in S, IsKth(x, S, k, s)
    PROVE  \E l, h \in S \ {bad} : x[l] <= x[s] /\ x[s] <= x[h]
<1>1. Cardinality(S) \in Nat
  BY FS_CardinalityType
<1>0. Cardinality({r \in S : x[r] < x[s]}) < k /\ Cardinality({r \in S : x[r] <= x[s]}) >= k
  BY DEF IsKth
<1>2. \E h \in S \ {bad} : x[s] <= x[h]
  <2>1. SUFFICES ASSUME \A h \in S \ {bad} : x[h] < x[s] PROVE FALSE
    OBVIOUS
  <2>2. S \ {bad} \subseteq {r \in S : x[r] < x[s]}
    BY <2>1
  <2>3. /\ IsFiniteSet({r \in S : x[r] < x[s]}) /\ IsFiniteSet(S \ {bad})
        /\ Cardinality({r \in S : x[r] < x[s]}) \in Nat
    BY FS_Subset, FS_CardinalityType
  <2>4. Cardinality(S \ {bad}) <= Cardinality({r \in S : x[r] < x[s]})
    BY <2>2, <2>3, FS_Subset
  <2>5. Cardinality(S \ {bad}) >= Cardinality(S) - 1
    <3>1. Cardinality(S \ {bad}) = IF bad \in S THEN Cardinality(S) - 1 ELSE Cardinality(S)
      BY FS_RemoveElement
    <3> QED
      BY <1>1, <3>1
  <2>6. Cardinality(S \ {bad}) \in Nat /\ k \in Nat /\ k <= Cardinality(S) - 1
    BY <1>1, <2>3, FS_CardinalityType
  <2> QED
    BY <1>0, <1>1, <2>3, <2>4, <2>5, <2>6
<1>3. \E l \in S \ {bad} : x[l] <= x[s]
  <2>1. SUFFICES ASSUME \A l \in S \ {bad} : ~(x[l] <= x[s]) PROVE FALSE
    OBVIOUS
  <2>2. {r \in S : x[r] <= x[s]} \subseteq {bad}
    BY <2>1
  <2>3. IsFiniteSet({bad}) /\ Cardinality({bad}) = 1
    BY FS_Singleton
  <2>4. /\ Cardinality({r \in S : x[r] <= x[s]}) <= 1
        /\ Cardinality({r \in S : x[r] <= x[s]}) \in Nat
    BY <2>2, <2>3, FS_Subset, FS_CardinalityType
  <2> QED
    BY <1>0, <1>1, <2>4
<1> QED
  BY <1>2, <1>3

\* The k-th number as median chooses it, k from 2 to one less than all.
LEMMA TheKthIsBetween ==
    ASSUME NEW S, IsFiniteSet(S), NEW x, NEW bad, NEW lo \in Int, NEW hi \in Int,
           \A s \in S : x[s] \in Int, \A s \in S \ {bad} : x[s] \in lo..hi,
           NEW k \in 2..(Cardinality(S) - 1)
    PROVE  Kth(x, S, k) \in lo..hi
<1>1. Cardinality(S) \in Nat
  BY FS_CardinalityType
<1>2. PICK from \in Int, to \in Int : \A s \in S : x[s] \in from..to
  <2>1. CASE bad \in S
    <3>1. PICK a \in Int, b \in Int : a <= lo /\ a <= x[bad] /\ hi <= b /\ x[bad] <= b
      <4>1. x[bad] \in Int
        BY <2>1
      <4>2. \E a \in Int : a <= lo /\ a <= x[bad]
        BY <4>1
      <4>3. \E b \in Int : hi <= b /\ x[bad] <= b
        BY <4>1
      <4> QED
        BY <4>2, <4>3
    <3>2. \A s \in S : x[s] \in a..b
      <4>1. TAKE s \in S
      <4>2. CASE s = bad
        BY <2>1, <3>1, <4>2
      <4>3. CASE s # bad
        BY <3>1, <4>3
      <4> QED
        BY <4>2, <4>3
    <3> QED
      BY <3>2
  <2>2. CASE bad \notin S
    BY <2>2
  <2> QED
    BY <2>1, <2>2
<1>3. k \in 1..Cardinality(S)
  BY <1>1
<1>4. \E s \in S : IsKth(x, S, k, s)
  BY <1>2, <1>3, KthExists
<1>5. PICK s \in S : Kth(x, S, k) = x[s] /\ IsKth(x, S, k, s)
  BY <1>4 DEF Kth
<1>6. PICK l \in S \ {bad}, h \in S \ {bad} : x[l] <= x[s] /\ x[s] <= x[h]
  BY <1>5, KthIsBetween
<1>7. x[l] \in lo..hi /\ x[h] \in lo..hi /\ x[s] \in Int
  BY <1>6
<1> QED
  BY <1>5, <1>6, <1>7

\* The median of three numbers or more is no further out than those of them
\* that are not the odd one out.
LEMMA MedianIsBetween ==
    ASSUME NEW S, IsFiniteSet(S), Cardinality(S) >= 3, NEW x, NEW bad,
           NEW lo \in Int, NEW hi \in Int,
           \A s \in S : x[s] \in Int, \A s \in S \ {bad} : x[s] \in lo..hi
    PROVE  NTP!median(x, S) \in lo..hi
<1> DEFINE n == Cardinality(S)
           j == (n + 1) \div 2
           k == n \div 2 + 1
<1>1. n \in Nat /\ n >= 3
  BY FS_CardinalityType
<1>2. j \in 2..(n - 1) /\ k \in 2..(n - 1)
  <2>1. PICK m \in Nat : m = n /\ m >= 3
    BY <1>1
  <2>2. (m + 1) \div 2 \in 2..(m - 1) /\ m \div 2 + 1 \in 2..(m - 1)
    BY <2>1
  <2> QED
    BY <2>1, <2>2
<1>3. NTP!median(x, S) = (Kth(x, S, j) + Kth(x, S, k)) \div 2
  BY TheCountIsTheirs DEF NTP!median, Kth, IsKth
<1>4. Kth(x, S, j) \in lo..hi /\ Kth(x, S, k) \in lo..hi
  BY <1>2, TheKthIsBetween
<1> HIDE DEF n, j, k
<1>5. PICK a \in lo..hi, b \in lo..hi : a = Kth(x, S, j) /\ b = Kth(x, S, k)
  BY <1>4
<1>6. (a + b) \div 2 \in lo..hi
  OBVIOUS
<1> QED
  BY <1>3, <1>5, <1>6

\* A reply that is not discarded is off by the error of its server and half
\* the difference of its ways.
LEMMA OffsetOfExchange ==
    ASSUME NEW path \in Paths, NEW error \in Int, NEW x, x = Exchange(path, error),
           NEW o, o = NTP!query_one(x), o # None
    PROVE  /\ o \in Int
           /\ error = 0 => 2 * (o - Drift) \in -MaxDelay..MaxDelay
<1>1. /\ path.out \in Nat /\ path.back \in Nat /\ Drift \in Int /\ MaxDelay \in Nat
      /\ (path.out - path.back) % 2 = 0
  BY ClockAssumption
<1>2. PICK out \in Nat, back \in Nat, drift \in Int :
        out = path.out /\ back = path.back /\ drift = Drift
  BY <1>1
<1>3. /\ x.t1 = 0 /\ x.t2 = drift + error + out /\ x.t3 = drift + error + out
      /\ x.t4 = out + back
  BY <1>2 DEF Exchange
<1>4. /\ o = (((drift + error + out) - 0) + ((drift + error + out) - (out + back))) \div 2
      /\ ((out + back) - 0) - ((drift + error + out) - (drift + error + out)) <= MaxDelay
  BY <1>3, <1>1 DEF NTP!query_one, NTP!parse_offset
<1>5. o \in Int
  BY <1>4
<1>6. ASSUME error = 0 PROVE 2 * (o - drift) \in -MaxDelay..MaxDelay
  <2>1. PICK half \in Int : out - back = 2 * half
    <3>1. (out - back) % 2 = 0
      BY <1>1, <1>2
    <3>2. out - back = 2 * ((out - back) \div 2) /\ (out - back) \div 2 \in Int
      BY <3>1
    <3> QED
      BY <3>2
  <2>2. o = drift + half
    <3>1. ((drift + out) - 0) + ((drift + out) - (out + back)) = 2 * (drift + half)
      BY <2>1
    <3>2. (2 * (drift + half)) \div 2 = drift + half
      OBVIOUS
    <3> QED
      BY <1>4, <1>6, <3>1, <3>2
  <2>3. out + back <= MaxDelay
    BY <1>4
  <2> QED
    BY <1>1, <2>1, <2>2, <2>3
<1> QED
  BY <1>2, <1>5, <1>6

\* With three answers or more, of which one is wrong at most, the offset is
\* as good as an honest one.
LEMMA SyncIsTrue ==
    ASSUME NEW s \in Syncs, s.sure
    PROVE  2 * (s.offset - Drift) \in -MaxDelay..MaxDelay
<1>1. PICK bad \in Servers, ex \in [Servers -> Honest \cup Erring \cup {None}] :
        /\ \A r \in Servers \ {bad} : ex[r] \in Honest \cup {None}
        /\ s.offset = NTP!authoritative_offset(ex)
        /\ s.sure = (Cardinality(NTP!usable(ex)) >= 3)
  <2> DEFINE Answers(one) == {x \in [Servers -> Honest \cup Erring \cup {None}] :
                              \A r \in Servers \ {one} : x[r] \in Honest \cup {None}}
             Came(y) == [offset |-> NTP!authoritative_offset(y),
                         sure |-> Cardinality(NTP!usable(y)) >= 3]
  <2>1. Syncs = {Came(y) : y \in UNION {Answers(one) : one \in Servers}}
    BY DEF Syncs
  <2>2. PICK b \in Servers : \E x \in Answers(b) : s = Came(x)
    <3> HIDE DEF Answers, Came
    <3> QED
      BY <2>1
  <2>3. PICK x \in Answers(b) : s = Came(x)
    BY <2>2
  <2>4. /\ x \in [Servers -> Honest \cup Erring \cup {None}]
        /\ \A r \in Servers \ {b} : x[r] \in Honest \cup {None}
    OBVIOUS
  <2>5. /\ s.offset = NTP!authoritative_offset(x)
        /\ s.sure = (Cardinality(NTP!usable(x)) >= 3)
    BY <2>3
  <2> HIDE DEF Answers, Came
  <2> QED
    BY <2>4, <2>5
<1>2. PICK S : S = NTP!usable(ex)
  OBVIOUS
<1>3. S \subseteq Servers /\ \A r \in S : NTP!query_one(ex[r]) # None /\ ex[r] # None
  BY <1>2 DEF NTP!usable, NTP!query_one
<1>4. IsFiniteSet(S) /\ Cardinality(S) >= 3 /\ Cardinality(S) \in Nat
  BY <1>1, <1>2, <1>3, ClockAssumption, FS_Subset, FS_CardinalityType
<1>5. PICK x : x = [r \in S |-> NTP!query_one(ex[r])]
  OBVIOUS
<1>6. s.offset = NTP!median(x, S)
  BY <1>1, <1>2, <1>4, <1>5, TheCountIsTheirs DEF NTP!authoritative_offset
<1>7. /\ \A r \in S : x[r] \in Int
      /\ \A r \in S \ {bad} : 2 * (x[r] - Drift) \in -MaxDelay..MaxDelay
  <2>1. ASSUME NEW r \in S
        PROVE  /\ x[r] \in Int
               /\ r # bad => 2 * (x[r] - Drift) \in -MaxDelay..MaxDelay
    <3>1. /\ ex[r] \in Honest \cup Erring /\ (r # bad => ex[r] \in Honest)
          /\ x[r] = NTP!query_one(ex[r]) /\ x[r] # None
      BY <1>1, <1>3, <1>5
    <3>2. CASE ex[r] \in Honest
      <4>1. PICK path \in Paths : ex[r] = Exchange(path, 0)
        BY <3>2 DEF Honest
      <4> QED
        BY <3>1, <4>1, OffsetOfExchange
    <3>3. CASE ex[r] \in Erring /\ r = bad
      <4>1. PICK path \in Paths, error \in Wrong : ex[r] = Exchange(path, error)
        BY <3>3 DEF Erring
      <4>2. error \in Int
        BY ClockAssumption
      <4> QED
        BY <3>1, <3>3, <4>1, <4>2, OffsetOfExchange
    <3> QED
      BY <3>1, <3>2, <3>3
  <2> QED
    BY <2>1
<1>8. PICK lo \in Int, hi \in Int :
        \A a \in Int : 2 * (a - Drift) \in -MaxDelay..MaxDelay <=> a \in lo..hi
  <2>1. PICK half \in Nat : MaxDelay = 2 * half \/ MaxDelay = 2 * half + 1
    <3>1. MaxDelay \in Nat
      BY ClockAssumption
    <3>2. /\ MaxDelay \div 2 \in Nat
          /\ MaxDelay = 2 * (MaxDelay \div 2) \/ MaxDelay = 2 * (MaxDelay \div 2) + 1
      BY <3>1
    <3> QED
      BY <3>2
  <2>2. PICK drift \in Int : drift = Drift
    BY ClockAssumption
  <2>3. \A a \in Int : 2 * (a - drift) \in -MaxDelay..MaxDelay
                          <=> a \in (drift - half)..(drift + half)
    BY <2>1, ClockAssumption
  <2>4. drift - half \in Int /\ drift + half \in Int
    BY <2>1
  <2> QED
    BY <2>2, <2>3, <2>4
<1>9. s.offset \in lo..hi
  <2>1. \A r \in S \ {bad} : x[r] \in lo..hi
    BY <1>7, <1>8
  <2>2. NTP!median(x, S) \in lo..hi
    BY <1>4, <1>7, <2>1, MedianIsBetween
  <2> QED
    BY <1>6, <2>2
<1> QED
  BY <1>8, <1>9

\* The clock: one bad server moves it no further than an honest one may.
THEOREM ClockTrue == Spec => []ClockIsTrue
<1>1. Init => ClockIsTrue
  BY DEF Init, ClockIsTrue
<1>2. ASSUME ClockIsTrue, [Next]_vars PROVE ClockIsTrue'
  <2>1. CASE refresh_ntp
    <3>1. PICK s \in Syncs :
            \/ UNCHANGED <<offset, sure>>
            \/ offset' = s.offset /\ sure' = s.sure
      BY <2>1 DEF refresh_ntp
    <3> QED
      BY <1>2, <3>1, SyncIsTrue DEF ClockIsTrue
  <2>2. CASE ~refresh_ntp
    <3>1. UNCHANGED <<offset, sure>>
      BY <1>2, <2>2 DEF Next, capture, push, give_up, time_out, Abandon, refuse, tick, restart, serve, read_time, limit,
         filter_new, append, append_fails, vars, clockVars
    <3> QED
      BY <1>2, <3>1 DEF ClockIsTrue
  <2> QED
    BY <2>1, <2>2
<1> QED
  BY <1>1, <1>2, PTL DEF Spec
================================================================================
