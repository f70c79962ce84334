----------------------------- MODULE EdgeNodeProofs -----------------------------
(***************************************************************************)
(* Theorems about EdgeNode.  Types hold whatever overlaps.  The rest is    *)
(* about flushes that do not overlap: then each row has one place, the     *)
(* file, the batch of the flush or the list, and every row of one place is *)
(* earlier than those of the next.                                         *)
(***************************************************************************)
EXTENDS EdgeNode, LinesProofs, SequenceTheorems, TLAPS

Labels == {"idle", "peek", "push_chunk", "commit", "commit_replace", "push_batch",
           "append", "prune", "prune_replace"}

\* All of A come before all of B.
Before(A, B) == \A a \in A, b \in B : a < b
Ascending(s) == \A i, j \in 1..Len(s) : i < j => s[i] < s[j]

\* The rows of a file, of lines that parse or not.
AllRows(lines) == {lines[i].row : i \in 1..Len(lines)}

\* f is a file of rows up to n.
FileOK(f, n) ==
    /\ f \in File
    /\ f.open => f.lines # <<>>
    /\ AllRows(f.lines) \subseteq 1..n

FlushTypes ==
    /\ pc \in [Flushes -> Labels]
    /\ batch \in [Flushes -> Seq(1..captured)]
    /\ chunk \in [Flushes -> Seq(1..captured)]
    /\ \A f \in Flushes : /\ Len(chunk[f]) <= Chunk
                          /\ pc[f] = "idle" => batch[f] = <<>> /\ chunk[f] = <<>>
    /\ stale \subseteq Busy

\* TypeOK, and files hold captured rows only.
Typed ==
    /\ life \in {"running", "append", "prune", "prune_replace", "stopped", "failed"}
    /\ pending \in Seq(1..captured) /\ online \in BOOLEAN
    /\ FileOK(file, captured) /\ (tmp # Nobody => FileOK(tmp, captured))
    /\ FlushTypes
    /\ now \in 0..MaxTime /\ captured \in 0..MaxCaptured
    /\ delivered \cup dropped \cup lost \subseteq 1..captured
    /\ crashes \in 0..MaxCrashes /\ reloads \in 0..MaxReloads

\* No two flushes run, none beside an unload, and the spill of an unload is
\* in the file before it leaves the memory.
OneFlush ==
    /\ \A f, g \in Flushes : pc[f] # "idle" /\ pc[g] # "idle" => f = g
    /\ (\E f \in Flushes : pc[f] # "idle") => life = "running"
    /\ stale = {}
    /\ life = "stopped" => pending = <<>>
    /\ life \in {"prune", "prune_replace"} => ToSet(pending) \subseteq RowsOf(file.lines) \cup lost

\* The lines of a file stand in the order of capture, and of their stamps.
InOrder(lines) ==
    \A i, j \in 1..Len(lines) : i < j => lines[i].row < lines[j].row /\ lines[i].ts <= lines[j].ts

\* None is stamped later than t.
Tidy(f, t) == InOrder(f.lines) /\ \A i \in 1..Len(f.lines) : f.lines[i].ts <= t

\* g is what remains of f when its earliest rows have left.
Remains(f, g) ==
    /\ AllRows(g.lines) \subseteq AllRows(f.lines)
    /\ RowsOf(g.lines) \subseteq RowsOf(f.lines)
    /\ Before(RowsOf(f.lines) \ RowsOf(g.lines), RowsOf(g.lines))

\* What flush f knows at each label: its batch stands between the file and the
\* list, and was not delivered before it is pushed; its chunk is still what it
\* peeked, and settled before it is removed; the temporary file is what remains
\* of the file, less settled rows; the batch is pushed when the file is empty.
FlushOrder(f) ==
    /\ Ascending(batch[f])
    /\ Before(AllRows(file.lines), ToSet(batch[f]))
    /\ Before(ToSet(batch[f]), ToSet(pending))
    /\ pc[f] \in {"peek", "push_chunk", "commit", "commit_replace", "push_batch"} =>
         ToSet(batch[f]) \cap delivered = {}
    /\ pc[f] \in {"push_chunk", "commit", "commit_replace"} => chunk[f] = peeked
    /\ pc[f] \in {"commit", "commit_replace"} => ToSet(chunk[f]) \subseteq delivered \cup dropped
    /\ pc[f] \in {"commit_replace", "prune_replace"} =>
         /\ tmp # Nobody /\ Tidy(tmp, now) /\ Remains(file, tmp)
         /\ RowsOf(file.lines) \ RowsOf(tmp.lines) \subseteq delivered \cup dropped
    /\ pc[f] = "push_batch" => RowsOf(file.lines) = {} /\ batch[f] # <<>>
    /\ pc[f] \in {"prune", "prune_replace"} => batch[f] = <<>>

\* The file and the list are in order, only a crash leaves a line open, and
\* what is pending was never delivered.
FileOrder ==
    /\ Tidy(file, now)
    /\ file.open => crashes > 0
    /\ tmp # Nobody /\ tmp.open => crashes > 0
    /\ Ascending(pending) /\ ToSet(pending) \cap delivered = {}
    /\ life \in {"running", "append"} => Before(AllRows(file.lines), ToSet(pending))

\* What an unload knows of the temporary file it is to put in place.
SpillOrder ==
    /\ life # "failed"
    /\ life = "prune_replace" =>
         /\ tmp # Nobody /\ Tidy(tmp, now) /\ Remains(file, tmp)
         /\ RowsOf(file.lines) \ RowsOf(tmp.lines) \subseteq dropped

Ordered == FileOrder /\ SpillOrder /\ \A f \in Flushes : FlushOrder(f)

EdgeInv == Typed /\ (~Overlap => OneFlush /\ Ordered)
--------------------------------------------------------------------------------
(* Sequences of rows in ascending order.                                   *)

\* A row that is behind another in an ascending sequence is the later one.
LEMMA AscendingPlaces ==
    ASSUME NEW s \in Seq(Nat), Ascending(s), NEW i \in 1..Len(s), NEW j \in 1..Len(s)
    PROVE  /\ s[i] \in Nat /\ s[j] \in Nat
           /\ s[i] < s[j] <=> i < j
           /\ s[i] = s[j] <=> i = j
BY DEF Ascending

\* Ascending sequences of the same rows agree place by place.
LEMMA SamePlaces ==
    ASSUME NEW s \in Seq(Nat), NEW t \in Seq(Nat), Ascending(s), Ascending(t),
           ToSet(s) = ToSet(t), NEW n \in 1..Len(s)
    PROVE  n <= Len(t) /\ s[n] = t[n]
<1> DEFINE Bad == {i \in 1..Len(s) : ~(i <= Len(t) /\ s[i] = t[i])}
<1>1. SUFFICES ASSUME Bad # {} PROVE FALSE
  OBVIOUS
<1>2. PICK i \in Bad : \A k \in Bad : ~(k < i)
  <2>1. Bad \subseteq Nat
    OBVIOUS
  <2> HIDE DEF Bad
  <2> QED
    BY <1>1, <2>1, Least
<1>3. i \in 1..Len(s) /\ i \in Nat /\ Len(s) \in Nat /\ Len(t) \in Nat
  OBVIOUS
<1>4. \A j \in 1..Len(s) : j < i => j <= Len(t) /\ s[j] = t[j]
  <2>1. \A j \in 1..Len(s) : j < i => j \notin Bad
    BY <1>2
  <2> QED
    BY <2>1
<1> DEFINE A == {s[j] : j \in 1..Len(s)}
           B == {t[j] : j \in 1..Len(t)}
<1>0. A = B
  <2>1. ToSet(s) = A /\ ToSet(t) = B
    BY Elements
  <2> QED
    BY <2>1
<1>5. PICK k \in 1..Len(t) : s[i] = t[k]
  <2>1. s[i] \in A
    BY <1>3
  <2>2. s[i] \in B
    BY <1>0, <2>1
  <2> QED
    BY <2>2
<1>6. ~(k < i)
  <2>1. SUFFICES ASSUME k < i PROVE FALSE
    OBVIOUS
  <2>2. k \in 1..Len(s) /\ s[k] = t[k]
    BY <1>3, <1>4, <2>1, SMTT(30)
  <2> QED
    BY <1>3, <1>5, <2>1, <2>2, AscendingPlaces
<1>7. i \in 1..Len(t)
  BY <1>3, <1>6
<1>8. PICK l \in 1..Len(s) : t[i] = s[l]
  <2>1. t[i] \in B
    BY <1>7
  <2>2. t[i] \in A
    BY <1>0, <2>1
  <2> QED
    BY <2>2
<1>9. ~(l < i)
  <2>1. SUFFICES ASSUME l < i PROVE FALSE
    OBVIOUS
  <2>2. l \in 1..Len(t) /\ s[l] = t[l]
    BY <1>3, <1>4, <2>1
  <2> QED
    BY <1>7, <1>8, <2>1, <2>2, AscendingPlaces
<1>10. ~(s[l] < s[i]) /\ ~(t[k] < t[i]) /\ s[i] \in Nat /\ t[i] \in Nat
  BY <1>3, <1>6, <1>7, <1>9, AscendingPlaces
<1>11. s[i] = t[i]
  BY <1>5, <1>8, <1>10
<1> QED
  BY <1>2, <1>7, <1>11

\* Its rows determine an ascending sequence.
LEMMA SameRows ==
    ASSUME NEW s \in Seq(Nat), NEW t \in Seq(Nat), Ascending(s), Ascending(t),
           ToSet(s) = ToSet(t)
    PROVE  s = t
<1>1. Len(s) \in Nat /\ Len(t) \in Nat
  OBVIOUS
<1>2. Len(s) <= Len(t)
  <2>1. CASE Len(s) = 0
    BY <1>1, <2>1
  <2>2. CASE Len(s) # 0
    <3>1. Len(s) \in 1..Len(s)
      BY <1>1, <2>2
    <3> QED
      BY <3>1, SamePlaces
  <2> QED
    BY <2>1, <2>2
<1>3. Len(t) <= Len(s)
  <2>1. CASE Len(t) = 0
    BY <1>1, <2>1
  <2>2. CASE Len(t) # 0
    <3>1. Len(t) \in 1..Len(t)
      BY <1>1, <2>2
    <3> QED
      BY <3>1, SamePlaces
  <2> QED
    BY <2>1, <2>2
<1>4. Len(s) = Len(t) /\ \A i \in 1..Len(s) : s[i] = t[i]
  BY <1>1, <1>2, <1>3, SamePlaces
<1> QED
  BY <1>4, SeqEqual

\* Rows that are earlier than all others are at the front.
LEMMA EarliestAreFirst ==
    ASSUME NEW s \in Seq(Nat), Ascending(s), NEW P \in SUBSET ToSet(s), P # {},
           Before(P, ToSet(s) \ P)
    PROVE  \E k \in 1..Len(s) : {s[i] : i \in 1..k} = P
<1> DEFINE Rest == {i \in 1..Len(s) : s[i] \notin P}
<1>1. Len(s) \in Nat /\ ToSet(s) = {s[i] : i \in 1..Len(s)}
  BY Elements
<1>2. CASE Rest = {}
  <2>1. {s[i] : i \in 1..Len(s)} = P
    BY <1>1, <1>2
  <2>2. 1..Len(s) # {}
    BY <2>1
  <2>3. Len(s) \in 1..Len(s)
    BY <1>1, <2>2
  <2> QED
    BY <2>1, <2>3
<1>3. CASE Rest # {}
  <2>1. PICK m \in Rest : \A k \in Rest : ~(k < m)
    <3>1. Rest \subseteq Nat
      OBVIOUS
    <3> HIDE DEF Rest
    <3> QED
      BY <1>3, <3>1, Least
  <2>2. m \in 1..Len(s) /\ m \in Nat /\ s[m] \notin P
    OBVIOUS
  <2>3. \A i \in 1..Len(s) : i < m => s[i] \in P
    <3>1. \A i \in 1..Len(s) : i < m => i \notin Rest
      BY <2>1
    <3> QED
      BY <3>1
  <2>4. \A i \in 1..Len(s) : s[i] \in P => i < m
    <3>1. SUFFICES ASSUME NEW i \in 1..Len(s), s[i] \in P PROVE i < m
      OBVIOUS
    <3>2. s[i] < s[m]
      BY <1>1, <2>2, <3>1 DEF Before
    <3> QED
      BY <2>2, <3>2, AscendingPlaces
  <2>5. {s[i] : i \in 1..(m - 1)} = P
    <3>1. \A i \in 1..(m - 1) : s[i] \in P
      BY <1>1, <2>2, <2>3
    <3>2. ASSUME NEW r \in P PROVE r \in {s[i] : i \in 1..(m - 1)}
      <4>1. PICK i \in 1..Len(s) : r = s[i]
        BY <1>1
      <4>2. i \in 1..(m - 1)
        BY <2>2, <2>4, <4>1
      <4> QED
        BY <4>1, <4>2
    <3> QED
      BY <3>1, <3>2
  <2>6. m - 1 \in 1..Len(s)
    <3>1. 1..(m - 1) # {}
      BY <2>5
    <3> QED
      BY <1>1, <2>2, <3>1
  <2> QED
    BY <2>5, <2>6
<1> QED
  BY <1>2, <1>3

\* When the earliest rows go, what stays is the end of the sequence.
LEMMA EarliestLeave ==
    ASSUME NEW s \in Seq(Nat), Ascending(s), NEW t \in Seq(Nat), Ascending(t),
           NEW k \in 1..Len(s), ToSet(t) = ToSet(s) \ {s[i] : i \in 1..k}
    PROVE  t = SubSeq(s, k + 1, Len(s))
<1> DEFINE u == SubSeq(s, k + 1, Len(s))
<1>1. Len(s) \in Nat /\ k \in Nat /\ ToSet(s) = {s[i] : i \in 1..Len(s)}
  BY Elements
<1>2. /\ u \in Seq(Nat) /\ Len(u) = Len(s) - k /\ Len(u) \in Nat
      /\ \A i \in 1..Len(u) : u[i] = s[k + i]
  <2>1. \A i \in (k + 1)..Len(s) : s[i] \in Nat
    BY <1>1
  <2>2. /\ u \in Seq(Nat) /\ Len(u) = IF k + 1 <= Len(s) THEN Len(s) - (k + 1) + 1 ELSE 0
        /\ \A i \in 1..(Len(s) - (k + 1) + 1) : u[i] = s[(k + 1) + i - 1]
    BY <1>1, <2>1, SubSeqProperties
  <2> HIDE DEF u
  <2>3. Len(u) = Len(s) - k /\ Len(u) \in Nat
    BY <1>1, <2>2
  <2>4. \A i \in 1..Len(u) : i \in 1..(Len(s) - (k + 1) + 1) /\ (k + 1) + i - 1 = k + i
    BY <1>1, <2>3
  <2> QED
    BY <2>2, <2>3, <2>4
<1> HIDE DEF u
<1>3. Ascending(u)
  <2>1. SUFFICES ASSUME NEW i \in 1..Len(u), NEW j \in 1..Len(u), i < j PROVE u[i] < u[j]
    BY DEF Ascending
  <2>2. k + i \in 1..Len(s) /\ k + j \in 1..Len(s) /\ k + i < k + j
    BY <1>1, <1>2, <2>1
  <2>3. s[k + i] < s[k + j]
    BY <2>2, AscendingPlaces
  <2> QED
    BY <1>2, <2>3
<1>4. ToSet(u) = ToSet(t)
  <2>1. ASSUME NEW i \in 1..Len(u) PROVE u[i] \in ToSet(t)
    <3>1. k + i \in 1..Len(s) /\ \A j \in 1..k : j \in 1..Len(s) /\ j # k + i
      BY <1>1, <1>2
    <3>2. \A j \in 1..k : s[j] # s[k + i]
      BY <3>1, AscendingPlaces
    <3> QED
      BY <1>1, <1>2, <3>1, <3>2
  <2>2. ASSUME NEW r \in ToSet(t) PROVE \E i \in 1..Len(u) : r = u[i]
    <3>1. PICK i \in 1..Len(s) : r = s[i]
      BY <1>1
    <3>2. i \notin 1..k
      BY <3>1
    <3>3. i - k \in 1..Len(u) /\ k + (i - k) = i
      BY <1>1, <1>2, <3>2
    <3> QED
      BY <1>2, <3>1, <3>3
  <2>3. ToSet(u) = {u[i] : i \in 1..Len(u)}
    BY <1>2, Elements
  <2> QED
    BY <2>1, <2>2, <2>3
<1>5. t = u
  BY <1>2, <1>3, <1>4, SameRows
<1> QED
  BY <1>5 DEF u
--------------------------------------------------------------------------------
(* The buffer.                                                             *)

\* The fields of a line.
LEMMA LineFields ==
    ASSUME NEW lines \in Seq(Line), NEW i \in 1..Len(lines)
    PROVE  /\ lines[i] \in Line /\ lines[i].row \in Rows /\ lines[i].row \in Nat
           /\ lines[i].ts \in 0..MaxTime /\ lines[i].ts \in Nat /\ lines[i].ok \in BOOLEAN
<1>1. lines[i] \in Line
  OBVIOUS
<1> QED
  BY <1>1, EdgeAssumption DEF Line, Rows

\* Readable rows are rows of the file.
LEMMA RowsAreRows ==
    ASSUME NEW lines \in Seq(Line)
    PROVE  /\ Intact(lines) \subseteq 1..Len(lines)
           /\ RowsOf(lines) \subseteq AllRows(lines) /\ AllRows(lines) \subseteq Rows
<1>1. Intact(lines) \subseteq 1..Len(lines)
  BY DEF Intact
<1>2. AllRows(lines) \subseteq Rows
  BY LineFields DEF AllRows
<1> QED
  BY <1>1, <1>2 DEF RowsOf, AllRows

\* What the loops that skip lines keep of a file.
LEMMA KeptOfFile ==
    ASSUME NEW lines \in Seq(Line), NEW places \in SUBSET (1..Len(lines)), NEW kept,
           kept = Kept(lines, places)
    PROVE  /\ kept \in Seq(Line) /\ Len(kept) \in Nat
           /\ \A k \in 1..Len(kept) : \E p \in places : kept[k] = lines[p]
           /\ \A p \in places : \E k \in 1..Len(kept) : k <= p /\ kept[k] = lines[p]
           /\ InOrder(lines) => InOrder(kept)
<1>1. kept \in Seq(Line) /\ KeptFrom(kept, lines, places)
  BY KeptLines
<1>2. Len(kept) \in Nat
  BY <1>1
<1>5. InOrder(lines) => InOrder(kept)
  <2>1. SUFFICES ASSUME InOrder(lines), NEW j \in 1..Len(kept), NEW k \in 1..Len(kept), j < k
                 PROVE  kept[j].row < kept[k].row /\ kept[j].ts <= kept[k].ts
    BY DEF InOrder
  <2>2. PICK p \in places, q \in places : p < q /\ kept[j] = lines[p] /\ kept[k] = lines[q]
    BY <1>1, <2>1 DEF KeptFrom
  <2> QED
    BY <2>1, <2>2 DEF InOrder
<1> QED
  BY <1>1, <1>2, <1>5 DEF KeptFrom

\* The rows that parse, as a sequence.
LEMMA ReadableRows ==
    ASSUME NEW lines \in Seq(Line), NEW s, s = rowsOf(Readable(lines))
    PROVE  /\ s \in Seq(Rows) /\ ToSet(s) = RowsOf(lines)
           /\ InOrder(lines) => Ascending(s)
           /\ \A p \in Intact(lines) : \E k \in 1..Len(s) : k <= p /\ s[k] = lines[p].row
<1> DEFINE kept == Readable(lines)
<1>1. /\ kept \in Seq(Line) /\ Len(kept) \in Nat
      /\ \A k \in 1..Len(kept) : \E p \in Intact(lines) : kept[k] = lines[p]
      /\ \A p \in Intact(lines) : \E k \in 1..Len(kept) : k <= p /\ kept[k] = lines[p]
      /\ InOrder(lines) => InOrder(kept)
  BY KeptOfFile, RowsAreRows DEF Readable
<1> HIDE DEF kept
<1>2. s = [i \in 1..Len(kept) |-> kept[i].row]
  BY DEF rowsOf, kept
<1>3. s \in Seq(Rows) /\ Len(s) = Len(kept) /\ \A k \in 1..Len(kept) : s[k] = kept[k].row
  <2>1. \A k \in 1..Len(kept) : kept[k].row \in Rows
    BY <1>1, LineFields
  <2> QED
    BY <1>1, <1>2, <2>1
<1>4. ToSet(s) = {s[k] : k \in 1..Len(s)}
  BY <1>3, Elements
<1>5. ToSet(s) = RowsOf(lines)
  <2>1. \A k \in 1..Len(s) : s[k] \in RowsOf(lines)
    BY <1>1, <1>3 DEF RowsOf
  <2>2. \A p \in Intact(lines) : lines[p].row \in ToSet(s)
    BY <1>1, <1>3, <1>4
  <2> QED
    BY <1>4, <2>1, <2>2 DEF RowsOf
<1>6. InOrder(lines) => Ascending(s)
  BY <1>1, <1>3 DEF InOrder, Ascending
<1> QED
  BY <1>1, <1>3, <1>5, <1>6

\* A row that is behind another in a file in order is the later one.
LEMMA OrderedPlaces ==
    ASSUME NEW lines \in Seq(Line), InOrder(lines),
           NEW i \in 1..Len(lines), NEW j \in 1..Len(lines)
    PROVE  /\ lines[i].row < lines[j].row <=> i < j
           /\ lines[i].row = lines[j].row <=> i = j
           /\ i <= j => lines[i].ts <= lines[j].ts
<1>1. /\ lines[i].row \in Nat /\ lines[j].row \in Nat
      /\ lines[i].ts \in Nat /\ lines[j].ts \in Nat
  BY LineFields
<1> QED
  BY <1>1 DEF InOrder

\* peek reads the first rows of the file.
LEMMA PeekReadsTheFront ==
    ASSUME NEW n, FileOK(file, n)
    PROVE  /\ peeked \in Seq(1..n) /\ Len(peeked) <= Chunk
           /\ ToSet(peeked) \subseteq RowsOf(file.lines)
           /\ peeked = <<>> <=> RowsOf(file.lines) = {}
           /\ InOrder(file.lines) => /\ Ascending(peeked)
                                     /\ Before(ToSet(peeked), RowsOf(file.lines) \ ToSet(peeked))
           /\ \A p \in Intact(file.lines) : p <= Len(peeked) => file.lines[p].row \in ToSet(peeked)
<1> DEFINE s == rowsOf(Readable(file.lines))
           m == IF Len(s) < Chunk THEN Len(s) ELSE Chunk
<1>1. file.lines \in Seq(Line) /\ RowsOf(file.lines) \subseteq 1..n
  <2>1. file.lines \in Seq(Line)
    BY DEF FileOK, File
  <2> QED
    BY <2>1, RowsAreRows DEF FileOK
<1>2. /\ s \in Seq(Rows) /\ ToSet(s) = RowsOf(file.lines)
      /\ InOrder(file.lines) => Ascending(s)
      /\ \A p \in Intact(file.lines) : \E k \in 1..Len(s) : k <= p /\ s[k] = file.lines[p].row
  BY <1>1, ReadableRows
<1>3. peeked = SubSeq(s, 1, m)
  BY DEF peeked
<1> HIDE DEF s
<1>4. /\ Len(s) \in Nat /\ m \in 0..Len(s) /\ m <= Chunk /\ Chunk \in Nat \ {0}
      /\ m = 0 <=> Len(s) = 0
  BY <1>2, EdgeAssumption
<1>5. ToSet(s) = {s[i] : i \in 1..Len(s)} /\ (Len(s) = 0 <=> ToSet(s) = {})
  BY <1>2, Elements
<1>6. \A i \in 1..m : i \in 1..Len(s) /\ s[i] \in 1..n
  BY <1>1, <1>2, <1>4, <1>5
<1>12. m < Len(s) => m = Chunk
  BY <1>4
<1> HIDE DEF m
<1>7. /\ peeked \in Seq(1..n) /\ Len(peeked) = m
      /\ \A i \in 1..m : peeked[i] = s[i]
  <2>1. /\ peeked \in Seq(1..n) /\ Len(peeked) = IF 1 <= m THEN m - 1 + 1 ELSE 0
        /\ \A i \in 1..(m - 1 + 1) : peeked[i] = s[1 + i - 1]
    BY <1>3, <1>4, <1>6, SubSeqProperties
  <2>2. m - 1 + 1 = m /\ \A i \in 1..m : 1 + i - 1 = i
    BY <1>4
  <2> QED
    BY <1>4, <2>1, <2>2
<1>8. ToSet(peeked) = {peeked[i] : i \in 1..m} /\ (peeked = <<>> <=> m = 0)
  BY <1>7, Elements
<1>9. ToSet(peeked) \subseteq RowsOf(file.lines)
  BY <1>2, <1>5, <1>6, <1>7, <1>8
<1>10. ASSUME InOrder(file.lines)
       PROVE  /\ Ascending(peeked)
              /\ Before(ToSet(peeked), RowsOf(file.lines) \ ToSet(peeked))
  <2>1. Ascending(s) /\ s \in Seq(Nat)
    <3>1. Rows \subseteq Nat
      BY DEF Rows
    <3> QED
      BY <1>2, <1>10, <3>1, SeqMonotonic
  <2>2. Ascending(peeked)
    BY <1>6, <1>7, <2>1 DEF Ascending
  <2>3. ASSUME NEW i \in 1..m, NEW r \in RowsOf(file.lines) \ ToSet(peeked)
        PROVE  peeked[i] < r
    <3>1. PICK j \in 1..Len(s) : r = s[j]
      BY <1>2, <1>5
    <3>2. j \notin 1..m
      BY <1>7, <1>8, <2>3, <3>1
    <3>3. i < j /\ i \in 1..Len(s)
      BY <1>4, <1>6, <3>2
    <3>4. s[i] < s[j]
      BY <2>1, <3>3, AscendingPlaces
    <3> QED
      BY <1>7, <3>1, <3>4
  <2> QED
    BY <1>8, <2>2, <2>3 DEF Before
<1>11. ASSUME NEW p \in Intact(file.lines), p <= Len(peeked)
       PROVE  file.lines[p].row \in ToSet(peeked)
  <2>1. PICK k \in 1..Len(s) : k <= p /\ s[k] = file.lines[p].row
    BY <1>2
  <2>2. p \in 1..Len(file.lines) /\ Len(file.lines) \in Nat
    BY <1>1 DEF Intact
  <2>3. k \in 1..m
    BY <1>4, <1>7, <1>11, <2>1, <2>2
  <2> QED
    BY <1>7, <1>8, <2>1, <2>3
<1> QED
  BY <1>2, <1>4, <1>5, <1>7, <1>8, <1>9, <1>10, <1>11

\* Lines taken from a file bring no rows to it.
LEMMA PartOfFile ==
    ASSUME NEW F \in Seq(Line), NEW G \in Seq(Line),
           \A i \in 1..Len(G) : \E p \in 1..Len(F) : G[i] = F[p]
    PROVE  /\ AllRows(G) \subseteq AllRows(F) /\ RowsOf(G) \subseteq RowsOf(F)
           /\ \A t : (\A p \in 1..Len(F) : F[p].ts <= t) => \A i \in 1..Len(G) : G[i].ts <= t
<1>1. AllRows(G) \subseteq AllRows(F)
  BY DEF AllRows
<1>2. ASSUME NEW i \in Intact(G) PROVE G[i].row \in RowsOf(F)
  <2>1. i \in 1..Len(G) /\ G[i].ok
    BY DEF Intact
  <2>2. PICK p \in 1..Len(F) : G[i] = F[p]
    BY <2>1
  <2>3. p \in Intact(F)
    BY <2>1, <2>2 DEF Intact
  <2> QED
    BY <2>2, <2>3 DEF RowsOf
<1>3. RowsOf(G) \subseteq RowsOf(F)
  BY <1>2 DEF RowsOf
<1>4. ASSUME NEW t, \A p \in 1..Len(F) : F[p].ts <= t
      PROVE  \A i \in 1..Len(G) : G[i].ts <= t
  BY <1>4
<1> QED
  BY <1>1, <1>3, <1>4

\* commit takes lines from the front.
LEMMA CommitTakesTheFront ==
    ASSUME NEW m, FileOK(file, m), NEW n \in Nat, NEW g, g = committed(n)
    PROVE  /\ FileOK(g, m)
           /\ RowsOf(file.lines) \ RowsOf(g.lines)
                \subseteq {file.lines[p].row : p \in {q \in Intact(file.lines) : q <= n}}
           /\ InOrder(file.lines) => Remains(file, g)
           /\ \A t : Tidy(file, t) => Tidy(g, t)
           /\ g.open => file.open
<1> DEFINE F == file.lines
           G == SubSeq(F, n + 1, Len(F))
<1>1. /\ F \in Seq(Line) /\ Len(F) \in Nat /\ AllRows(F) \subseteq 1..m
      /\ file.open \in BOOLEAN
  BY DEF FileOK, File
<1>2. g = [lines |-> G, open |-> file.open /\ n < Len(F)]
  BY DEF committed
<1> HIDE DEF F
<1>3. /\ G \in Seq(Line) /\ Len(G) = (IF n < Len(F) THEN Len(F) - n ELSE 0)
      /\ \A i \in 1..Len(G) : i + n \in 1..Len(F) /\ G[i] = F[i + n]
  <2>1. \A i \in (n + 1)..Len(F) : F[i] \in Line
    BY <1>1
  <2>2. /\ G \in Seq(Line)
        /\ Len(G) = (IF n + 1 <= Len(F) THEN Len(F) - (n + 1) + 1 ELSE 0)
        /\ \A i \in 1..(Len(F) - (n + 1) + 1) : G[i] = F[(n + 1) + i - 1]
    BY <1>1, <2>1, SubSeqProperties
  <2> HIDE DEF G
  <2>3. Len(G) = (IF n < Len(F) THEN Len(F) - n ELSE 0)
    BY <1>1, <2>2
  <2>4. \A i \in 1..Len(G) : /\ i + n \in 1..Len(F) /\ (n + 1) + i - 1 = i + n
                             /\ i \in 1..(Len(F) - (n + 1) + 1)
    BY <1>1, <2>3
  <2> QED
    BY <2>2, <2>3, <2>4
<1> HIDE DEF G
<1>4. \A i \in 1..Len(G) : \E p \in 1..Len(F) : G[i] = F[p]
  BY <1>3
<1>5. /\ AllRows(G) \subseteq AllRows(F) /\ RowsOf(G) \subseteq RowsOf(F)
      /\ \A t : (\A p \in 1..Len(F) : F[p].ts <= t) => \A i \in 1..Len(G) : G[i].ts <= t
  BY <1>1, <1>3, <1>4, PartOfFile
<1>6. g.lines = G /\ (g.open => file.open) /\ g \in File
  BY <1>1, <1>2, <1>3 DEF File
<1>7. FileOK(g, m)
  <2>1. n < Len(F) => G # <<>>
    <3>1. n < Len(F) => Len(G) # 0
      BY <1>1, <1>3
    <3> QED
      BY <1>3, <3>1, Elements
  <2>2. g.open = (file.open /\ n < Len(F))
    BY <1>2
  <2> QED
    BY <1>1, <1>5, <1>6, <2>1, <2>2, Zenon DEF FileOK
<1>8. ASSUME NEW p \in Intact(F), F[p].row \notin RowsOf(G) PROVE p <= n
  <2>1. SUFFICES ASSUME ~(p <= n) PROVE FALSE
    OBVIOUS
  <2>2. p \in 1..Len(F) /\ F[p].ok
    BY DEF Intact
  <2>3. p - n \in 1..Len(G) /\ (p - n) + n = p
    BY <1>1, <1>3, <2>1, <2>2
  <2>4. G[p - n] = F[p]
    BY <1>3, <2>3
  <2>5. p - n \in Intact(G)
    BY <2>2, <2>3, <2>4 DEF Intact
  <2> QED
    BY <1>8, <2>4, <2>5 DEF RowsOf
<1>9. RowsOf(F) \ RowsOf(G) \subseteq {F[p].row : p \in {q \in Intact(F) : q <= n}}
  BY <1>8 DEF RowsOf
<1>10. ASSUME InOrder(F) PROVE Before(RowsOf(F) \ RowsOf(G), RowsOf(G))
  <2>1. SUFFICES ASSUME NEW p \in Intact(F), F[p].row \notin RowsOf(G), NEW i \in Intact(G)
                 PROVE  F[p].row < G[i].row
    BY DEF Before, RowsOf
  <2>2. p \in 1..Len(F) /\ i \in 1..Len(G)
    BY DEF Intact
  <2>3. p < i + n
    BY <1>1, <1>3, <1>8, <2>1, <2>2
  <2>4. F[p].row < F[i + n].row
    BY <1>1, <1>3, <1>10, <2>2, <2>3, OrderedPlaces
  <2> QED
    BY <1>3, <2>2, <2>4
<1>11. InOrder(F) => InOrder(G)
  <2>1. SUFFICES ASSUME InOrder(F), NEW i \in 1..Len(G), NEW j \in 1..Len(G), i < j
                 PROVE  G[i].row < G[j].row /\ G[i].ts <= G[j].ts
    BY DEF InOrder
  <2>2. i + n \in 1..Len(F) /\ j + n \in 1..Len(F) /\ i + n < j + n
    BY <1>1, <1>3, <2>1
  <2> QED
    BY <1>3, <2>1, <2>2 DEF InOrder
<1>12. \A t : Tidy(file, t) => Tidy(g, t)
  BY <1>5, <1>6, <1>11 DEF Tidy, F
<1>13. InOrder(F) => Remains(file, g)
  BY <1>5, <1>6, <1>10 DEF Remains, F
<1> QED
  BY <1>6, <1>7, <1>9, <1>12, <1>13 DEF F

\* prune takes rows from the front, if they are in the order of their capture.
LEMMA PruneTakesTheOldest ==
    ASSUME NEW m, FileOK(file, m), now \in 0..MaxTime, NEW g, g = pruned
    PROVE  /\ FileOK(g, m)
           /\ RowsOf(g.lines) \subseteq RowsOf(file.lines)
           /\ InOrder(file.lines) => Remains(file, g)
           /\ \A t : Tidy(file, t) => Tidy(g, t)
           /\ g.open => file.open
<1> DEFINE F == file.lines
           K == Kept(F, Young)
           a == IF Len(K) > BufferRows THEN Len(K) - BufferRows + 1 ELSE 1
           G == SubSeq(K, a, Len(K))
<1>1. /\ F \in Seq(Line) /\ Len(F) \in Nat /\ AllRows(F) \subseteq 1..m
      /\ file.open \in BOOLEAN
  BY DEF FileOK, File
<1>2. g = [lines |-> G, open |-> file.open /\ Len(F) \in Young]
  BY DEF pruned
<1>3. Young \subseteq Intact(F) /\ Young \subseteq 1..Len(F)
  BY DEF Young, Intact
<1>4. /\ K \in Seq(Line) /\ Len(K) \in Nat
      /\ \A k \in 1..Len(K) : \E p \in Young : K[k] = F[p]
      /\ \A p \in Young : \E k \in 1..Len(K) : k <= p /\ K[k] = F[p]
      /\ InOrder(F) => InOrder(K)
  <2> HIDE DEF F
  <2> QED
    BY <1>1, <1>3, KeptOfFile
<1> HIDE DEF F, K
<1>5. /\ a \in Nat /\ 1 <= a /\ a <= Len(K) + 1
      /\ Len(K) # 0 => a <= Len(K)
  BY <1>4, EdgeAssumption
<1> HIDE DEF a
<1>6. /\ G \in Seq(Line) /\ Len(G) = Len(K) + 1 - a /\ Len(G) \in Nat
      /\ \A i \in 1..Len(G) : i + a - 1 \in 1..Len(K) /\ G[i] = K[i + a - 1]
  <2>1. \A i \in a..Len(K) : i \in 1..Len(K)
    BY <1>4, <1>5
  <2>2. \A i \in a..Len(K) : K[i] \in Line
    BY <1>4, <2>1
  <2>3. /\ G \in Seq(Line)
        /\ Len(G) = (IF a <= Len(K) THEN Len(K) - a + 1 ELSE 0)
        /\ \A i \in 1..(Len(K) - a + 1) : G[i] = K[a + i - 1]
    BY <1>4, <1>5, <2>2, SubSeqProperties
  <2> HIDE DEF G
  <2>4. Len(G) = Len(K) + 1 - a /\ Len(G) \in Nat
    BY <1>4, <1>5, <2>3
  <2>5. \A i \in 1..Len(G) : /\ i + a - 1 \in 1..Len(K) /\ a + i - 1 = i + a - 1
                             /\ i \in 1..(Len(K) - a + 1)
    BY <1>4, <1>5, <2>4
  <2> QED
    BY <2>3, <2>4, <2>5
<1> HIDE DEF G
<1>7. ASSUME NEW i \in 1..Len(G) PROVE \E p \in Young : G[i] = F[p]
  <2>1. i + a - 1 \in 1..Len(K) /\ G[i] = K[i + a - 1]
    BY <1>6
  <2> QED
    BY <1>4, <2>1
<1>8. /\ AllRows(G) \subseteq AllRows(F) /\ RowsOf(G) \subseteq RowsOf(F)
      /\ \A t : (\A p \in 1..Len(F) : F[p].ts <= t) => \A i \in 1..Len(G) : G[i].ts <= t
  <2>1. \A i \in 1..Len(G) : \E p \in 1..Len(F) : G[i] = F[p]
    BY <1>3, <1>7
  <2> QED
    BY <1>1, <1>6, <2>1, PartOfFile
<1>9. g.lines = G /\ (g.open => file.open) /\ g \in File
  BY <1>1, <1>2, <1>6 DEF File
<1>10. FileOK(g, m)
  <2>1. ASSUME Len(F) \in Young PROVE G # <<>>
    <3>1. Len(K) # 0
      BY <1>4, <2>1
    <3>2. Len(G) # 0
      BY <1>4, <1>5, <1>6, <3>1
    <3> QED
      BY <1>6, <3>2, Elements
  <2>2. g.open = (file.open /\ Len(F) \in Young)
    BY <1>2
  <2> QED
    BY <1>1, <1>8, <1>9, <2>1, <2>2, Zenon DEF FileOK
<1>11. ASSUME InOrder(F) PROVE InOrder(K) /\ InOrder(G)
  <2>1. InOrder(K)
    BY <1>4, <1>11
  <2>2. SUFFICES ASSUME NEW i \in 1..Len(G), NEW j \in 1..Len(G), i < j
                 PROVE  G[i].row < G[j].row /\ G[i].ts <= G[j].ts
    BY <2>1 DEF InOrder
  <2>3. i + a - 1 \in 1..Len(K) /\ j + a - 1 \in 1..Len(K) /\ i + a - 1 < j + a - 1
    BY <1>5, <1>6, <2>2
  <2> QED
    BY <1>6, <2>1, <2>3 DEF InOrder
<1>12. ASSUME InOrder(F), NEW p \in Intact(F), F[p].row \notin RowsOf(G), NEW i \in Intact(G)
       PROVE  F[p].row < G[i].row
  <2>1. SUFFICES ASSUME ~(F[p].row < G[i].row) PROVE FALSE
    OBVIOUS
  <2>2. i \in 1..Len(G) /\ p \in 1..Len(F) /\ F[p].ok
    BY DEF Intact
  <2>3. PICK q \in Young : G[i] = F[q]
    BY <1>7, <2>2
  <2>4. q \in 1..Len(F) /\ F[q].ts + MaxAge >= now
    BY <1>3, <2>3 DEF Young, F
  <2>5. q <= p
    BY <1>1, <1>12, <2>1, <2>2, <2>3, <2>4, OrderedPlaces
  <2>6. F[q].ts <= F[p].ts
    BY <1>1, <1>12, <2>2, <2>4, <2>5, OrderedPlaces
  <2>7. F[p].ts + MaxAge >= now
    <3>1. F[q].ts \in Nat /\ F[p].ts \in Nat /\ MaxAge \in Nat /\ now \in Nat
      BY <1>1, <2>2, <2>4, LineFields, EdgeAssumption
    <3> QED
      BY <2>4, <2>6, <3>1
  <2>8. p \in Young
    BY <2>7 DEF Young, F
  <2>9. PICK k \in 1..Len(K) : K[k] = F[p]
    BY <1>4, <2>8
  <2>10. i + a - 1 \in 1..Len(K) /\ G[i] = K[i + a - 1]
    BY <1>6, <2>2
  <2>11. InOrder(K)
    BY <1>11, <1>12
  <2>12. ~(k < i + a - 1)
    BY <1>4, <2>1, <2>9, <2>10, <2>11, OrderedPlaces, SMTT(30)
  <2>13. k - a + 1 \in 1..Len(G) /\ (k - a + 1) + a - 1 = k
    BY <1>4, <1>5, <1>6, <2>2, <2>9, <2>10, <2>12
  <2>14. G[k - a + 1] = F[p]
    BY <1>6, <2>9, <2>13
  <2>15. k - a + 1 \in Intact(G)
    BY <2>2, <2>13, <2>14 DEF Intact
  <2> QED
    BY <1>12, <2>14, <2>15 DEF RowsOf
<1>13. InOrder(F) => Before(RowsOf(F) \ RowsOf(G), RowsOf(G))
  BY <1>12 DEF Before, RowsOf
<1>14. \A t : Tidy(file, t) => Tidy(g, t)
  BY <1>8, <1>9, <1>11 DEF Tidy, F
<1>15. InOrder(F) => Remains(file, g)
  BY <1>8, <1>9, <1>13 DEF Remains, F
<1> QED
  BY <1>8, <1>9, <1>10, <1>14, <1>15 DEF F

\* The lines that append writes.
LEMMA BufferedLines ==
    ASSUME NEW m \in 0..MaxCaptured, NEW rows \in Seq(1..m), now \in 0..MaxTime
    PROVE  /\ Buffered(rows) \in Seq(Line) /\ Len(Buffered(rows)) = Len(rows)
           /\ \A j \in 1..Len(rows) :
                Buffered(rows)[j] = [row |-> rows[j], ts |-> now, ok |-> TRUE]
<1>1. \A j \in 1..Len(rows) : [row |-> rows[j], ts |-> now, ok |-> TRUE] \in Line
  <2>1. \A j \in 1..Len(rows) : rows[j] \in Rows
    BY EdgeAssumption DEF Rows
  <2> QED
    BY <2>1 DEF Line
<1> QED
  BY <1>1 DEF Buffered

\* How many rows are glued to a line without its newline.
Glue(f, rows) == IF f.open /\ rows # <<>> THEN 1 ELSE 0

\* The lines of the file stay, but for a last one that is spoilt, and what is
\* appended follows, but for a first row that is glued.
Grown(F, G, d, rows) ==
    /\ Len(G) = Len(F) + Len(rows) - d
    /\ \A i \in 1..Len(F) : /\ G[i].row = F[i].row /\ G[i].ts = F[i].ts
                            /\ G[i].ok = (F[i].ok /\ ~(d = 1 /\ i = Len(F)))
    /\ \A j \in (d + 1)..Len(rows), i \in 1..Len(G) : i = Len(F) + j - d =>
         G[i].row = rows[j] /\ G[i].ts = now /\ G[i].ok

\* append: the lines that were there, the glued one aside, and the new ones.
LEMMA AppendGrows ==
    ASSUME NEW m \in 0..MaxCaptured, NEW f, FileOK(f, m), NEW rows \in Seq(1..m),
           now \in 0..MaxTime, NEW g, g = appended(f, rows)
    PROVE  /\ g \in File /\ Grown(f.lines, g.lines, Glue(f, rows), rows)
           /\ g.open => f.open /\ rows = <<>>
<1> DEFINE F == f.lines
<1>1. /\ F \in Seq(Line) /\ Len(F) \in Nat /\ Len(rows) \in Nat /\ f.open \in BOOLEAN
      /\ f.open => F # <<>>
  BY DEF FileOK, File
<1> HIDE DEF F
<1>2. CASE f.open /\ rows # <<>>
  <2> DEFINE last == [Last(F) EXCEPT !.ok = FALSE]
             A == Front(F)
             T == Tail(rows)
             B == Buffered(T)
  <2>1. Len(F) # 0 /\ Len(rows) # 0 /\ rows # <<>> /\ F # <<>> /\ f.open
    BY <1>1, <1>2, Elements
  <2>2. g = [lines |-> A \o <<last>> \o B, open |-> FALSE]
    BY <2>1 DEF appended, F
  <2>3. /\ A \in Seq(Line) /\ Len(A) = Len(F) - 1
        /\ \A i \in 1..(Len(F) - 1) : A[i] = F[i]
    <3>1. \A i \in 1..(Len(F) - 1) : i \in 1..Len(F) /\ F[i] \in Line
      BY <1>1
    <3>2. /\ A \in Seq(Line) /\ Len(A) = (IF 1 <= Len(F) - 1 THEN Len(F) - 1 - 1 + 1 ELSE 0)
          /\ \A i \in 1..(Len(F) - 1 - 1 + 1) : A[i] = F[1 + i - 1]
      BY <1>1, <3>1, SubSeqProperties DEF Front
    <3> HIDE DEF A
    <3>3. Len(A) = Len(F) - 1
      <4>1. Len(F) \in Int /\ 0 <= Len(F) /\ Len(F) # 0
        BY <1>1, <2>1
      <4>2. Len(A) = (IF 1 <= Len(F) - 1 THEN Len(F) - 1 - 1 + 1 ELSE 0)
        BY <3>2
      <4>3. \A a, n \in Int : n # 0 /\ 0 <= n /\ a = (IF 1 <= n - 1 THEN n - 1 - 1 + 1 ELSE 0) => a = n - 1
        OBVIOUS
      <4>4. Len(A) \in Int
        BY <3>2
      <4> QED
        BY <4>1, <4>2, <4>3, <4>4, Zenon
    <3>4. \A i \in 1..(Len(F) - 1) : i \in 1..(Len(F) - 1 - 1 + 1) /\ 1 + i - 1 = i
      BY <1>1
    <3> QED
      BY <3>2, <3>3, <3>4
  <2>4. T \in Seq(1..m) /\ Len(T) = Len(rows) - 1 /\ \A j \in 1..Len(T) : T[j] = rows[j + 1]
    BY <2>1, HeadTailProperties
  <2>5. /\ B \in Seq(Line) /\ Len(B) = Len(rows) - 1
        /\ \A j \in 1..Len(B) : B[j] = [row |-> rows[j + 1], ts |-> now, ok |-> TRUE]
    <3> HIDE DEF T
    <3>1. T \in Seq(1..m)
      BY <2>4
    <3>2. /\ B \in Seq(Line) /\ Len(B) = Len(T)
          /\ \A j \in 1..Len(T) : B[j] = [row |-> T[j], ts |-> now, ok |-> TRUE]
      BY <3>1, BufferedLines
    <3> HIDE DEF B
    <3>3. Len(B) = Len(rows) - 1 /\ Len(B) = Len(T)
      BY <2>4, <3>2
    <3> QED
      BY <2>4, <3>2, <3>3
  <2>6. /\ last \in Line /\ last.row = F[Len(F)].row /\ last.ts = F[Len(F)].ts /\ ~last.ok
    <3>1. F[Len(F)] \in Line
      BY <1>1, <2>1
    <3> QED
      BY <3>1 DEF Last, Line
  <2> HIDE DEF A, B, T, last
  <2> DEFINE L == <<last>>
             AL == A \o L
  <2>7. L \in Seq(Line) /\ Len(L) = 1 /\ L[1] = last
    BY <2>6
  <2> HIDE DEF L
  <2>8. /\ AL \in Seq(Line) /\ Len(AL) = Len(F)
        /\ \A i \in 1..Len(F) : AL[i] = IF i <= Len(F) - 1 THEN F[i] ELSE last
    <3>1. /\ AL \in Seq(Line) /\ Len(AL) = Len(A) + Len(L)
          /\ \A i \in 1..(Len(A) + Len(L)) : AL[i] = IF i <= Len(A) THEN A[i] ELSE L[i - Len(A)]
      BY <2>3, <2>7, ConcatProperties
    <3> HIDE DEF AL
    <3>2. Len(AL) = Len(F)
      BY <1>1, <2>3, <2>7, <3>1
    <3>3. ASSUME NEW i \in 1..Len(F) PROVE AL[i] = IF i <= Len(F) - 1 THEN F[i] ELSE last
      <4>1. AL[i] = IF i <= Len(A) THEN A[i] ELSE L[i - Len(A)]
        BY <3>1, <3>2
      <4>2. CASE i <= Len(F) - 1
        BY <1>1, <2>3, <4>1, <4>2
      <4>3. CASE ~(i <= Len(F) - 1)
        <5>1. i - Len(A) = 1 /\ ~(i <= Len(A))
          BY <1>1, <2>3, <4>3
        <5> QED
          BY <2>7, <4>1, <4>3, <5>1
      <4> QED
        BY <4>2, <4>3
    <3> QED
      BY <3>1, <3>2, <3>3
  <2>9. g = [lines |-> AL \o B, open |-> FALSE]
    BY <2>2 DEF L
  <2> HIDE DEF AL
  <2> DEFINE G == AL \o B
  <2>10. /\ G \in Seq(Line) /\ Len(G) = Len(F) + Len(rows) - 1
         /\ \A i \in 1..Len(F) : G[i] = AL[i]
         /\ \A j \in 2..Len(rows) : G[Len(F) + j - 1] = [row |-> rows[j], ts |-> now, ok |-> TRUE]
    <3>1. /\ G \in Seq(Line) /\ Len(G) = Len(AL) + Len(B)
          /\ \A i \in 1..(Len(AL) + Len(B)) : G[i] = IF i <= Len(AL) THEN AL[i] ELSE B[i - Len(AL)]
      <4>1. AL \in Seq(Line) /\ B \in Seq(Line)
        BY <2>5, <2>8
      <4> QED
        BY <4>1, ConcatProperties
    <3> HIDE DEF G
    <3>2. Len(G) = Len(F) + Len(rows) - 1 /\ Len(AL) + Len(B) = Len(F) + Len(rows) - 1
      BY <1>1, <2>5, <2>8, <3>1
    <3>3. ASSUME NEW i \in 1..Len(F) PROVE G[i] = AL[i]
      <4>1. i \in 1..(Len(AL) + Len(B)) /\ i <= Len(AL)
        BY <1>1, <2>1, <2>8, <3>2
      <4> QED
        BY <3>1, <4>1
    <3>4. ASSUME NEW j \in 2..Len(rows)
          PROVE  G[Len(F) + j - 1] = [row |-> rows[j], ts |-> now, ok |-> TRUE]
      <4> DEFINE i == Len(F) + j - 1
      <4>1. /\ i \in 1..(Len(AL) + Len(B)) /\ ~(i <= Len(AL)) /\ i - Len(AL) = j - 1
            /\ j - 1 \in 1..Len(B) /\ (j - 1) + 1 = j
        BY <1>1, <2>1, <2>5, <2>8, <3>2
      <4> HIDE DEF i
      <4>2. G[i] = B[j - 1]
        BY <3>1, <4>1
      <4>3. B[j - 1] = [row |-> rows[j], ts |-> now, ok |-> TRUE]
        BY <2>5, <4>1
      <4> QED
        BY <4>2, <4>3 DEF i
    <3> QED
      BY <3>1, <3>2, <3>3, <3>4
  <2>11. g \in File /\ ~g.open /\ g.lines = G
    BY <2>9, <2>10 DEF File
  <2> HIDE DEF G
  <2>12. ASSUME NEW i \in 1..Len(F)
         PROVE  /\ G[i].row = F[i].row /\ G[i].ts = F[i].ts
                /\ G[i].ok = (F[i].ok /\ ~(1 = 1 /\ i = Len(F)))
    <3>1. F[i].ok \in BOOLEAN
      BY <1>1, LineFields
    <3>2. CASE i = Len(F)
      <4>1. G[i] = last
        <5>1. ~(i <= Len(F) - 1)
          BY <1>1, <3>2
        <5>2. AL[i] = last
          BY <2>8, <5>1
        <5> QED
          BY <2>10, <5>2
      <4>2. last.ok \in BOOLEAN
        BY <2>6 DEF Line
      <4> QED
        BY <2>6, <3>2, <4>1, <4>2
    <3>3. CASE i # Len(F)
      <4>1. G[i] = F[i]
        BY <1>1, <2>8, <2>10, <3>3
      <4> QED
        BY <3>1, <3>3, <4>1
    <3> QED
      BY <3>2, <3>3
  <2>13. 1 + 1 = 2
    OBVIOUS
  <2>14. Grown(F, G, 1, rows)
    <3>1. ASSUME NEW j \in 2..Len(rows), NEW i \in 1..Len(G), i = Len(F) + j - 1
          PROVE  G[i].row = rows[j] /\ G[i].ts = now /\ G[i].ok
      <4>1. G[Len(F) + j - 1] = [row |-> rows[j], ts |-> now, ok |-> TRUE]
        BY <2>10, Zenon
      <4>2. G[i] = [row |-> rows[j], ts |-> now, ok |-> TRUE]
        BY <3>1, <4>1, Zenon
      <4> QED
        BY <4>2
    <3> QED
      BY <2>10, <2>12, <2>13, <3>1, Zenon DEF Grown
  <2>15. Glue(f, rows) = 1
    BY <1>2 DEF Glue
  <2> QED
    BY <2>11, <2>14, <2>15 DEF F
<1>3. CASE ~(f.open /\ rows # <<>>)
  <2> DEFINE B == Buffered(rows)
             G == F \o B
  <2>1. g = [lines |-> G, open |-> f.open /\ rows = <<>>]
    BY <1>3 DEF appended, F
  <2>2. /\ B \in Seq(Line) /\ Len(B) = Len(rows)
        /\ \A j \in 1..Len(rows) : B[j] = [row |-> rows[j], ts |-> now, ok |-> TRUE]
    BY BufferedLines
  <2> HIDE DEF B
  <2>3. /\ G \in Seq(Line) /\ Len(G) = Len(F) + Len(rows) - 0
        /\ \A i \in 1..Len(F) : G[i] = F[i]
        /\ \A j \in 1..Len(rows) : G[Len(F) + j - 0] = [row |-> rows[j], ts |-> now, ok |-> TRUE]
    <3>1. /\ G \in Seq(Line) /\ Len(G) = Len(F) + Len(B)
          /\ \A i \in 1..(Len(F) + Len(B)) : G[i] = IF i <= Len(F) THEN F[i] ELSE B[i - Len(F)]
      <4>1. F \in Seq(Line) /\ B \in Seq(Line)
        BY <1>1, <2>2
      <4> QED
        BY <4>1, ConcatProperties
    <3> HIDE DEF G
    <3>2. \A i \in 1..Len(F) : i \in 1..(Len(F) + Len(B)) /\ i <= Len(F)
      BY <1>1, <2>2
    <3>3. ASSUME NEW j \in 1..Len(rows)
          PROVE  G[Len(F) + j - 0] = [row |-> rows[j], ts |-> now, ok |-> TRUE]
      <4> DEFINE i == Len(F) + j - 0
      <4>1. i \in 1..(Len(F) + Len(B)) /\ ~(i <= Len(F)) /\ i - Len(F) = j
        BY <1>1, <2>2
      <4> HIDE DEF i
      <4>2. G[i] = B[j]
        BY <3>1, <4>1
      <4> QED
        BY <2>2, <4>2 DEF i
    <3>4. Len(G) = Len(F) + Len(rows) - 0
      BY <1>1, <2>2, <3>1
    <3>5. \A i \in 1..Len(F) : G[i] = F[i]
      BY <3>1, <3>2
    <3> QED
      BY <3>1, <3>3, <3>4, <3>5
  <2>4. g \in File /\ g.lines = G /\ g.open = (f.open /\ rows = <<>>)
    BY <2>1, <2>3 DEF File
  <2> HIDE DEF G
  <2>5. \A i \in 1..Len(F) : F[i].ok \in BOOLEAN
    BY <1>1, LineFields
  <2>6. 0 + 1 = 1
    OBVIOUS
  <2>7. Grown(F, G, 0, rows)
    <3>1. ASSUME NEW j \in 1..Len(rows), NEW i \in 1..Len(G), i = Len(F) + j - 0
          PROVE  G[i].row = rows[j] /\ G[i].ts = now /\ G[i].ok
      <4>1. G[Len(F) + j - 0] = [row |-> rows[j], ts |-> now, ok |-> TRUE]
        BY <2>3, Zenon
      <4>2. G[i] = [row |-> rows[j], ts |-> now, ok |-> TRUE]
        BY <3>1, <4>1, Zenon
      <4> QED
        BY <4>2
    <3>2. \A i \in 1..Len(F) : /\ G[i].row = F[i].row /\ G[i].ts = F[i].ts
                               /\ G[i].ok = (F[i].ok /\ ~(0 = 1 /\ i = Len(F)))
      BY <2>3, <2>5
    <3>3. Len(G) = Len(F) + Len(rows) - 0
      BY <2>3
    <3> QED
      BY <2>6, <3>1, <3>2, <3>3, Zenon DEF Grown
  <2>8. Glue(f, rows) = 0
    BY <1>3 DEF Glue
  <2>9. g.open => f.open /\ rows = <<>>
    BY <2>4
  <2> QED
    BY <2>4, <2>7, <2>8, <2>9 DEF F
<1> QED
  BY <1>2, <1>3

\* Line i is one of those appended.
Appendix(G, n, d, rows, i) ==
    \E j \in (d + 1)..Len(rows) :
        i = n + j - d /\ G[i].row = rows[j] /\ G[i].ts = now /\ G[i].ok

\* A line behind those of the file is one that is appended.
LEMMA GrownPlaces ==
    ASSUME NEW F, NEW G, NEW d \in {0, 1}, NEW rows, Grown(F, G, d, rows),
           Len(F) \in Nat, Len(G) \in Nat, Len(rows) \in Nat,
           NEW i \in 1..Len(G), i \notin 1..Len(F)
    PROVE  Appendix(G, Len(F), d, rows, i)
<1>1. /\ Len(G) = Len(F) + Len(rows) - d
      /\ \A j \in (d + 1)..Len(rows), k \in 1..Len(G) : k = Len(F) + j - d =>
           G[k].row = rows[j] /\ G[k].ts = now /\ G[k].ok
  BY Zenon DEF Grown
<1> DEFINE j == i - Len(F) + d
<1>2. j \in (d + 1)..Len(rows) /\ i = Len(F) + j - d
  <2>1. Len(G) = Len(F) + Len(rows) - d
    BY <1>1
  <2> QED
    BY <2>1
<1> HIDE DEF j
<1>3. G[i].row = rows[j] /\ G[i].ts = now /\ G[i].ok
  BY <1>1, <1>2, Zenon
<1> QED
  BY <1>2, <1>3, Zenon DEF Appendix

\* The rows of a file after an append: those of the file and those appended,
\* but for the two that are glued together.
LEMMA AppendKeepsRows ==
    ASSUME NEW m \in 0..MaxCaptured, NEW f, FileOK(f, m), NEW rows \in Seq(1..m),
           now \in 0..MaxTime, NEW g, g = appended(f, rows)
    PROVE  /\ FileOK(g, m)
           /\ AllRows(g.lines) \subseteq AllRows(f.lines) \cup ToSet(rows)
           /\ RowsOf(g.lines) \subseteq RowsOf(f.lines) \cup ToSet(rows)
           /\ (RowsOf(f.lines) \cup ToSet(rows)) \ Glued(f, rows) \subseteq RowsOf(g.lines)
           /\ Glued(f, rows) \subseteq RowsOf(f.lines) \cup ToSet(rows)
           /\ Glued(f, rows) # {} => f.open
           /\ g.open => f.open
           /\ rows # <<>> => g.lines # <<>>
<1> DEFINE F == f.lines
           G == g.lines
           d == Glue(f, rows)
<1>1. /\ F \in Seq(Line) /\ Len(F) \in Nat /\ f.open \in BOOLEAN
      /\ AllRows(F) \subseteq 1..m /\ RowsOf(F) \subseteq AllRows(F)
      /\ f.open => Len(F) # 0
  <2>1. F \in Seq(Line) /\ f.open \in BOOLEAN /\ (f.open => F # <<>>) /\ AllRows(F) \subseteq 1..m
    BY DEF FileOK, File
  <2> HIDE DEF F
  <2> QED
    BY <2>1, RowsAreRows, Elements
<1>2. /\ Len(rows) \in Nat /\ ToSet(rows) = {rows[j] : j \in 1..Len(rows)}
      /\ ToSet(rows) \subseteq 1..m /\ (rows = <<>> <=> Len(rows) = 0)
  BY Elements
<1>3. g \in File /\ G \in Seq(Line) /\ (g.open => f.open /\ rows = <<>>)
  <2>1. g \in File /\ (g.open => f.open /\ rows = <<>>)
    BY AppendGrows
  <2> QED
    BY <2>1 DEF File
<1>4. /\ Len(G) = Len(F) + Len(rows) - d
      /\ \A i \in 1..Len(F) : /\ G[i].row = F[i].row /\ G[i].ts = F[i].ts
                              /\ G[i].ok = (F[i].ok /\ ~(d = 1 /\ i = Len(F)))
      /\ \A j \in (d + 1)..Len(rows), i \in 1..Len(G) : i = Len(F) + j - d =>
           G[i].row = rows[j] /\ G[i].ts = now /\ G[i].ok
  <2>1. Grown(f.lines, g.lines, Glue(f, rows), rows)
    BY AppendGrows
  <2> QED
    BY <2>1, Zenon DEF Grown
<1>5. /\ d \in {0, 1}
      /\ d = 1 => f.open /\ rows # <<>> /\ Len(F) # 0 /\ Len(rows) # 0
      /\ d = 0 => ~(f.open /\ rows # <<>>)
  BY <1>1, <1>2 DEF Glue
<1>6. Grown(F, G, d, rows) /\ Len(G) \in Nat
  BY <1>3, AppendGrows
<1> HIDE DEF F, G, d
<1>7. \A i \in 1..Len(G) : i \in 1..Len(F) \/ \E j \in (d + 1)..Len(rows) : i = Len(F) + j - d
  <2>1. \A i \in 1..Len(G) : i \notin 1..Len(F) => Appendix(G, Len(F), d, rows, i)
    BY <1>1, <1>2, <1>5, <1>6, GrownPlaces
  <2> QED
    BY <2>1, Zenon DEF Appendix
<1>8. \A j \in (d + 1)..Len(rows) :
        /\ j \in 1..Len(rows)
        /\ \E i \in 1..Len(G) : /\ i \notin 1..Len(F) /\ i = Len(F) + j - d
                               /\ G[i].row = rows[j] /\ G[i].ts = now /\ G[i].ok
  <2>1. SUFFICES ASSUME NEW j \in (d + 1)..Len(rows)
                 PROVE  /\ j \in 1..Len(rows)
                        /\ \E i \in 1..Len(G) : /\ i \notin 1..Len(F) /\ i = Len(F) + j - d
                              /\ G[i].row = rows[j] /\ G[i].ts = now /\ G[i].ok
    OBVIOUS
  <2> DEFINE i == Len(F) + j - d
  <2>2. j \in 1..Len(rows) /\ i \in 1..Len(G) /\ i \notin 1..Len(F) /\ i = Len(F) + j - d
    BY <1>1, <1>2, <1>4, <1>5
  <2> HIDE DEF i
  <2> QED
    BY <1>4, <2>2, Zenon
<1>9. \A i \in 1..Len(F) : i \in 1..Len(G)
  BY <1>1, <1>2, <1>4, <1>5
<1>10. AllRows(G) \subseteq AllRows(F) \cup ToSet(rows)
  <2>1. ASSUME NEW i \in 1..Len(G) PROVE G[i].row \in AllRows(F) \cup ToSet(rows)
    <3>1. CASE i \in 1..Len(F)
      BY <1>4, <3>1 DEF AllRows
    <3>2. ASSUME NEW j \in (d + 1)..Len(rows), i = Len(F) + j - d
          PROVE  G[i].row \in ToSet(rows)
      <4>1. G[i].row = rows[j] /\ j \in 1..Len(rows)
        BY <1>4, <1>8, <3>2, Zenon
      <4> QED
        BY <1>2, <4>1
    <3> QED
      BY <1>7, <3>1, <3>2
  <2> QED
    BY <2>1 DEF AllRows
<1>11. \A j \in (d + 1)..Len(rows) : rows[j] \in RowsOf(G)
  <2>1. SUFFICES ASSUME NEW j \in (d + 1)..Len(rows) PROVE rows[j] \in RowsOf(G)
    OBVIOUS
  <2>2. PICK i \in 1..Len(G) : G[i].ok /\ G[i].row = rows[j]
    BY <1>8
  <2>3. i \in Intact(G)
    BY <2>2 DEF Intact
  <2> QED
    BY <2>2, <2>3 DEF RowsOf
<1>12. \A i \in Intact(F) : i # Len(F) \/ d = 0 => F[i].row \in RowsOf(G)
  <2>1. SUFFICES ASSUME NEW i \in Intact(F), i # Len(F) \/ d = 0 PROVE F[i].row \in RowsOf(G)
    OBVIOUS
  <2>2. i \in 1..Len(F) /\ F[i].ok
    BY DEF Intact
  <2>5. ~(d = 1 /\ i = Len(F))
    BY <2>1
  <2>3. G[i].ok /\ G[i].row = F[i].row
    BY <1>4, <2>1, <2>2, <2>5, Zenon
  <2>4. i \in Intact(G)
    BY <1>9, <2>2, <2>3 DEF Intact
  <2> QED
    BY <2>3, <2>4 DEF RowsOf
<1>13. ASSUME NEW i \in Intact(G)
       PROVE  \/ i \in Intact(F) /\ G[i].row = F[i].row /\ (i # Len(F) \/ d = 0)
              \/ \E j \in (d + 1)..Len(rows) : G[i].row = rows[j]
  <2>1. i \in 1..Len(G) /\ G[i].ok
    BY DEF Intact
  <2>2. CASE i \in 1..Len(F)
    <3>1. F[i].ok /\ ~(d = 1 /\ i = Len(F)) /\ G[i].row = F[i].row
      BY <1>4, <2>1, <2>2, Zenon
    <3>2. i # Len(F) \/ d = 0
      BY <1>5, <3>1
    <3> QED
      BY <2>2, <3>1, <3>2 DEF Intact
  <2>3. ASSUME NEW j \in (d + 1)..Len(rows), i = Len(F) + j - d PROVE G[i].row = rows[j]
    BY <1>4, <2>1, <2>3, Zenon
  <2> QED
    BY <1>7, <2>1, <2>2, <2>3
<1>14. RowsOf(G) \subseteq RowsOf(F) \cup ToSet(rows)
  <2>1. ASSUME NEW i \in Intact(G) PROVE G[i].row \in RowsOf(F) \cup ToSet(rows)
    <3>1. CASE i \in Intact(F) /\ G[i].row = F[i].row
      BY <3>1 DEF RowsOf
    <3>2. ASSUME NEW j \in (d + 1)..Len(rows), G[i].row = rows[j]
          PROVE  G[i].row \in ToSet(rows)
      <4>1. j \in 1..Len(rows)
        BY <1>8, Zenon
      <4> QED
        BY <1>2, <3>2, <4>1
    <3> QED
      BY <1>13, <3>1, <3>2
  <2> QED
    BY <2>1 DEF RowsOf
<1>15. FileOK(g, m)
  <2>1. g.open => G # <<>>
    <3>1. g.open => Len(G) # 0
      <4>1. ASSUME g.open PROVE Len(G) # 0
        <5>1. rows = <<>> /\ Len(F) # 0 /\ d = 0
          BY <1>1, <1>3, <1>5, <4>1
        <5> QED
          BY <1>1, <1>2, <1>4, <5>1
      <4> QED
        BY <4>1
    <3> QED
      BY <1>3, <3>1, Elements
  <2>2. AllRows(G) \subseteq 1..m
    BY <1>1, <1>2, <1>10
  <2> QED
    BY <1>3, <2>1, <2>2 DEF FileOK, G
<1>16. rows # <<>> => G # <<>>
  <2>1. Len(rows) # 0 => Len(G) # 0
    BY <1>1, <1>2, <1>4, <1>5
  <2> QED
    BY <1>2, <1>3, <2>1, Elements
\* The two lines that are glued.
<1>17. /\ (RowsOf(F) \cup ToSet(rows)) \ Glued(f, rows) \subseteq RowsOf(G)
       /\ Glued(f, rows) \subseteq RowsOf(F) \cup ToSet(rows)
       /\ Glued(f, rows) # {} => f.open
  <2>1. CASE d = 0
    <3>1. Glued(f, rows) = {}
      BY <1>5, <2>1 DEF Glued
    <3>2. ASSUME NEW j \in 1..Len(rows) PROVE rows[j] \in RowsOf(G)
      <4>1. j \in (d + 1)..Len(rows)
        BY <2>1
      <4> QED
        BY <1>11, <4>1
    <3>3. \A i \in Intact(F) : F[i].row \in RowsOf(G)
      BY <1>12, <2>1
    <3>4. RowsOf(F) \cup ToSet(rows) \subseteq RowsOf(G)
      BY <1>2, <3>2, <3>3 DEF RowsOf
    <3> QED
      BY <3>1, <3>4
  <2>2. CASE d = 1
    <3>1. f.open /\ rows # <<>> /\ Len(F) \in 1..Len(F) /\ 1 \in 1..Len(rows) /\ Head(rows) = rows[1]
      <4>1. rows # <<>>
        BY <1>2, <1>5, <2>2
      <4>2. Head(rows) = rows[1]
        OBVIOUS
      <4> QED
        BY <1>1, <1>2, <1>5, <2>2, <4>2
    <3>2. RowsOf(<<Last(F)>>) = IF F[Len(F)].ok THEN {F[Len(F)].row} ELSE {}
      <4> DEFINE L == <<Last(F)>>
      <4>1. Len(L) = 1 /\ L[1] = F[Len(F)]
        BY DEF Last
      <4> HIDE DEF L
      <4>2. Intact(L) = IF F[Len(F)].ok THEN {1} ELSE {}
        BY <4>1 DEF Intact
      <4> QED
        BY <4>1, <4>2 DEF RowsOf, L
    <3>3. Glued(f, rows) = (IF F[Len(F)].ok THEN {F[Len(F)].row} ELSE {}) \cup {rows[1]}
      BY <3>1, <3>2 DEF Glued, F
    <3>4. Glued(f, rows) \subseteq RowsOf(F) \cup ToSet(rows)
      BY <1>2, <3>1, <3>3 DEF RowsOf, Intact
    <3>5. \A j \in 1..Len(rows) : rows[j] \notin Glued(f, rows) => rows[j] \in RowsOf(G)
      <4>1. \A j \in 1..Len(rows) : j # 1 => j \in (d + 1)..Len(rows)
        BY <2>2
      <4> QED
        BY <1>11, <3>3, <4>1
    <3>6. \A i \in Intact(F) : F[i].row \notin Glued(f, rows) => F[i].row \in RowsOf(G)
      <4>1. \A i \in Intact(F) : F[i].ok
        BY DEF Intact
      <4> QED
        BY <1>12, <3>3, <4>1
    <3>7. (RowsOf(F) \cup ToSet(rows)) \ Glued(f, rows) \subseteq RowsOf(G)
      BY <1>2, <3>5, <3>6 DEF RowsOf
    <3> QED
      BY <3>1, <3>4, <3>7
  <2> QED
    BY <1>5, <2>1, <2>2
<1> QED
  BY <1>3, <1>10, <1>14, <1>15, <1>16, <1>17 DEF F, G

\* An append of later rows leaves a file in order.
LEMMA AppendKeepsOrder ==
    ASSUME NEW m \in 0..MaxCaptured, NEW f, FileOK(f, m), NEW rows \in Seq(1..m),
           now \in 0..MaxTime, NEW g, g = appended(f, rows),
           Tidy(f, now), Ascending(rows), Before(AllRows(f.lines), ToSet(rows))
    PROVE  Tidy(g, now) /\ RowsOf(g.lines) \cap Glued(f, rows) = {}
<1> DEFINE F == f.lines
           G == g.lines
<1>1. PICK d \in {0, 1} : d = Glue(f, rows)
  BY DEF Glue
<1>2. /\ F \in Seq(Line) /\ Len(F) \in Nat /\ G \in Seq(Line) /\ Len(G) \in Nat
      /\ Len(rows) \in Nat /\ rows \in Seq(Nat) /\ d \in {0, 1} /\ now \in Nat
  <2>1. F \in Seq(Line) /\ G \in Seq(Line)
    BY AppendGrows DEF FileOK, File
  <2>2. 1..m \subseteq Nat
    OBVIOUS
  <2>3. rows \in Seq(Nat)
    BY <2>2, SeqMonotonic
  <2>4. d \in {0, 1}
    OBVIOUS
  <2>5. now \in Nat
    BY EdgeAssumption
  <2> HIDE DEF F, G
  <2> QED
    BY <2>1, <2>3, <2>4, <2>5
<1>3. Grown(F, G, d, rows)
  BY <1>1, AppendGrows
<1>13. \A i \in 1..Len(F) : /\ G[i].row = F[i].row /\ G[i].ts = F[i].ts
                            /\ G[i].ok = (F[i].ok /\ ~(d = 1 /\ i = Len(F)))
  BY <1>3, Zenon DEF Grown
<1>4. \A i \in 1..Len(G) : i \notin 1..Len(F) =>
        \E j \in (d + 1)..Len(rows) : i = Len(F) + j - d /\ G[i].row = rows[j] /\ G[i].ts = now
  <2>1. \A i \in 1..Len(G) : i \notin 1..Len(F) => Appendix(G, Len(F), d, rows, i)
    BY <1>2, <1>3, GrownPlaces
  <2> QED
    BY <2>1, Zenon DEF Appendix
<1>5. /\ \A i \in 1..Len(F) : F[i].row \in AllRows(F) /\ F[i].ts <= now
      /\ \A j \in 1..Len(rows) : rows[j] \in ToSet(rows)
      /\ InOrder(F) /\ Before(AllRows(F), ToSet(rows))
  BY <1>2, Elements DEF Tidy, AllRows
<1>6. Intact(F) \subseteq 1..Len(F) /\ Intact(G) \subseteq 1..Len(G)
  BY DEF Intact
<1>7. g.lines = G
  OBVIOUS
<1> HIDE DEF F, G
<1>8. ASSUME NEW i \in 1..Len(G), NEW k \in 1..Len(G), i < k
      PROVE  G[i].row < G[k].row /\ G[i].ts <= G[k].ts
  <2>1. CASE k \in 1..Len(F)
    <3>1. i \in 1..Len(F)
      BY <1>2, <1>8, <2>1
    <3>2. F[i].row < F[k].row /\ F[i].ts <= F[k].ts
      BY <1>5, <1>8, <2>1, <3>1 DEF InOrder
    <3> QED
      BY <1>13, <2>1, <3>1, <3>2
  <2>2. CASE k \notin 1..Len(F)
    <3>1. PICK j \in (d + 1)..Len(rows) : k = Len(F) + j - d /\ G[k].row = rows[j] /\ G[k].ts = now
      BY <1>4, <2>2
    <3>2. j \in 1..Len(rows)
      BY <1>2
    <3>3. CASE i \in 1..Len(F)
      <4>1. F[i].row < rows[j]
        BY <1>5, <3>2, <3>3 DEF Before
      <4> QED
        BY <1>13, <1>5, <3>1, <3>3, <4>1
    <3>4. CASE i \notin 1..Len(F)
      <4>1. PICK l \in (d + 1)..Len(rows) : i = Len(F) + l - d /\ G[i].row = rows[l] /\ G[i].ts = now
        BY <1>4, <3>4
      <4>2. l \in 1..Len(rows) /\ l < j
        BY <1>2, <1>8, <3>1, <4>1, SMTT(30)
      <4>3. rows[l] < rows[j]
        BY <3>2, <4>2 DEF Ascending
      <4> QED
        BY <1>2, <3>1, <4>1, <4>3
    <3> QED
      BY <3>3, <3>4
  <2> QED
    BY <2>1, <2>2
<1>9. \A i \in 1..Len(G) : G[i].ts <= now
  <2>1. ASSUME NEW i \in 1..Len(G) PROVE G[i].ts <= now
    <3>1. CASE i \in 1..Len(F)
      BY <1>13, <1>5, <3>1
    <3>2. CASE i \notin 1..Len(F)
      <4>1. G[i].ts = now
        BY <1>4, <3>2
      <4> QED
        BY <1>2, <4>1
    <3> QED
      BY <3>1, <3>2
  <2> QED
    BY <2>1
<1>10. Tidy(g, now)
  BY <1>7, <1>8, <1>9 DEF Tidy, InOrder
<1>11. ASSUME NEW i \in Intact(G), G[i].row \in Glued(f, rows) PROVE FALSE
  <2>1. f.open /\ rows # <<>> /\ d = 1 /\ Len(F) \in 1..Len(F)
    <3>1. f.open /\ rows # <<>>
      BY <1>11 DEF Glued
    <3>2. F # <<>>
      BY <3>1 DEF FileOK, F
    <3>3. Len(F) # 0
      BY <1>2, <3>2, Elements
    <3> QED
      BY <1>1, <1>2, <3>1, <3>3 DEF Glue
  <2>2. 1 \in 1..Len(rows) /\ Head(rows) = rows[1]
    <3>1. Len(rows) # 0
      BY <2>1, Elements
    <3>2. Head(rows) = rows[1]
      OBVIOUS
    <3> QED
      BY <1>2, <3>1, <3>2
  <2>3. Glued(f, rows) \subseteq {F[Len(F)].row, rows[1]}
    <3> DEFINE L == <<Last(F)>>
    <3>1. Len(L) = 1 /\ L[1] = F[Len(F)]
      BY DEF Last
    <3>2. Glued(f, rows) = RowsOf(L) \cup {rows[1]}
      BY <2>1, <2>2 DEF Glued, F
    <3> HIDE DEF L
    <3>3. RowsOf(L) \subseteq {F[Len(F)].row}
      BY <3>1 DEF RowsOf, Intact
    <3> QED
      BY <3>2, <3>3
  <2>4. i \in 1..Len(G) /\ G[i].ok
    BY DEF Intact
  <2>5. CASE i \in 1..Len(F)
    <3>1. i # Len(F) /\ G[i].row = F[i].row
      BY <1>13, <2>1, <2>4, <2>5
    <3>2. F[i].row # F[Len(F)].row
      BY <1>2, <1>5, <2>1, <2>5, <3>1, OrderedPlaces
    <3>3. F[i].row < rows[1]
      BY <1>5, <2>2, <2>5 DEF Before
    <3>4. F[i].row \in Nat /\ rows[1] \in Nat
      BY <1>2, <2>2, <2>5, LineFields
    <3> QED
      BY <1>11, <2>3, <3>1, <3>2, <3>3, <3>4
  <2>6. CASE i \notin 1..Len(F)
    <3>1. PICK j \in (d + 1)..Len(rows) : G[i].row = rows[j]
      BY <1>4, <2>4, <2>6
    <3>2. j \in 1..Len(rows) /\ j # 1
      BY <1>2, <2>1
    <3>3. rows[j] # rows[1]
      BY <1>2, <2>2, <3>2, AscendingPlaces
    <3>4. F[Len(F)].row < rows[j]
      BY <1>5, <2>1, <3>2 DEF Before
    <3>5. F[Len(F)].row \in Nat /\ rows[j] \in Nat
      <4>1. F[Len(F)].row \in Nat
        BY <1>2, <2>1, LineFields
      <4>2. rows[j] \in Nat
        BY <1>2, <3>2, ElementOfSeq
      <4> QED
        BY <4>1, <4>2
    <3> QED
      BY <1>11, <2>3, <3>1, <3>3, <3>4, <3>5
  <2> QED
    BY <2>5, <2>6
<1>12. RowsOf(G) \cap Glued(f, rows) = {}
  BY <1>11 DEF RowsOf
<1> QED
  BY <1>7, <1>10, <1>12

\* The part of its rows that a write has flushed.
LEMMA FlushedRows ==
    ASSUME NEW m \in Nat, NEW rows \in Seq(1..m), NEW k \in 1..Len(rows),
           NEW s, s = SubSeq(rows, 1, k)
    PROVE  /\ s \in Seq(1..m) /\ s # <<>> /\ ToSet(s) \subseteq ToSet(rows)
           /\ Ascending(rows) => Ascending(s)
<1>1. \A i \in 1..k : i \in 1..Len(rows) /\ rows[i] \in 1..m
  OBVIOUS
<1>2. /\ s \in Seq(1..m) /\ Len(s) = IF 1 <= k THEN k - 1 + 1 ELSE 0
      /\ \A i \in 1..(k - 1 + 1) : s[i] = rows[1 + i - 1]
  BY <1>1, SubSeqProperties
<1>3. k \in Nat /\ 1 <= k
  OBVIOUS
<1>4. Len(s) = k /\ \A i \in 1..k : s[i] = rows[i]
  <2>1. k - 1 + 1 = k /\ \A i \in 1..k : 1 + i - 1 = i
    BY <1>3
  <2> QED
    BY <1>2, <1>3, <2>1
<1>5. s # <<>>
  BY <1>2, <1>3, <1>4, Elements
<1>6. ToSet(s) \subseteq ToSet(rows)
  <2>1. ToSet(s) = {s[i] : i \in 1..Len(s)} /\ ToSet(rows) = {rows[i] : i \in 1..Len(rows)}
    <3>1. ToSet(rows) = {rows[i] : i \in 1..Len(rows)}
      BY Elements
    <3>2. ToSet(s) = {s[i] : i \in 1..Len(s)}
      <4>1. s \in Seq(1..m)
        BY <1>2
      <4>2. DOMAIN s = 1..Len(s)
        BY <4>1, LenProperties
      <4> QED
        BY <4>2 DEF ToSet
    <3> QED
      BY <3>1, <3>2
  <2> QED
    BY <1>1, <1>4, <2>1
<1>7. Ascending(rows) => Ascending(s)
  BY <1>1, <1>4 DEF Ascending
<1> QED
  BY <1>2, <1>5, <1>6, <1>7

\* The last line as a crash leaves it.
Cut(g, whole) ==
    [lines |-> [g.lines EXCEPT ![Len(g.lines)].ok = @ /\ whole], open |-> TRUE]

\* A cut of the last line takes no other row.
LEMMA CutKeepsTheRest ==
    ASSUME NEW m, NEW g, FileOK(g, m), g.lines # <<>>, NEW whole \in BOOLEAN,
           NEW h, h = Cut(g, whole)
    PROVE  /\ FileOK(h, m) /\ AllRows(h.lines) \subseteq AllRows(g.lines)
           /\ RowsOf(h.lines) \subseteq RowsOf(g.lines)
           /\ \A t : Tidy(g, t) => Tidy(h, t)
<1> DEFINE G == g.lines
           H == [G EXCEPT ![Len(G)].ok = @ /\ whole]
<1>1. G \in Seq(Line) /\ AllRows(G) \subseteq 1..m /\ G # <<>>
  BY DEF FileOK, File
<1>2. h = [lines |-> H, open |-> TRUE]
  BY DEF Cut
<1> HIDE DEF G
<1>3. Len(G) \in 1..Len(G)
  <2>1. Len(G) \in Nat /\ Len(G) # 0
    BY <1>1, Elements
  <2> QED
    BY <2>1
<1>4. [G[Len(G)] EXCEPT !.ok = @ /\ whole] \in Line
  <2>1. G[Len(G)] \in Line
    BY <1>1, <1>3
  <2> QED
    BY <2>1 DEF Line
<1>5. H \in Seq(Line) /\ Len(H) = Len(G)
  BY <1>1, <1>3, <1>4
<1>6. \A i \in 1..Len(G) : H[i].row = G[i].row /\ H[i].ts = G[i].ts /\ (H[i].ok => G[i].ok)
  <2>1. SUFFICES ASSUME NEW i \in 1..Len(G)
                 PROVE  H[i].row = G[i].row /\ H[i].ts = G[i].ts /\ (H[i].ok => G[i].ok)
    OBVIOUS
  <2>2. G[i] \in Line
    BY <1>1
  <2>3. CASE i = Len(G)
    <3>1. H[i] = [G[i] EXCEPT !.ok = @ /\ whole]
      BY <1>1, <1>3, <2>3
    <3>2. H[i].row = G[i].row /\ H[i].ts = G[i].ts /\ H[i].ok = (G[i].ok /\ whole)
      BY <2>2, <3>1 DEF Line
    <3> QED
      BY <3>2
  <2>4. CASE i # Len(G)
    BY <1>1, <1>3, <2>4
  <2> QED
    BY <2>3, <2>4
<1> HIDE DEF H
<1>7. AllRows(H) \subseteq AllRows(G)
  BY <1>5, <1>6 DEF AllRows
<1>8. RowsOf(H) \subseteq RowsOf(G)
  <2>1. \A i \in Intact(H) : i \in Intact(G) /\ H[i].row = G[i].row
    BY <1>5, <1>6 DEF Intact
  <2> QED
    BY <2>1 DEF RowsOf
<1>9. h \in File /\ h.lines = H
  BY <1>2, <1>5 DEF File
<1>10. H # <<>>
  <2>1. Len(H) # 0
    BY <1>3, <1>5
  <2> QED
    BY <1>5, <2>1, Elements
<1>11. FileOK(h, m)
  BY <1>1, <1>7, <1>9, <1>10 DEF FileOK
<1>12. \A t : Tidy(g, t) => Tidy(h, t)
  BY <1>5, <1>6, <1>9 DEF Tidy, InOrder, G
<1> QED
  BY <1>7, <1>8, <1>9, <1>11, <1>12 DEF G

--------------------------------------------------------------------------------
(* Types.                                                                  *)

\* What one flush does leaves the others alone.
LEMMA FlushStep ==
    ASSUME FlushTypes, captured' = captured, NEW f \in Flushes,
           NEW label \in Labels, At(f, label),
           NEW b \in Seq(1..captured), batch' = [batch EXCEPT ![f] = b],
           NEW c \in Seq(1..captured), chunk' = [chunk EXCEPT ![f] = c], Len(c) <= Chunk,
           label = "idle" => b = <<>> /\ c = <<>>,
           stale' = IF label = "idle" THEN stale \ {f} ELSE stale
    PROVE  FlushTypes'
<1>1. /\ pc \in [Flushes -> Labels] /\ pc' = [pc EXCEPT ![f] = label]
      /\ batch \in [Flushes -> Seq(1..captured)] /\ chunk \in [Flushes -> Seq(1..captured)]
  BY DEF FlushTypes, At
<1>2. /\ pc' \in [Flushes -> Labels]
      /\ \A g \in Flushes : pc'[g] = IF g = f THEN label ELSE pc[g]
  BY <1>1
<1>3. /\ batch' \in [Flushes -> Seq(1..captured)]
      /\ \A g \in Flushes : batch'[g] = IF g = f THEN b ELSE batch[g]
  BY <1>1
<1>4. /\ chunk' \in [Flushes -> Seq(1..captured)]
      /\ \A g \in Flushes : chunk'[g] = IF g = f THEN c ELSE chunk[g]
  BY <1>1
<1>5. stale' \subseteq Busy'
  BY <1>2 DEF FlushTypes, Busy
<1>6. \A g \in Flushes : /\ Len(chunk'[g]) <= Chunk
                         /\ pc'[g] = "idle" => batch'[g] = <<>> /\ chunk'[g] = <<>>
  BY <1>2, <1>3, <1>4, Zenon DEF FlushTypes
<1> QED
  BY <1>2, <1>3, <1>4, <1>5, <1>6 DEF FlushTypes

\* Its forms: the end of the flush, and a step to another label that may
\* forget the batch.
LEMMA FinishStep ==
    ASSUME FlushTypes, captured' = captured, NEW f \in Flushes, Finish(f)
    PROVE  FlushTypes'
<1>1. /\ At(f, "idle") /\ "idle" \in Labels /\ stale' = stale \ {f}
      /\ batch' = [batch EXCEPT ![f] = <<>>] /\ chunk' = [chunk EXCEPT ![f] = <<>>]
  BY DEF Finish, Labels
<1>2. <<>> \in Seq(1..captured) /\ Len(<<>>) <= Chunk
  BY EdgeAssumption
<1> QED
  BY <1>1, <1>2, FlushStep

\* A flush goes on at a label.
LEMMA LabelStep ==
    ASSUME FlushTypes, captured' = captured, NEW f \in Flushes, NEW label \in Labels,
           label # "idle", At(f, label), UNCHANGED stale,
           NEW b \in Seq(1..captured), batch' = [batch EXCEPT ![f] = b],
           NEW c \in Seq(1..captured), chunk' = [chunk EXCEPT ![f] = c], Len(c) <= Chunk
    PROVE  FlushTypes'
BY FlushStep

\* What a flush holds stays what it is.
LEMMA SameChunk ==
    ASSUME FlushTypes, NEW f \in Flushes
    PROVE  /\ batch[f] \in Seq(1..captured) /\ chunk[f] \in Seq(1..captured)
           /\ Len(chunk[f]) <= Chunk
           /\ batch = [batch EXCEPT ![f] = batch[f]] /\ chunk = [chunk EXCEPT ![f] = chunk[f]]
           /\ Len(<<>>) = 0 /\ 0 <= Chunk /\ <<>> \in Seq(1..captured)
BY EdgeAssumption DEF FlushTypes

\* The parts of Typed that proofs keep needing.
LEMMA TypedParts ==
    ASSUME Typed
    PROVE  /\ captured \in Nat /\ captured \in 0..MaxCaptured
           /\ file \in File /\ file.lines \in Seq(Line) /\ FileOK(file, captured)
           /\ FlushTypes
           /\ RowsOf(file.lines) \subseteq 1..captured
           /\ ToSet(pending) \subseteq 1..captured
           /\ \A f \in Flushes : /\ pc[f] \in Labels
                                 /\ batch[f] \in Seq(1..captured) /\ chunk[f] \in Seq(1..captured)
                                 /\ ToSet(batch[f]) \subseteq 1..captured
                                 /\ ToSet(chunk[f]) \subseteq 1..captured
           /\ \A f \in Flushes : Len(chunk[f]) \in Nat
<1>1. /\ captured \in Nat /\ captured \in 0..MaxCaptured /\ FileOK(file, captured)
      /\ FlushTypes /\ pending \in Seq(1..captured)
  BY EdgeAssumption DEF Typed
<1>2. file \in File /\ file.lines \in Seq(Line) /\ AllRows(file.lines) \subseteq 1..captured
  BY <1>1 DEF FileOK, File
<1>3. RowsOf(file.lines) \subseteq 1..captured
  BY <1>2, RowsAreRows
<1>4. ToSet(pending) \subseteq 1..captured
  BY <1>1, Elements
<1>5. \A f \in Flushes : /\ pc[f] \in Labels
                         /\ batch[f] \in Seq(1..captured) /\ chunk[f] \in Seq(1..captured)
  BY <1>1 DEF FlushTypes
<1>6. \A f \in Flushes : ToSet(batch[f]) \subseteq 1..captured
  BY <1>5, Elements
<1>7. \A f \in Flushes : ToSet(chunk[f]) \subseteq 1..captured /\ Len(chunk[f]) \in Nat
  BY <1>5, Elements
<1> QED
  BY <1>1, <1>2, <1>3, <1>4, <1>5, <1>6, <1>7

\* The conjuncts of Typed that are not about the flushes.
RestTyped ==
    /\ life \in {"running", "append", "prune", "prune_replace", "stopped", "failed"}
    /\ pending \in Seq(1..captured) /\ online \in BOOLEAN
    /\ FileOK(file, captured) /\ (tmp # Nobody => FileOK(tmp, captured))
    /\ now \in 0..MaxTime /\ captured \in 0..MaxCaptured
    /\ delivered \cup dropped \cup lost \subseteq 1..captured
    /\ crashes \in 0..MaxCrashes /\ reloads \in 0..MaxReloads

\* Each action keeps the types.
LEMMA CaptureTyped == ASSUME Typed, capture PROVE Typed'
<1>1. /\ captured' = captured + 1 /\ pending' = Append(pending, captured + 1)
      /\ captured < MaxCaptured
      /\ UNCHANGED <<life, online, file, tmp, pc, batch, chunk, stale, now, delivered,
                     dropped, lost, crashes, reloads>>
  BY DEF capture, flushVars
<1>2. captured \in Nat /\ captured' \in 0..MaxCaptured /\ captured + 1 \in 1..captured'
  BY <1>1, TypedParts, EdgeAssumption
<1>3. 1..captured \subseteq 1..captured'
  BY <1>1, <1>2
<1>4. \A s \in Seq(1..captured) : s \in Seq(1..captured')
  BY <1>3, SeqMonotonic
<1>5. pending' \in Seq(1..captured')
  <2>1. pending \in Seq(1..captured')
    BY <1>4 DEF Typed
  <2> QED
    BY <1>1, <1>2, <2>1
<1>6. FileOK(file, captured)' /\ (tmp # Nobody => FileOK(tmp, captured))'
  BY <1>1, <1>3 DEF Typed, FileOK
<1>7. FlushTypes'
  <2>1. batch' \in [Flushes -> Seq(1..captured')] /\ chunk' \in [Flushes -> Seq(1..captured')]
    BY <1>1, <1>4 DEF Typed, FlushTypes
  <2> QED
    BY <1>1, <2>1 DEF Typed, FlushTypes, Busy
<1>8. (delivered \cup dropped \cup lost \subseteq 1..captured)'
  BY <1>1, <1>3 DEF Typed
<1> QED
  BY <1>1, <1>2, <1>5, <1>6, <1>7, <1>8 DEF Typed

LEMMA FlushTyped == ASSUME Typed, NEW f \in Flushes, flush(f) PROVE Typed'
<1>1. /\ batch' = [batch EXCEPT ![f] = pending] /\ pending' = <<>> /\ At(f, "peek")
      /\ UNCHANGED <<life, online, file, tmp, chunk, stale, now, captured, delivered,
                     dropped, lost, crashes, reloads>>
  BY DEF flush, history
<1>2. pending \in Seq(1..captured) /\ FlushTypes
  BY DEF Typed
<1>3. chunk' = [chunk EXCEPT ![f] = chunk[f]] /\ chunk[f] \in Seq(1..captured) /\ Len(chunk[f]) <= Chunk
  BY <1>1, <1>2, SameChunk
<1>4. "peek" \in Labels /\ "peek" # "idle"
  BY DEF Labels
<1>5. FlushTypes'
  BY <1>1, <1>2, <1>3, <1>4, LabelStep
<1>6. RestTyped'
  BY <1>1 DEF Typed, RestTyped
<1> QED
  BY <1>5, <1>6 DEF Typed, RestTyped

LEMMA PeekTyped == ASSUME Typed, NEW f \in Flushes, peek(f) PROVE Typed'
<1>1. /\ UNCHANGED <<life, pending, online, file, tmp, now, captured, delivered,
                     dropped, lost, crashes, reloads>>
      /\ FlushTypes
  BY DEF peek, history, Typed
<1>2. RestTyped'
  BY <1>1 DEF Typed, RestTyped
<1>3. peeked \in Seq(1..captured) /\ Len(peeked) <= Chunk
  BY PeekReadsTheFront, TypedParts
<1>4. {"push_chunk", "push_batch"} \subseteq Labels \ {"idle"}
  BY DEF Labels
<1>5. FlushTypes'
  <2>1. CASE Finish(f)
    BY <1>1, <2>1, FinishStep
  <2>2. CASE At(f, "push_chunk") /\ chunk' = [chunk EXCEPT ![f] = peeked] /\ UNCHANGED <<batch, stale>>
    BY <1>1, <1>3, <1>4, <2>2, SameChunk, LabelStep
  <2>3. CASE At(f, "push_batch") /\ UNCHANGED <<batch, chunk, stale>>
    BY <1>1, <1>4, <2>3, SameChunk, LabelStep
  <2> QED
    BY <2>1, <2>2, <2>3 DEF peek
<1> QED
  BY <1>2, <1>5 DEF Typed, RestTyped

\* A push settles captured rows only.
LEMMA PushedTypes ==
    ASSUME Typed, NEW rows, ToSet(rows) \subseteq 1..captured, NEW outcome, Pushed(rows, outcome)
    PROVE  /\ (delivered \cup dropped \cup lost \subseteq 1..captured)'
           /\ UNCHANGED <<captured, lost, crashes, reloads>>
BY DEF Pushed, Typed

LEMMA PushChunkTyped == ASSUME Typed, NEW f \in Flushes, push_chunk(f) PROVE Typed'
<1>1. PICK outcome \in Outcomes :
         /\ Pushed(chunk[f], outcome)
         /\ \/ /\ At(f, "commit")
               /\ UNCHANGED <<online, batch, chunk, stale>>
            \/ /\ At(f, "append")
               /\ UNCHANGED <<online, batch, chunk, stale>>
            \/ Finish(f) /\ set_online(f, FALSE)
            \/ Finish(f) /\ UNCHANGED online
  BY DEF push_chunk
<1>2. UNCHANGED <<life, pending, file, tmp, now>>
  BY DEF push_chunk
<1>3. /\ (delivered \cup dropped \cup lost \subseteq 1..captured)'
      /\ UNCHANGED <<captured, lost, crashes, reloads>>
  BY <1>1, TypedParts, PushedTypes
<1>4. {"commit", "append"} \subseteq Labels \ {"idle"} /\ FlushTypes
  BY DEF Labels, Typed
<1>5. FlushTypes'
  <2>1. CASE Finish(f)
    BY <1>3, <1>4, <2>1, FinishStep
  <2>2. CASE At(f, "commit") /\ UNCHANGED <<batch, chunk, stale>>
    BY <1>3, <1>4, <2>2, SameChunk, LabelStep
  <2>3. CASE At(f, "append") /\ UNCHANGED <<batch, chunk, stale>>
    BY <1>3, <1>4, <2>3, SameChunk, LabelStep
  <2> QED
    BY <1>1, <2>1, <2>2, <2>3
<1>6. online' \in BOOLEAN
  BY <1>1 DEF set_online, Typed
<1> QED
  BY <1>2, <1>3, <1>5, <1>6 DEF Typed

LEMMA CommitTyped == ASSUME Typed, NEW f \in Flushes, commit(f) PROVE Typed'
<1>1. /\ tmp' = committed(Len(chunk[f])) /\ At(f, "commit_replace")
      /\ UNCHANGED <<life, pending, online, file, batch, chunk, stale, now, captured, delivered,
                     dropped, lost, crashes, reloads>>
      /\ FlushTypes
  BY DEF commit, history, Typed
<1>2. FileOK(tmp', captured)
  BY <1>1, TypedParts, CommitTakesTheFront
<1>3. "commit_replace" \in Labels /\ "commit_replace" # "idle"
  BY DEF Labels
<1>4. FlushTypes'
  BY <1>1, <1>3, SameChunk, LabelStep
<1>5. RestTyped'
  BY <1>1, <1>2 DEF Typed, RestTyped
<1> QED
  BY <1>4, <1>5 DEF Typed, RestTyped

LEMMA CommitReplaceTyped == ASSUME Typed, NEW f \in Flushes, commit_replace(f) PROVE Typed'
<1>1. /\ UNCHANGED <<life, pending, online, now, captured, delivered,
                     dropped, lost, crashes, reloads>>
      /\ FlushTypes
  BY DEF commit_replace, history, Typed
<1>2. "peek" \in Labels /\ "peek" # "idle"
  BY DEF Labels
<1>3. CASE /\ tmp # Nobody /\ file' = tmp /\ tmp' = Nobody /\ At(f, "peek")
           /\ chunk' = [chunk EXCEPT ![f] = <<>>] /\ UNCHANGED <<batch, stale>>
  <2>1. FlushTypes'
    BY <1>1, <1>2, <1>3, SameChunk, LabelStep
  <2>2. RestTyped'
    BY <1>1, <1>3 DEF Typed, RestTyped
  <2> QED
    BY <2>1, <2>2 DEF Typed, RestTyped
<1>4. CASE Finish(f) /\ UNCHANGED <<file, tmp>>
  <2>1. FlushTypes'
    BY <1>1, <1>4, FinishStep
  <2>2. RestTyped'
    BY <1>1, <1>4 DEF Typed, RestTyped
  <2> QED
    BY <2>1, <2>2 DEF Typed, RestTyped
<1> QED
  BY <1>3, <1>4 DEF commit_replace

LEMMA PushBatchTyped == ASSUME Typed, NEW f \in Flushes, push_batch(f) PROVE Typed'
<1>1. PICK outcome \in Outcomes :
         /\ Pushed(batch[f], outcome)
         /\ \/ set_online(f, TRUE) /\ Finish(f)
            \/ Finish(f) /\ UNCHANGED online
            \/ At(f, "append") /\ UNCHANGED <<online, batch, chunk, stale>>
  BY DEF push_batch
<1>2. UNCHANGED <<life, pending, file, tmp, now>>
  BY DEF push_batch
<1>3. /\ (delivered \cup dropped \cup lost \subseteq 1..captured)'
      /\ UNCHANGED <<captured, lost, crashes, reloads>>
  BY <1>1, TypedParts, PushedTypes
<1>4. "append" \in Labels \ {"idle"} /\ FlushTypes
  BY DEF Labels, Typed
<1>5. FlushTypes'
  <2>1. CASE Finish(f)
    BY <1>3, <1>4, <2>1, FinishStep
  <2>2. CASE At(f, "append") /\ UNCHANGED <<batch, chunk, stale>>
    BY <1>3, <1>4, <2>2, SameChunk, LabelStep
  <2> QED
    BY <1>1, <2>1, <2>2
<1>6. online' \in BOOLEAN
  BY <1>1 DEF set_online, Typed
<1> QED
  BY <1>2, <1>3, <1>5, <1>6 DEF Typed

\* So does what is glued.
LEMMA AppendTypes ==
    ASSUME Typed, NEW rows \in Seq(1..captured), file' = appended(file, rows),
           lost' = lost \cup Glued(file, rows)
    PROVE  FileOK(file', captured) /\ lost' \subseteq 1..captured
<1>1. /\ FileOK(file, captured) /\ captured \in 0..MaxCaptured /\ now \in 0..MaxTime
      /\ lost \subseteq 1..captured
  BY DEF Typed
<1>2. FileOK(file', captured) /\ Glued(file, rows) \subseteq RowsOf(file.lines) \cup ToSet(rows)
  BY <1>1, AppendKeepsRows
<1>3. RowsOf(file.lines) \subseteq 1..captured /\ ToSet(rows) \subseteq 1..captured
  BY TypedParts, Elements
<1> QED
  BY <1>1, <1>2, <1>3

LEMMA AppendTyped == ASSUME Typed, NEW f \in Flushes, append(f) PROVE Typed'
<1>1. /\ file' = appended(file, batch[f]) /\ lost' = lost \cup Glued(file, batch[f])
      /\ batch' = [batch EXCEPT ![f] = <<>>] /\ At(f, "prune")
      /\ UNCHANGED <<life, pending, online, tmp, chunk, stale, now,
                     captured, delivered, dropped, crashes, reloads>>
      /\ FlushTypes
  BY DEF append, Typed
<1>2. FileOK(file', captured) /\ lost' \subseteq 1..captured
  BY <1>1, TypedParts, AppendTypes
<1>3. "prune" \in Labels /\ "prune" # "idle"
  BY DEF Labels
<1>4. FlushTypes'
  BY <1>1, <1>3, SameChunk, LabelStep
<1>5. RestTyped'
  BY <1>1, <1>2 DEF Typed, RestTyped
<1> QED
  BY <1>4, <1>5 DEF Typed, RestTyped

\* prune leaves a file.
LEMMA PrunedTypes ==
    ASSUME Typed
    PROVE  FileOK(pruned, captured) /\ RowsOf(file.lines) \subseteq 1..captured
BY TypedParts, PruneTakesTheOldest DEF Typed

LEMMA PruneTyped == ASSUME Typed, NEW f \in Flushes, prune(f) PROVE Typed'
<1>1. /\ UNCHANGED <<life, pending, file, now, captured, delivered, lost, crashes, reloads>>
      /\ FlushTypes
  BY DEF prune, Typed
<1>2. "prune_replace" \in Labels /\ "prune_replace" # "idle"
  BY DEF Labels
<1>3. CASE /\ tmp' = pruned /\ dropped' = dropped \cup (RowsOf(file.lines) \ RowsOf(pruned.lines))
           /\ At(f, "prune_replace") /\ UNCHANGED <<online, batch, chunk, stale>>
  <2>1. FlushTypes'
    BY <1>1, <1>2, <1>3, SameChunk, LabelStep
  <2>2. RestTyped'
    BY <1>1, <1>3, PrunedTypes DEF Typed, RestTyped
  <2> QED
    BY <2>1, <2>2 DEF Typed, RestTyped
<1>4. CASE set_online(f, FALSE) /\ Finish(f) /\ UNCHANGED <<tmp, dropped>>
  <2>1. FlushTypes'
    BY <1>1, <1>4, FinishStep
  <2>2. online' \in BOOLEAN
    BY <1>4 DEF set_online, Typed
  <2>3. RestTyped'
    BY <1>1, <1>4, <2>2 DEF Typed, RestTyped
  <2> QED
    BY <2>1, <2>3 DEF Typed, RestTyped
<1> QED
  BY <1>3, <1>4 DEF prune

LEMMA PruneReplaceTyped == ASSUME Typed, NEW f \in Flushes, prune_replace(f) PROVE Typed'
<1>1. /\ UNCHANGED <<life, pending, now, captured, delivered, dropped, lost, crashes, reloads>>
      /\ FlushTypes /\ Finish(f)
  BY DEF prune_replace, Typed, history
<1>2. FlushTypes'
  BY <1>1, FinishStep
<1>3. online' \in BOOLEAN /\ FileOK(file', captured) /\ (tmp' # Nobody => FileOK(tmp', captured))
  BY DEF prune_replace, set_online, Typed
<1>4. RestTyped'
  BY <1>1, <1>3 DEF Typed, RestTyped
<1> QED
  BY <1>2, <1>4 DEF Typed, RestTyped

LEMMA UnloadTyped == ASSUME Typed, async_stop \/ unload \/ tick PROVE Typed'
<1>1. CASE async_stop
  BY <1>1, EdgeAssumption DEF async_stop, Typed, FlushTypes, Busy
<1>2. CASE tick
  BY <1>2, EdgeAssumption DEF tick, Typed, FlushTypes, Busy, flushVars, history
<1>3. CASE stop_append
  <2>1. FileOK(file', captured) /\ lost' \subseteq 1..captured
    BY <1>3, AppendTypes DEF stop_append, Typed
  <2> QED
    BY <1>3, <2>1 DEF stop_append, Typed, FlushTypes, Busy, flushVars
<1>4. CASE stop_prune
  <2>1. pending' \in Seq(1..captured')
    <3>1. pending' \in {pending, <<>>} /\ captured' = captured
      BY <1>4 DEF stop_prune
    <3>2. pending \in Seq(1..captured) /\ <<>> \in Seq(1..captured)
      BY DEF Typed
    <3> QED
      BY <3>1, <3>2
  <2> QED
    BY <1>4, <2>1, PrunedTypes DEF stop_prune, Typed, FlushTypes, Busy, flushVars
<1>5. CASE setup
  <2>1. pending' \in Seq(1..captured')
    BY <1>5 DEF setup
  <2> QED
    BY <1>5, <2>1 DEF setup, Typed, FlushTypes, Busy, flushVars, history
<1>6. CASE stop_replace
  <2>1. pending' \in Seq(1..captured')
    <3>1. pending' \in {pending, <<>>} /\ captured' = captured
      BY <1>6 DEF stop_replace, history
    <3>2. pending \in Seq(1..captured) /\ <<>> \in Seq(1..captured)
      BY DEF Typed
    <3> QED
      BY <3>1, <3>2
  <2> QED
    BY <1>6, <2>1 DEF stop_replace, Typed, FlushTypes, Busy, flushVars, history
<1> QED
  BY <1>1, <1>2, <1>3, <1>4, <1>5, <1>6 DEF unload

\* What a crash leaves of the file.
LEMMA CrashedFile ==
    ASSUME Typed, crash
    PROVE  \/ file' = file
           \/ \E rows \in Written : \E k \in 1..Len(rows), whole \in BOOLEAN :
                file' = Cut(appended(file, SubSeq(rows, 1, k)), whole)
BY DEF crash, Cut

\* What a job may be writing is the batch of a flush, or the spill.
LEMMA WrittenRows ==
    ASSUME Typed, NEW rows \in Written
    PROVE  /\ rows \in Seq(1..captured)
           /\ \/ \E f \in Flushes : pc[f] = "append" /\ rows = batch[f]
              \/ life = "append" /\ rows = pending
<1>1. CASE \E f \in Flushes : pc[f] = "append" /\ rows = batch[f]
  BY <1>1, TypedParts
<1>2. CASE life = "append" /\ rows = pending
  BY <1>2 DEF Typed
<1> QED
  BY <1>1, <1>2 DEF Written

LEMMA CrashTyped == ASSUME Typed, crash PROVE Typed'
<1>1. /\ life' = "running" /\ pending' = <<>> /\ online' = TRUE
      /\ pc' = [f \in Flushes |-> "idle"]
      /\ batch' = [f \in Flushes |-> <<>>] /\ chunk' = [f \in Flushes |-> <<>>]
      /\ stale' = {} /\ crashes < MaxCrashes /\ crashes' = crashes + 1
      /\ UNCHANGED <<tmp, now, captured, delivered, dropped, reloads>>
      /\ lost' = lost \cup ((RowsOf(file.lines) \cup InMemory) \ RowsOf(file'.lines))
  BY DEF crash
<1>2. FileOK(file', captured)
  <2>1. CASE file' = file
    BY <2>1 DEF Typed
  <2>2. ASSUME NEW rows \in Written, NEW k \in 1..Len(rows), NEW whole \in BOOLEAN,
               file' = Cut(appended(file, SubSeq(rows, 1, k)), whole)
        PROVE  FileOK(file', captured)
    <3>1. SubSeq(rows, 1, k) \in Seq(1..captured) /\ SubSeq(rows, 1, k) # <<>>
      BY TypedParts, WrittenRows, FlushedRows
    <3>2. /\ FileOK(appended(file, SubSeq(rows, 1, k)), captured)
          /\ appended(file, SubSeq(rows, 1, k)).lines # <<>>
      BY <3>1, TypedParts, AppendKeepsRows DEF Typed
    <3> QED
      BY <2>2, <3>2, CutKeepsTheRest
  <2> QED
    BY <2>1, <2>2, CrashedFile
<1>3. RowsOf(file.lines) \subseteq 1..captured /\ InMemory \subseteq 1..captured
  BY TypedParts DEF InMemory, InBatches
<1>4. (delivered \cup dropped \cup lost \subseteq 1..captured)'
  BY <1>1, <1>3 DEF Typed
<1>5. FlushTypes'
  <2>1. <<>> \in Seq(1..captured) /\ Len(<<>>) <= Chunk /\ "idle" \in Labels
    BY EdgeAssumption DEF Labels
  <2> QED
    BY <1>1, <2>1 DEF FlushTypes, Busy
<1>6. crashes' \in 0..MaxCrashes
  BY <1>1, EdgeAssumption DEF Typed
<1>7. pending' \in Seq(1..captured')
  BY <1>1
<1> QED
  BY <1>1, <1>2, <1>4, <1>5, <1>6, <1>7 DEF Typed

LEMMA InitTyped == ASSUME Init PROVE Typed
<1>1. FileOK(file, captured)
  <2>1. file \in File /\ ~file.open
    BY DEF Init, Empty, File
  <2>2. AllRows(file.lines) = {}
    BY DEF Init, Empty, AllRows
  <2> QED
    BY <2>1, <2>2 DEF FileOK
<1>2. FlushTypes
  <2>1. <<>> \in Seq(1..captured) /\ Len(<<>>) <= Chunk /\ "idle" \in Labels
    BY EdgeAssumption DEF Labels
  <2> QED
    BY <2>1 DEF Init, FlushTypes, Busy
<1>3. RestTyped
  BY <1>1, EdgeAssumption DEF Init, RestTyped
<1> QED
  BY <1>2, <1>3 DEF Typed, RestTyped

LEMMA StepTyped == ASSUME Typed, [Next]_vars PROVE Typed'
<1>1. CASE capture \/ crash
  BY <1>1, CaptureTyped, CrashTyped
<1>2. CASE tick \/ async_stop \/ unload
  BY <1>2, UnloadTyped
<1>3. ASSUME NEW f \in Flushes, flush(f) \/ step(f) PROVE Typed'
  BY <1>3, FlushTyped, PeekTyped, PushChunkTyped, CommitTyped, CommitReplaceTyped,
     PushBatchTyped, AppendTyped, PruneTyped, PruneReplaceTyped DEF step
<1>4. CASE UNCHANGED vars
  BY <1>4 DEF vars, flushVars, history, Typed, FlushTypes, Busy
<1> QED
  BY <1>1, <1>2, <1>3, <1>4 DEF Next

\* Every variable keeps the shape its part of the code gives it, under any
\* overlap of flushes, and no file has a row that was not captured.
THEOREM EdgeTypes == Spec => []TypeOK
<1>1. Init => Typed
  BY InitTyped
<1>2. Typed /\ [Next]_vars => Typed'
  BY StepTyped
<1>3. Typed => TypeOK
  <2>1. SUFFICES ASSUME Typed PROVE TypeOK
    OBVIOUS
  <2>2. \A f \in Flushes : Unsent(batch[f]) /\ Unsent(chunk[f])
    BY <2>1, TypedParts DEF Unsent
  <2>3. Unsent(pending)
    BY <2>1, TypedParts DEF Unsent
  <2>4. \A f \in {file} \cup ({tmp} \ {Nobody}) : f \in File /\ (f.open => f.lines # <<>>)
    BY <2>1 DEF Typed, FileOK
  <2> QED
    BY <2>1, <2>2, <2>3, <2>4 DEF Typed, FlushTypes, TypeOK
<1> QED
  BY <1>1, <1>2, <1>3, PTL DEF Spec

--------------------------------------------------------------------------------
(* One flush at a time.                                                    *)

\* The flush that runs is alone, and the entry is loaded.
LEMMA OneFlushFacts ==
    ASSUME OneFlush, NEW f \in Flushes, pc[f] # "idle"
    PROVE  life = "running" /\ \A g \in Flushes : g # f => pc[g] = "idle"
BY DEF OneFlush

\* A step of the one flush, or the start of it.
LEMMA OneFlushStep ==
    ASSUME Typed, OneFlush, NEW f \in Flushes, \A g \in Flushes : g # f => pc[g] = "idle",
           life = "running", UNCHANGED life, NEW label, pc' = [pc EXCEPT ![f] = label],
           stale' \subseteq stale
    PROVE  OneFlush' /\ pc'[f] = label /\ \A g \in Flushes : g # f => pc'[g] = "idle"
<1>1. pc \in [Flushes -> Labels]
  BY DEF Typed, FlushTypes
<1>2. \A g \in Flushes : pc'[g] = IF g = f THEN label ELSE pc[g]
  BY <1>1
<1> QED
  BY <1>2 DEF OneFlush

\* What any step of a flush does, and leaves alone.
LEMMA FlushMoves ==
    ASSUME Typed, OneFlush, NEW f \in Flushes, step(f)
    PROVE  /\ OneFlush' /\ pc[f] # "idle" /\ life = "running"
           /\ \A g \in Flushes : g # f => pc'[g] = "idle"
           /\ UNCHANGED <<life, pending, now, captured, crashes, reloads>>
<1>1. /\ UNCHANGED <<life, pending, now, captured, crashes, reloads>>
      /\ stale' \in {stale, stale \ {f}}
      /\ \E label \in Labels : pc' = [pc EXCEPT ![f] = label]
      /\ pc[f] # "idle"
  <2>1. CASE peek(f)
    BY <2>1 DEF peek, Finish, At, Labels, history
  <2>2. CASE push_chunk(f)
    BY <2>2 DEF push_chunk, Pushed, Finish, At, Labels
  <2>3. CASE commit(f)
    BY <2>3 DEF commit, At, Labels, history
  <2>4. CASE commit_replace(f)
    BY <2>4 DEF commit_replace, Finish, At, Labels, history
  <2>5. CASE push_batch(f)
    BY <2>5 DEF push_batch, Pushed, Finish, At, Labels
  <2>6. CASE append(f)
    BY <2>6 DEF append, At, Labels
  <2>7. CASE prune(f)
    BY <2>7 DEF prune, Finish, At, Labels
  <2>8. CASE prune_replace(f)
    BY <2>8 DEF prune_replace, Finish, At, Labels, history
  <2> QED
    BY <2>1, <2>2, <2>3, <2>4, <2>5, <2>6, <2>7, <2>8 DEF step
<1>2. PICK label : pc' = [pc EXCEPT ![f] = label]
  BY <1>1
<1>3. stale' \subseteq stale
  BY <1>1
<1> QED
  BY <1>1, <1>2, <1>3, OneFlushFacts, OneFlushStep

\* The timer starts the one flush.
LEMMA FlushStarts ==
    ASSUME ~Overlap, Typed, OneFlush, NEW f \in Flushes, flush(f)
    PROVE  /\ OneFlush' /\ \A g \in Flushes : g # f => pc'[g] = "idle"
           /\ pc'[f] = "peek" /\ batch'[f] = pending
<1>1. /\ life = "running" /\ Busy = {} /\ pc' = [pc EXCEPT ![f] = "peek"]
      /\ batch' = [batch EXCEPT ![f] = pending] /\ UNCHANGED <<life, stale>>
  BY DEF flush, At
<1>2. \A g \in Flushes : pc[g] = "idle"
  BY <1>1 DEF Busy
<1>3. batch'[f] = pending
  BY <1>1 DEF Typed, FlushTypes
<1> QED
  BY <1>1, <1>2, <1>3, OneFlushStep

\* Facts about no rows.
LEMMA NoRowsAtAll ==
    /\ Ascending(<<>>) /\ ToSet(<<>>) = {}
    /\ \A A : Before(A, {}) /\ Before({}, A)
<1>1. Ascending(<<>>)
  BY DEF Ascending
<1>2. ToSet(<<>>) = {}
  BY DEF ToSet
<1> QED
  BY <1>1, <1>2 DEF Before

\* The other actions leave one flush at most, and none while unloading.
LEMMA RestOneFlush ==
    ASSUME ~Overlap, Typed, OneFlush,
           capture \/ tick \/ async_stop \/ unload \/ crash \/ UNCHANGED vars
    PROVE  OneFlush'
<1>1. CASE capture
  BY <1>1 DEF capture, OneFlush, flushVars
<1>2. CASE tick
  BY <1>2 DEF tick, OneFlush, flushVars, history
<1>3. CASE async_stop
  BY <1>3 DEF async_stop, OneFlush, Busy
<1>4. CASE stop_append
  <2>1. /\ file' = appended(file, pending) /\ lost' = lost \cup Glued(file, pending)
        /\ life' = "prune" /\ life = "append" /\ UNCHANGED <<pending, flushVars>>
    BY <1>4 DEF stop_append
  <2>2. (RowsOf(file.lines) \cup ToSet(pending)) \ Glued(file, pending) \subseteq RowsOf(file'.lines)
    BY <2>1, AppendKeepsRows DEF Typed
  <2>3. ToSet(pending) \subseteq RowsOf(file'.lines) \cup lost'
    BY <2>1, <2>2
  <2> QED
    BY <2>1, <2>3 DEF OneFlush, flushVars
<1>5. CASE stop_prune
  BY <1>5 DEF stop_prune, OneFlush, flushVars
<1>6. CASE setup
  BY <1>6 DEF setup, OneFlush, flushVars
<1>7. CASE crash
  BY <1>7 DEF crash, OneFlush
<1>8. CASE UNCHANGED vars
  BY <1>8 DEF vars, OneFlush, flushVars, history
<1>9. CASE stop_replace
  BY <1>9 DEF stop_replace, OneFlush, flushVars
<1> QED
  BY <1>1, <1>2, <1>3, <1>4, <1>5, <1>6, <1>7, <1>8, <1>9 DEF unload

LEMMA OneFlushKept ==
    ASSUME ~Overlap, Typed, OneFlush, [Next]_vars
    PROVE  OneFlush'
BY RestOneFlush, FlushMoves, FlushStarts DEF Next

--------------------------------------------------------------------------------
(* The rows in memory are later than those in the file, and in order.      *)

\* A flush that is over has nothing to keep in order.
LEMMA IdleOrder ==
    ASSUME FlushTypes', NEW g \in Flushes, pc'[g] = "idle"
    PROVE  FlushOrder(g)'
<1>1. batch'[g] = <<>>
  BY DEF FlushTypes
<1> QED
  BY <1>1, NoRowsAtAll DEF FlushOrder

\* Finish ends the flush.
LEMMA EndOrder ==
    ASSUME Typed, NEW f \in Flushes, Finish(f)
    PROVE  pc'[f] = "idle"
BY DEF Typed, FlushTypes, Finish, At

\* Each step of a flush keeps the order.
LEMMA PeekOrder ==
    ASSUME Typed, Ordered, NEW f \in Flushes, peek(f), Typed'
    PROVE  FileOrder' /\ FlushOrder(f)'
<1>1. UNCHANGED <<life, pending, file, tmp, now, delivered, dropped, crashes>>
  BY DEF peek, history
<1>2. FileOrder'
  BY <1>1 DEF Ordered, FileOrder
<1>3. pc[f] = "peek" /\ FlushOrder(f)
  BY DEF peek, Ordered
<1>4. CASE Finish(f)
  BY <1>2, <1>4, EndOrder, IdleOrder DEF Typed
<1>5. CASE At(f, "push_chunk") /\ chunk' = [chunk EXCEPT ![f] = peeked] /\ UNCHANGED batch
  <2>1. pc'[f] = "push_chunk" /\ chunk'[f] = peeked /\ peeked' = peeked /\ UNCHANGED batch
    BY <1>1, <1>5 DEF Typed, FlushTypes, At, peeked
  <2>2. FlushOrder(f)'
    BY <1>1, <1>3, <2>1 DEF FlushOrder
  <2> QED
    BY <1>2, <2>2
<1>6. CASE peeked = <<>> /\ batch[f] # <<>> /\ At(f, "push_batch") /\ UNCHANGED batch
  <2>1. pc'[f] = "push_batch" /\ RowsOf(file.lines) = {}
    BY <1>6, PeekReadsTheFront, TypedParts DEF Typed, FlushTypes, At
  <2>2. FlushOrder(f)'
    BY <1>1, <1>3, <1>6, <2>1 DEF FlushOrder
  <2> QED
    BY <1>2, <2>2
<1> QED
  BY <1>4, <1>5, <1>6 DEF peek

\* Rows that come before others are none of them.
LEMMA EarlierAreOthers ==
    ASSUME NEW A \in SUBSET Nat, NEW B, Before(A, B)
    PROVE  A \cap B = {}
<1>1. SUFFICES ASSUME NEW r \in A, r \in B PROVE FALSE
  OBVIOUS
<1>2. r \in Nat /\ r < r
  BY <1>1 DEF Before
<1> QED
  BY <1>2

\* What is pushed is neither pending nor, for a chunk, of the batch.
LEMMA PushedOrder ==
    ASSUME Typed, Ordered, life = "running", NEW f \in Flushes,
           NEW rows, NEW outcome, Pushed(rows, outcome),
           ToSet(rows) \subseteq RowsOf(file.lines) \/ rows = batch[f],
           UNCHANGED <<life, pending, file, tmp, now, crashes>>
    PROVE  /\ FileOrder'
           /\ ToSet(rows) \subseteq RowsOf(file.lines) /\ ToSet(batch[f]) \cap delivered = {}
                => ToSet(batch[f]) \cap delivered' = {}
           /\ delivered \subseteq delivered' /\ dropped \subseteq dropped'
<1>1. /\ delivered' \subseteq delivered \cup ToSet(rows)
      /\ delivered \subseteq delivered' /\ dropped \subseteq dropped'
  BY DEF Pushed
<1>2. /\ RowsOf(file.lines) \subseteq AllRows(file.lines) /\ RowsOf(file.lines) \subseteq Nat
      /\ ToSet(batch[f]) \subseteq Nat
  <2>1. 1..captured \subseteq Nat
    OBVIOUS
  <2> QED
    BY <2>1, RowsAreRows, TypedParts
<1>3. /\ Before(AllRows(file.lines), ToSet(pending)) /\ Before(AllRows(file.lines), ToSet(batch[f]))
      /\ Before(ToSet(batch[f]), ToSet(pending))
  BY DEF Ordered, FileOrder, FlushOrder
<1>4. /\ Before(RowsOf(file.lines), ToSet(pending)) /\ Before(RowsOf(file.lines), ToSet(batch[f]))
  BY <1>2, <1>3 DEF Before
<1>5. /\ RowsOf(file.lines) \cap ToSet(pending) = {} /\ RowsOf(file.lines) \cap ToSet(batch[f]) = {}
      /\ ToSet(batch[f]) \cap ToSet(pending) = {}
  BY <1>2, <1>3, <1>4, EarlierAreOthers
<1>6. ToSet(pending) \cap delivered' = {}
  BY <1>1, <1>5 DEF Ordered, FileOrder
<1>7. FileOrder'
  BY <1>6 DEF Ordered, FileOrder
<1> QED
  BY <1>1, <1>5, <1>7

LEMMA PushChunkOrder ==
    ASSUME Typed, Ordered, life = "running", NEW f \in Flushes, push_chunk(f), Typed'
    PROVE  FileOrder' /\ FlushOrder(f)'
<1>1. PICK outcome \in Outcomes :
         /\ Pushed(chunk[f], outcome)
         /\ \/ /\ outcome \in {"ok", "refused"} /\ At(f, "commit")
               /\ UNCHANGED <<batch, chunk>>
            \/ /\ At(f, "append")
               /\ UNCHANGED <<batch, chunk>>
            \/ Finish(f)
  BY DEF push_chunk
<1>2. UNCHANGED <<life, pending, file, tmp, now, crashes>>
  BY <1>1 DEF push_chunk, Pushed
<1>3. pc[f] = "push_chunk" /\ FlushOrder(f) /\ chunk[f] = peeked
  BY DEF push_chunk, Ordered, FlushOrder
<1>4. ToSet(chunk[f]) \subseteq RowsOf(file.lines) /\ ToSet(batch[f]) \cap delivered = {}
  BY <1>3, PeekReadsTheFront, TypedParts DEF FlushOrder
<1>5. FileOrder' /\ ToSet(batch[f]) \cap delivered' = {}
  BY <1>1, <1>2, <1>4, PushedOrder
<1>6. CASE Finish(f)
  BY <1>5, <1>6, EndOrder, IdleOrder DEF Typed
<1>7. CASE outcome \in {"ok", "refused"} /\ At(f, "commit") /\ UNCHANGED <<batch, chunk>>
  <2>1. pc'[f] = "commit" /\ peeked' = peeked
    BY <1>2, <1>7 DEF Typed, FlushTypes, At, peeked
  <2>2. ToSet(chunk'[f]) \subseteq delivered' \cup dropped'
    BY <1>1, <1>7 DEF Pushed
  <2>3. FlushOrder(f)'
    BY <1>2, <1>3, <1>5, <1>7, <2>1, <2>2 DEF FlushOrder
  <2> QED
    BY <1>5, <2>3
<1>8. CASE At(f, "append") /\ UNCHANGED <<batch, chunk>>
  <2>1. pc'[f] = "append"
    BY <1>8 DEF Typed, FlushTypes, At
  <2>2. FlushOrder(f)'
    BY <1>2, <1>3, <1>8, <2>1 DEF FlushOrder
  <2> QED
    BY <1>5, <2>2
<1> QED
  BY <1>1, <1>6, <1>7, <1>8

LEMMA CommitOrder ==
    ASSUME Typed, Ordered, NEW f \in Flushes, commit(f), Typed'
    PROVE  FileOrder' /\ FlushOrder(f)'
<1>1. /\ tmp' = committed(Len(chunk[f])) /\ At(f, "commit_replace") /\ pc[f] = "commit"
      /\ UNCHANGED <<life, pending, file, batch, chunk, now, captured, delivered, dropped, crashes>>
  BY DEF commit, history
<1>2. FlushOrder(f) /\ chunk[f] = peeked /\ ToSet(chunk[f]) \subseteq delivered \cup dropped
  BY <1>1 DEF Ordered, FlushOrder
<1>3. Tidy(file, now) /\ InOrder(file.lines)
  BY DEF Ordered, FileOrder, Tidy
<1>4. /\ FileOK(tmp', captured) /\ Remains(file, tmp') /\ Tidy(tmp', now)
      /\ tmp'.open => file.open
      /\ RowsOf(file.lines) \ RowsOf(tmp'.lines)
           \subseteq {file.lines[p].row : p \in {q \in Intact(file.lines) : q <= Len(chunk[f])}}
  BY <1>1, <1>3, TypedParts, CommitTakesTheFront
<1>5. tmp' # Nobody
  BY <1>4, NobodyIsNoFile DEF FileOK
<1>6. RowsOf(file.lines) \ RowsOf(tmp'.lines) \subseteq delivered \cup dropped
  <2>1. \A p \in Intact(file.lines) : p <= Len(peeked) => file.lines[p].row \in ToSet(peeked)
    BY PeekReadsTheFront, TypedParts
  <2> QED
    BY <1>2, <1>4, <2>1
<1>7. FileOrder'
  BY <1>1, <1>4 DEF Ordered, FileOrder
<1>8. pc'[f] = "commit_replace" /\ peeked' = peeked
  BY <1>1 DEF Typed, FlushTypes, At, peeked
<1>9. FlushOrder(f)'
  BY <1>1, <1>2, <1>4, <1>5, <1>6, <1>8 DEF FlushOrder
<1> QED
  BY <1>7, <1>9

\* The file is replaced by what remains of it.
LEMMA ReplaceOrder ==
    ASSUME Typed, Ordered, NEW f \in Flushes, pc[f] \in {"commit_replace", "prune_replace"},
           file' = tmp, tmp' = Nobody,
           UNCHANGED <<life, pending, now, delivered, dropped, crashes>>
    PROVE  /\ FileOrder' /\ tmp # Nobody /\ Remains(file, tmp)
           /\ Before(AllRows(file'.lines), ToSet(batch[f]))
           /\ RowsOf(file.lines) \ RowsOf(tmp.lines) \subseteq delivered \cup dropped
<1>1. /\ FlushOrder(f) /\ tmp # Nobody /\ Tidy(tmp, now) /\ Remains(file, tmp)
      /\ RowsOf(file.lines) \ RowsOf(tmp.lines) \subseteq delivered \cup dropped
  BY DEF Ordered, FlushOrder
<1>2. AllRows(file'.lines) \subseteq AllRows(file.lines)
  BY <1>1 DEF Remains
<1>3. \A B : Before(AllRows(file.lines), B) => Before(AllRows(file'.lines), B)
  BY <1>2 DEF Before
<1>4. FileOrder'
  BY <1>1, <1>3 DEF Ordered, FileOrder
<1> QED
  BY <1>1, <1>3, <1>4 DEF FlushOrder

LEMMA CommitReplaceOrder ==
    ASSUME Typed, Ordered, NEW f \in Flushes, commit_replace(f), Typed'
    PROVE  FileOrder' /\ FlushOrder(f)'
<1>1. /\ pc[f] = "commit_replace" /\ FlushOrder(f)
      /\ UNCHANGED <<life, pending, now, delivered, dropped, crashes>>
  BY DEF commit_replace, history, Ordered
<1>2. /\ file' = tmp /\ tmp' = Nobody /\ At(f, "peek") /\ UNCHANGED batch
  BY <1>1 DEF commit_replace, FlushOrder
<1>3. FileOrder' /\ Before(AllRows(file'.lines), ToSet(batch[f]))
  BY <1>1, <1>2, ReplaceOrder
<1>4. pc'[f] = "peek"
  BY <1>2 DEF Typed, FlushTypes, At
<1>5. FlushOrder(f)'
  BY <1>1, <1>2, <1>3, <1>4 DEF FlushOrder
<1> QED
  BY <1>3, <1>5

LEMMA PushBatchOrder ==
    ASSUME Typed, Ordered, life = "running", NEW f \in Flushes, push_batch(f), Typed'
    PROVE  FileOrder' /\ FlushOrder(f)'
<1>1. PICK outcome \in Outcomes :
         /\ Pushed(batch[f], outcome)
         /\ Finish(f) \/ (At(f, "append") /\ UNCHANGED <<batch, chunk>>)
  BY DEF push_batch
<1>2. UNCHANGED <<life, pending, file, tmp, now, crashes>>
  BY <1>1 DEF push_batch, Pushed
<1>3. FileOrder' /\ FlushOrder(f)
  BY <1>1, <1>2, PushedOrder DEF Ordered
<1>4. CASE Finish(f)
  BY <1>3, <1>4, EndOrder, IdleOrder DEF Typed
<1>5. CASE At(f, "append") /\ UNCHANGED <<batch, chunk>>
  <2>1. pc'[f] = "append"
    BY <1>5 DEF Typed, FlushTypes, At
  <2>2. FlushOrder(f)'
    BY <1>2, <1>3, <1>5, <2>1 DEF FlushOrder
  <2> QED
    BY <1>3, <2>2
<1> QED
  BY <1>1, <1>4, <1>5

LEMMA AppendOrder ==
    ASSUME Typed, Ordered, life = "running", NEW f \in Flushes, append(f), Typed'
    PROVE  FileOrder' /\ FlushOrder(f)'
<1>1. /\ file' = appended(file, batch[f]) /\ batch' = [batch EXCEPT ![f] = <<>>]
      /\ At(f, "prune")
      /\ UNCHANGED <<life, pending, tmp, chunk, now, captured, delivered, dropped, crashes>>
  BY DEF append
<1>2. /\ Tidy(file, now) /\ Ascending(batch[f])
      /\ Before(AllRows(file.lines), ToSet(batch[f]))
      /\ Before(AllRows(file.lines), ToSet(pending)) /\ Before(ToSet(batch[f]), ToSet(pending))
  BY DEF Ordered, FileOrder, FlushOrder
<1>3. /\ AllRows(file'.lines) \subseteq AllRows(file.lines) \cup ToSet(batch[f])
      /\ file'.open => file.open
  BY <1>1, TypedParts, AppendKeepsRows DEF Typed
<1>4. Tidy(file', now)
  BY <1>1, <1>2, TypedParts, AppendKeepsOrder DEF Typed
<1>5. Before(AllRows(file'.lines), ToSet(pending))
  BY <1>2, <1>3 DEF Before
<1>6. FileOrder'
  BY <1>1, <1>3, <1>4, <1>5 DEF Ordered, FileOrder
<1>7. pc'[f] = "prune" /\ batch'[f] = <<>>
  BY <1>1 DEF Typed, FlushTypes, At
<1>8. FlushOrder(f)'
  BY <1>7, NoRowsAtAll DEF FlushOrder
<1> QED
  BY <1>6, <1>8

LEMMA PruneOrder ==
    ASSUME Typed, Ordered, NEW f \in Flushes, prune(f), Typed'
    PROVE  FileOrder' /\ FlushOrder(f)'
<1>1. UNCHANGED <<life, pending, file, now, captured, delivered, crashes>> /\ pc[f] = "prune"
  BY DEF prune
<1>2. CASE Finish(f) /\ UNCHANGED tmp
  <2>1. FileOrder'
    BY <1>1, <1>2 DEF Ordered, FileOrder
  <2> QED
    BY <1>2, <2>1, EndOrder, IdleOrder DEF Typed
<1>3. CASE /\ tmp' = pruned /\ dropped' = dropped \cup (RowsOf(file.lines) \ RowsOf(pruned.lines))
           /\ At(f, "prune_replace") /\ UNCHANGED batch
  <2>1. Tidy(file, now) /\ InOrder(file.lines)
    BY DEF Ordered, FileOrder, Tidy
  <2>2. /\ FileOK(tmp', captured) /\ Remains(file, tmp') /\ Tidy(tmp', now)
        /\ tmp'.open => file.open
    BY <1>3, <2>1, TypedParts, PruneTakesTheOldest DEF Typed
  <2>3. tmp' # Nobody
    BY <2>2, NobodyIsNoFile DEF FileOK
  <2>4. FileOrder'
    BY <1>1, <1>3, <2>2 DEF Ordered, FileOrder
  <2>5. pc'[f] = "prune_replace" /\ batch'[f] = <<>>
    BY <1>1, <1>3 DEF Ordered, FlushOrder, Typed, FlushTypes, At
  <2>6. RowsOf(file.lines) \ RowsOf(tmp'.lines) \subseteq delivered' \cup dropped'
    BY <1>3
  <2>7. FlushOrder(f)'
    BY <1>1, <2>2, <2>3, <2>5, <2>6, NoRowsAtAll DEF FlushOrder
  <2> QED
    BY <2>4, <2>7
<1> QED
  BY <1>2, <1>3 DEF prune

LEMMA PruneReplaceOrder ==
    ASSUME Typed, Ordered, NEW f \in Flushes, prune_replace(f), Typed'
    PROVE  FileOrder' /\ FlushOrder(f)'
<1>1. /\ pc[f] = "prune_replace" /\ FlushOrder(f) /\ Finish(f)
      /\ UNCHANGED <<life, pending, now, delivered, dropped, crashes>>
  BY DEF prune_replace, history, Ordered
<1>2. file' = tmp /\ tmp' = Nobody
  BY <1>1 DEF prune_replace, FlushOrder
<1>3. FileOrder'
  BY <1>1, <1>2, ReplaceOrder
<1> QED
  BY <1>1, <1>3, EndOrder, IdleOrder DEF Typed

LEMMA FlushStepOrder ==
    ASSUME Typed, OneFlush, Ordered, NEW f \in Flushes, step(f), Typed'
    PROVE  Ordered'
<1>1. life = "running" /\ \A g \in Flushes : g # f => pc'[g] = "idle"
  BY FlushMoves
<1>2. FileOrder' /\ FlushOrder(f)'
  BY <1>1, PeekOrder, PushChunkOrder, CommitOrder, CommitReplaceOrder, PushBatchOrder,
     AppendOrder, PruneOrder, PruneReplaceOrder DEF step
<1>3. ASSUME NEW g \in Flushes PROVE FlushOrder(g)'
  <2>1. CASE g = f
    BY <1>2, <2>1
  <2>2. CASE g # f
    BY <1>1, <2>2, IdleOrder DEF Typed
  <2> QED
    BY <2>1, <2>2
<1>4. SpillOrder'
  <2>1. life' = "running"
    BY <1>1, FlushMoves
  <2> QED
    BY <2>1 DEF SpillOrder
<1> QED
  BY <1>2, <1>3, <1>4 DEF Ordered

\* A row at the end of a sequence of earlier ones.
LEMMA AppendRow ==
    ASSUME NEW m \in Nat, NEW s \in Seq(1..m), NEW t, t = Append(s, m + 1)
    PROVE  /\ ToSet(t) = ToSet(s) \cup {m + 1}
           /\ Ascending(s) => Ascending(t)
<1>1. /\ t \in Seq(Nat) /\ s \in Seq(Nat) /\ Len(s) \in Nat /\ Len(t) = Len(s) + 1
      /\ \A i \in 1..Len(s) : t[i] = s[i] /\ s[i] \in 1..m
      /\ t[Len(s) + 1] = m + 1
  OBVIOUS
<1>2. ToSet(t) = {t[i] : i \in 1..Len(t)} /\ ToSet(s) = {s[i] : i \in 1..Len(s)}
  <2>1. t \in Seq(Nat) /\ s \in Seq(Nat)
    BY <1>1
  <2>2. \A u \in Seq(Nat) : ToSet(u) = {u[i] : i \in 1..Len(u)}
    BY Elements
  <2> QED
    BY <2>1, <2>2
<1>3. ToSet(t) = ToSet(s) \cup {m + 1}
  <2>1. \A r : r \in ToSet(t) => r \in ToSet(s) \cup {m + 1}
    BY <1>1, <1>2
  <2>2. \A r : r \in ToSet(s) \cup {m + 1} => r \in ToSet(t)
    BY <1>1, <1>2
  <2> QED
    BY <2>1, <2>2
<1>4. ASSUME Ascending(s) PROVE Ascending(t)
  <2>1. SUFFICES ASSUME NEW i \in 1..Len(t), NEW j \in 1..Len(t), i < j PROVE t[i] < t[j]
    BY DEF Ascending
  <2>2. i \in 1..Len(s) /\ t[i] = s[i] /\ s[i] \in 1..m
    BY <1>1, <2>1
  <2>3. CASE j \in 1..Len(s)
    BY <1>1, <1>4, <2>1, <2>2, <2>3 DEF Ascending
  <2>4. CASE j = Len(s) + 1
    BY <1>1, <2>2, <2>4
  <2> QED
    BY <1>1, <2>3, <2>4
<1> QED
  BY <1>3, <1>4

\* The other actions keep the order.
LEMMA CaptureOrder ==
    ASSUME Typed, Ordered, capture
    PROVE  Ordered'
<1>1. /\ pending' = Append(pending, captured + 1) /\ life = "running" /\ captured \in Nat
      /\ pending \in Seq(1..captured)
      /\ UNCHANGED <<life, file, tmp, flushVars, now, delivered, dropped, crashes>>
  BY DEF capture, Typed
<1>2. /\ ToSet(pending') = ToSet(pending) \cup {captured + 1}
      /\ Ascending(pending) => Ascending(pending')
  BY <1>1, AppendRow
<1>3. captured + 1 \notin delivered
  BY <1>1 DEF Typed
<1>4. \A r \in 1..captured : r < captured + 1
  BY <1>1
<1>5. AllRows(file.lines) \subseteq 1..captured
  BY DEF Typed, FileOK
<1>6. Before(AllRows(file.lines), ToSet(pending')) /\ ToSet(pending') \cap delivered' = {}
  <2>1. Before(AllRows(file.lines), ToSet(pending)) /\ ToSet(pending) \cap delivered = {}
    BY <1>1 DEF Ordered, FileOrder
  <2> QED
    BY <1>1, <1>2, <1>3, <1>4, <1>5, <2>1 DEF Before
<1>7. FileOrder'
  BY <1>1, <1>2, <1>6 DEF Ordered, FileOrder
<1>8. ASSUME NEW f \in Flushes PROVE FlushOrder(f)'
  <2>1. Before(ToSet(batch[f]), ToSet(pending)) /\ ToSet(batch[f]) \subseteq 1..captured
    BY TypedParts DEF Ordered, FlushOrder
  <2>2. Before(ToSet(batch[f]), ToSet(pending'))
    BY <1>2, <1>4, <2>1 DEF Before
  <2>3. peeked' = peeked /\ UNCHANGED <<file, tmp, pc, batch, chunk, now, delivered, dropped>>
    BY <1>1 DEF flushVars, peeked
  <2> QED
    BY <2>2, <2>3 DEF Ordered, FlushOrder
<1>9. SpillOrder'
  BY <1>1 DEF SpillOrder
<1> QED
  BY <1>7, <1>8, <1>9 DEF Ordered

LEMMA TickOrder ==
    ASSUME Typed, Ordered, tick
    PROVE  Ordered'
<1>1. /\ now \in Nat /\ now' = now + 1
      /\ UNCHANGED <<life, pending, online, file, tmp, flushVars, history>>
  BY DEF tick, Typed
<1>2. ASSUME NEW g, FileOK(g, captured), Tidy(g, now) PROVE Tidy(g, now')
  <2>1. g.lines \in Seq(Line)
    BY <1>2 DEF FileOK, File
  <2>2. \A i \in 1..Len(g.lines) : g.lines[i].ts \in Nat /\ g.lines[i].ts <= now
    BY <1>2, <2>1, LineFields DEF Tidy
  <2>3. \A i \in 1..Len(g.lines) : g.lines[i].ts <= now'
    BY <1>1, <2>2
  <2> QED
    BY <1>2, <2>3 DEF Tidy
<1>3. Tidy(file, now') /\ (tmp # Nobody /\ Tidy(tmp, now) => Tidy(tmp, now'))
  BY <1>2 DEF Typed, Ordered, FileOrder
<1>4. FileOrder'
  BY <1>1, <1>3 DEF Ordered, FileOrder, history, flushVars
<1>5. ASSUME NEW f \in Flushes PROVE FlushOrder(f)'
  <2>1. /\ peeked' = peeked
        /\ UNCHANGED <<pending, file, tmp, pc, batch, chunk, delivered, dropped>>
    BY <1>1 DEF history, flushVars, peeked
  <2> QED
    BY <1>3, <2>1 DEF Ordered, FlushOrder
<1>6. SpillOrder'
  BY <1>1, <1>3 DEF Ordered, SpillOrder, history, flushVars
<1> QED
  BY <1>4, <1>5, <1>6 DEF Ordered

LEMMA FlushOrderStarts ==
    ASSUME ~Overlap, Typed, OneFlush, Ordered, NEW f \in Flushes, flush(f), Typed'
    PROVE  Ordered'
<1>1. /\ life = "running" /\ pending' = <<>>
      /\ UNCHANGED <<life, file, tmp, now, delivered, dropped, crashes>>
  BY DEF flush, history
<1>2. pc'[f] = "peek" /\ batch'[f] = pending /\ \A g \in Flushes : g # f => pc'[g] = "idle"
  BY FlushStarts
<1>3. FileOrder'
  BY <1>1, NoRowsAtAll DEF Ordered, FileOrder
<1>4. FlushOrder(f)'
  BY <1>1, <1>2, NoRowsAtAll DEF Ordered, FileOrder, FlushOrder
<1>5. ASSUME NEW g \in Flushes PROVE FlushOrder(g)'
  BY <1>2, <1>4, IdleOrder DEF Typed
<1>6. SpillOrder'
  BY <1>1 DEF SpillOrder
<1> QED
  BY <1>3, <1>5, <1>6 DEF Ordered

\* No flush is running while the entry is unloaded.
LEMMA StoppedIsIdle ==
    ASSUME OneFlush, life # "running", NEW f \in Flushes
    PROVE  pc[f] = "idle"
BY DEF OneFlush

LEMMA UnloadOrder ==
    ASSUME ~Overlap, Typed, OneFlush, Ordered, async_stop \/ unload, Typed'
    PROVE  Ordered'
<1>1. FileOrder'
  <2>1. CASE async_stop
    BY <2>1 DEF async_stop, Ordered, FileOrder
  <2>2. CASE stop_append
    <3>1. /\ file' = appended(file, pending) /\ life' = "prune" /\ life = "append"
          /\ UNCHANGED <<pending, tmp, now, captured, delivered, crashes>>
      BY <2>2 DEF stop_append
    <3>2. /\ Tidy(file, now) /\ Ascending(pending)
          /\ Before(AllRows(file.lines), ToSet(pending))
      BY <3>1 DEF Ordered, FileOrder
    <3>3. Tidy(file', now) /\ (file'.open => file.open)
      BY <3>1, <3>2, AppendKeepsOrder, AppendKeepsRows DEF Typed
    <3> QED
      BY <3>1, <3>3 DEF Ordered, FileOrder
  <2>3. CASE stop_prune
    <3>1. /\ tmp' \in {pruned, tmp} /\ pending' \in {pending, <<>>}
          /\ life' \in {"prune_replace", "stopped"}
          /\ UNCHANGED <<file, now, captured, delivered, crashes>>
      BY <2>3 DEF stop_prune
    <3>2. Tidy(pruned, now) /\ (pruned.open => file.open)
      BY TypedParts, PruneTakesTheOldest DEF Typed, Ordered, FileOrder
    <3>3. tmp' # Nobody /\ tmp'.open => crashes > 0
      BY <3>1, <3>2 DEF Ordered, FileOrder
    <3> QED
      BY <3>1, <3>3, NoRowsAtAll DEF Ordered, FileOrder
  <2>4. CASE setup
    BY <2>4, NoRowsAtAll DEF setup, history, Ordered, FileOrder
  <2>5. CASE stop_replace
    <3>1. /\ tmp # Nobody /\ Tidy(tmp, now) /\ file' = tmp /\ tmp' = Nobody
          /\ pending' = <<>> /\ life' = "stopped" /\ UNCHANGED <<now, delivered, crashes>>
      BY <2>5 DEF stop_replace, history, Ordered, SpillOrder
    <3> QED
      BY <3>1, NoRowsAtAll DEF Ordered, FileOrder
  <2> QED
    BY <2>1, <2>2, <2>3, <2>4, <2>5 DEF unload
<1>3. SpillOrder'
  <2>1. CASE stop_prune
    <3>1. /\ \/ /\ tmp' = pruned /\ dropped' = dropped \cup (RowsOf(file.lines) \ RowsOf(pruned.lines))
                /\ life' = "prune_replace"
             \/ life' = "stopped"
          /\ UNCHANGED <<file, now>>
      BY <2>1 DEF stop_prune
    <3>2. FileOK(pruned, captured) /\ Remains(file, pruned) /\ Tidy(pruned, now)
      BY TypedParts, PruneTakesTheOldest DEF Typed, Ordered, FileOrder, Tidy
    <3>3. pruned # Nobody
      BY <3>2, NobodyIsNoFile DEF FileOK
    <3> QED
      BY <3>1, <3>2, <3>3 DEF SpillOrder
  <2>2. CASE async_stop \/ stop_append \/ setup \/ stop_replace
    <3>1. life' \in {"stopped", "append", "prune", "running"}
      BY <2>2 DEF async_stop, stop_append, setup, stop_replace, Ordered, SpillOrder
    <3> QED
      BY <3>1 DEF SpillOrder
  <2> QED
    BY <2>1, <2>2 DEF unload
<1>2. ASSUME NEW f \in Flushes PROVE FlushOrder(f)'
  <2>1. pc[f] = "idle" /\ pc' = pc
    BY StoppedIsIdle DEF async_stop, Busy, unload, stop_append, stop_prune, stop_replace, setup, flushVars
  <2> QED
    BY <2>1, IdleOrder DEF Typed
<1> QED
  BY <1>1, <1>2, <1>3 DEF Ordered

\* Rows being written are later than the file's and in order.
LEMMA WrittenOrder ==
    ASSUME Typed, Ordered, NEW rows \in Written
    PROVE  Ascending(rows) /\ Before(AllRows(file.lines), ToSet(rows))
<1>1. CASE \E f \in Flushes : pc[f] = "append" /\ rows = batch[f]
  BY <1>1 DEF Ordered, FlushOrder
<1>2. CASE life = "append" /\ rows = pending
  BY <1>2 DEF Ordered, FileOrder
<1> QED
  BY <1>1, <1>2, WrittenRows

LEMMA CrashOrder ==
    ASSUME Typed, Ordered, crash, Typed'
    PROVE  Ordered'
<1>1. /\ pending' = <<>> /\ pc' = [f \in Flushes |-> "idle"] /\ crashes' = crashes + 1
      /\ UNCHANGED <<tmp, now, captured, delivered, dropped, reloads>>
  BY DEF crash
<1>2. Tidy(file', now)
  <2>1. CASE file' = file
    BY <2>1 DEF Ordered, FileOrder
  <2>2. ASSUME NEW rows \in Written, NEW k \in 1..Len(rows), NEW whole \in BOOLEAN,
               file' = Cut(appended(file, SubSeq(rows, 1, k)), whole)
        PROVE  Tidy(file', now)
    <3> DEFINE s == SubSeq(rows, 1, k)
               g == appended(file, s)
    <3>1. Ascending(rows) /\ Before(AllRows(file.lines), ToSet(rows))
      BY WrittenOrder
    <3>0. captured \in Nat /\ rows \in Seq(1..captured)
      BY TypedParts, WrittenRows
    <3>2. s \in Seq(1..captured) /\ s # <<>> /\ Ascending(s) /\ ToSet(s) \subseteq ToSet(rows)
      BY <3>0, <3>1, FlushedRows
    <3>3. Before(AllRows(file.lines), ToSet(s))
      BY <3>1, <3>2 DEF Before
    <3> HIDE DEF s
    <3>4. FileOK(g, captured) /\ g.lines # <<>>
      BY <3>2, TypedParts, AppendKeepsRows DEF Typed
    <3>5. Tidy(g, now)
      BY <3>2, <3>3, TypedParts, AppendKeepsOrder DEF Typed, Ordered, FileOrder
    <3>6. file' = Cut(g, whole)
      BY <2>2 DEF s
    <3> QED
      BY <3>4, <3>5, <3>6, CutKeepsTheRest
  <2> QED
    BY <2>1, <2>2, CrashedFile
<1>3. crashes' > 0
  BY <1>1, EdgeAssumption DEF Typed
<1>4. FileOrder'
  BY <1>1, <1>2, <1>3, NoRowsAtAll DEF FileOrder
<1>5. \A f \in Flushes : FlushOrder(f)'
  BY <1>1, IdleOrder DEF Typed
<1>6. SpillOrder'
  BY DEF crash, SpillOrder
<1> QED
  BY <1>4, <1>5, <1>6 DEF Ordered

LEMMA InitOrder == ASSUME Init PROVE OneFlush /\ Ordered
<1>1. OneFlush
  BY DEF Init, OneFlush
<1>2. \A i : i \notin 1..Len(<<>>)
  OBVIOUS
<1>3. AllRows(<<>>) = {} /\ InOrder(<<>>) /\ RowsOf(<<>>) = {}
  BY <1>2 DEF AllRows, InOrder, RowsOf, Intact
<1>4. file.lines = <<>> /\ ~file.open
  BY DEF Init, Empty
<1>5. Tidy(file, now)
  BY <1>2, <1>3, <1>4 DEF Tidy
<1>6. FileOrder
  BY <1>4, <1>5, NoRowsAtAll DEF Init, FileOrder
<1>7. \A f \in Flushes : FlushOrder(f)
  BY NoRowsAtAll DEF Init, FlushOrder
<1>8. SpillOrder
  BY DEF Init, SpillOrder
<1> QED
  BY <1>1, <1>6, <1>7, <1>8 DEF Ordered

LEMMA OrderKept ==
    ASSUME ~Overlap, Typed, OneFlush, Ordered, [Next]_vars, Typed'
    PROVE  Ordered'
<1>1. CASE UNCHANGED vars
  <2>1. /\ peeked' = peeked
        /\ UNCHANGED <<life, pending, file, tmp, now, pc, batch, chunk, delivered, dropped, crashes>>
    BY <1>1 DEF vars, flushVars, history, peeked
  <2>2. FileOrder'
    BY <2>1 DEF Ordered, FileOrder
  <2>3. \A f \in Flushes : FlushOrder(f)'
    BY <2>1 DEF Ordered, FlushOrder
  <2>4. SpillOrder'
    BY <2>1 DEF Ordered, SpillOrder
  <2> QED
    BY <2>2, <2>3, <2>4 DEF Ordered
<1> QED
  BY <1>1, CaptureOrder, TickOrder, UnloadOrder, CrashOrder, FlushOrderStarts, FlushStepOrder
  DEF Next

\* The inductive invariant: types always, and without overlap one flush at a
\* time and every row in its place.
THEOREM EdgeInvariant == Spec => []EdgeInv
<1>1. Init => EdgeInv
  BY InitTyped, InitOrder DEF EdgeInv
<1>2. EdgeInv /\ [Next]_vars => EdgeInv'
  BY StepTyped, OneFlushKept, OrderKept DEF EdgeInv
<1> QED
  BY <1>1, <1>2, PTL DEF Spec

--------------------------------------------------------------------------------
(* What the invariant gives.                                               *)

\* What leaves the file with one step of a flush.
LEMMA FlushLeaves ==
    ASSUME Typed, Ordered, NEW f \in Flushes, step(f)
    PROVE  RowsOf(file.lines) \ RowsOf(file'.lines) \subseteq Settled'
<1>1. CASE append(f)
  <2>1. /\ file' = appended(file, batch[f]) /\ lost' = lost \cup Glued(file, batch[f])
    BY <1>1 DEF append
  <2>2. (RowsOf(file.lines) \cup ToSet(batch[f])) \ Glued(file, batch[f]) \subseteq RowsOf(file'.lines)
    BY <2>1, TypedParts, AppendKeepsRows DEF Typed
  <2> QED
    BY <2>1, <2>2 DEF Settled
<1>2. CASE commit_replace(f) \/ prune_replace(f)
  <2>1. /\ pc[f] \in {"commit_replace", "prune_replace"} /\ file' \in {tmp, file}
        /\ UNCHANGED <<delivered, dropped, lost>>
    BY <1>2 DEF commit_replace, prune_replace, history
  <2>2. RowsOf(file.lines) \ RowsOf(tmp.lines) \subseteq delivered \cup dropped
    BY <2>1 DEF Ordered, FlushOrder
  <2> QED
    BY <2>1, <2>2 DEF Settled
<1>3. CASE peek(f) \/ push_chunk(f) \/ commit(f) \/ push_batch(f) \/ prune(f)
  <2>1. file' = file
    BY <1>3 DEF peek, push_chunk, commit, push_batch, prune
  <2> QED
    BY <2>1
<1> QED
  BY <1>1, <1>2, <1>3 DEF step

\* What leaves the file with any step is settled.
LEMMA FileLeaves ==
    ASSUME ~Overlap, Typed, OneFlush, Ordered, [Next]_vars
    PROVE  RowsOf(file.lines) \ RowsOf(file'.lines) \subseteq Settled'
<1>1. CASE capture \/ tick \/ async_stop \/ setup \/ UNCHANGED vars
  <2>1. file' = file
    BY <1>1 DEF capture, tick, async_stop, setup, vars
  <2> QED
    BY <2>1
<1>2. CASE stop_append
  <2>1. /\ file' = appended(file, pending) /\ lost' = lost \cup Glued(file, pending)
    BY <1>2 DEF stop_append
  <2>2. (RowsOf(file.lines) \cup ToSet(pending)) \ Glued(file, pending) \subseteq RowsOf(file'.lines)
    BY <2>1, AppendKeepsRows DEF Typed
  <2> QED
    BY <2>1, <2>2 DEF Settled
<1>3. CASE stop_prune \/ stop_replace
  BY <1>3 DEF stop_prune, stop_replace, history, Ordered, SpillOrder, Settled
<1>4. CASE crash
  BY <1>4 DEF crash, Settled
<1>5. ASSUME NEW f \in Flushes, flush(f)
      PROVE  RowsOf(file.lines) \ RowsOf(file'.lines) \subseteq Settled'
  <2>1. file' = file
    BY <1>5 DEF flush
  <2> QED
    BY <2>1
<1> QED
  BY <1>1, <1>2, <1>3, <1>4, <1>5, FlushLeaves DEF Next, unload

\* A row that leaves the buffer was pushed, given up, or is counted as lost,
\* when flushes do not overlap: whatever the server answers, exceptions that
\* escape the flush included.
THEOREM WhatLeavesIsSettled ==
    ASSUME ~Overlap
    PROVE  Spec => OnlySettledLeaves
<1>1. EdgeInv /\ [Next]_vars =>
        [RowsOf(file.lines) \ RowsOf(file'.lines) \subseteq Settled']_vars
  BY FileLeaves DEF EdgeInv
<1> QED
  BY <1>1, EdgeInvariant, PTL DEF Spec, OnlySettledLeaves

\* The rows in the batches of flushes that end in the midst of a push, where no
\* line of _on_flush catches the exception.
EscapedRows ==
    UNION {ToSet(batch[f]) : f \in {g \in Flushes : /\ pc[g] \in {"push_chunk", "push_batch"}
                                                   /\ pc'[g] = "idle"
                                                   /\ "escaped" \in Outcomes}}

\* A flush drops its batch when the rows are settled or in the file, or with the
\* exception that ends it.
LEMMA BatchLeaves ==
    ASSUME Typed, Ordered, NEW f \in Flushes, step(f)
    PROVE  \/ UNCHANGED batch
           \/ /\ batch' = [batch EXCEPT ![f] = <<>>]
              /\ ToSet(batch[f]) \subseteq RowsOf(file'.lines) \cup Settled' \cup EscapedRows
<1>1. /\ FlushOrder(f) /\ ToSet(<<>>) = {}
  BY NoRowsAtAll DEF Ordered
<1>2. CASE peek(f)
  BY <1>1, <1>2 DEF peek, Finish
<1>0. ASSUME pc[f] \in {"push_chunk", "push_batch"}, "escaped" \in Outcomes, Finish(f)
      PROVE  ToSet(batch[f]) \subseteq EscapedRows
  BY <1>0, EndOrder DEF EscapedRows
<1>3. CASE push_chunk(f)
  <2>1. PICK outcome \in Outcomes :
          \/ UNCHANGED batch
          \/ Finish(f) /\ batch[f] = <<>>
          \/ Finish(f) /\ outcome = "escaped"
    BY <1>3 DEF push_chunk
  <2> QED
    BY <1>0, <1>1, <1>3, <2>1 DEF push_chunk, Finish
<1>4. CASE commit(f)
  BY <1>4 DEF commit
<1>5. CASE commit_replace(f)
  BY <1>1, <1>5 DEF commit_replace, FlushOrder
<1>6. CASE push_batch(f)
  <2>1. PICK outcome \in Outcomes :
          /\ Pushed(batch[f], outcome)
          /\ \/ Finish(f) /\ outcome \in {"ok", "refused"}
             \/ Finish(f) /\ outcome = "escaped"
             \/ UNCHANGED batch
    BY <1>6 DEF push_batch
  <2>2. CASE Finish(f) /\ outcome = "escaped"
    BY <1>0, <1>6, <2>1, <2>2 DEF push_batch, Finish
  <2>3. CASE Finish(f) /\ outcome \in {"ok", "refused"}
    BY <2>1, <2>3 DEF Pushed, Finish, Settled
  <2> QED
    BY <2>1, <2>2, <2>3
<1>7. CASE append(f)
  <2>1. /\ file' = appended(file, batch[f]) /\ lost' = lost \cup Glued(file, batch[f])
        /\ batch' = [batch EXCEPT ![f] = <<>>]
    BY <1>7 DEF append
  <2>2. (RowsOf(file.lines) \cup ToSet(batch[f])) \ Glued(file, batch[f]) \subseteq RowsOf(file'.lines)
    BY <2>1, TypedParts, AppendKeepsRows DEF Typed
  <2> QED
    BY <2>1, <2>2 DEF Settled
<1>8. CASE prune(f)
  BY <1>1, <1>8 DEF prune, Finish, FlushOrder
<1>9. CASE prune_replace(f)
  BY <1>1, <1>9 DEF prune_replace, Finish, FlushOrder
<1> QED
  BY <1>2, <1>3, <1>4, <1>5, <1>6, <1>7, <1>8, <1>9 DEF step

\* What leaves the memory is in the file or settled, or goes with an exception.
LEMMA MemoryLeaves ==
    ASSUME ~Overlap, Typed, OneFlush, Ordered, [Next]_vars
    PROVE  InMemory \subseteq InMemory' \cup RowsOf(file'.lines) \cup Settled' \cup EscapedRows
<1>1. ToSet(<<>>) = {}
  BY NoRowsAtAll
<1>2. CASE capture
  <2>1. ToSet(pending') = ToSet(pending) \cup {captured + 1} /\ UNCHANGED batch
    BY <1>2, AppendRow, TypedParts DEF Typed, capture, flushVars
  <2> QED
    BY <2>1 DEF InMemory, InBatches
<1>3. CASE tick \/ async_stop \/ stop_append \/ UNCHANGED vars
  <2>1. UNCHANGED <<pending, batch>>
    BY <1>3 DEF tick, async_stop, stop_append, vars, flushVars
  <2> QED
    BY <2>1 DEF InMemory, InBatches
<1>4. CASE stop_prune \/ stop_replace
  <2>1. /\ ToSet(pending) \subseteq RowsOf(file.lines) \cup lost
        /\ lost' = lost /\ UNCHANGED batch
    BY <1>4 DEF stop_prune, stop_replace, history, OneFlush, flushVars
  <2>2. RowsOf(file.lines) \subseteq RowsOf(file'.lines) \cup Settled'
    BY FileLeaves
  <2> QED
    BY <2>1, <2>2 DEF InMemory, InBatches, Settled
<1>5. CASE setup
  <2>1. pending = <<>> /\ UNCHANGED batch
    BY <1>5 DEF setup, OneFlush, flushVars
  <2> QED
    BY <1>1, <2>1 DEF InMemory, InBatches
<1>6. CASE crash
  BY <1>6 DEF crash, Settled
<1>7. ASSUME NEW f \in Flushes, flush(f)
      PROVE  InMemory \subseteq InMemory' \cup RowsOf(file'.lines) \cup Settled'
  <2>1. batch[f] = <<>> /\ batch' = [batch EXCEPT ![f] = pending]
    BY <1>7 DEF flush, Typed, FlushTypes
  <2>2. \A g \in Flushes : batch'[g] = IF g = f THEN pending ELSE batch[g]
    BY <2>1 DEF Typed, FlushTypes
  <2> QED
    BY <1>1, <2>1, <2>2 DEF InMemory, InBatches
<1>8. ASSUME NEW f \in Flushes, step(f)
      PROVE  InMemory \subseteq InMemory' \cup RowsOf(file'.lines) \cup Settled' \cup EscapedRows
  <2>1. UNCHANGED pending
    BY <1>8, FlushMoves
  <2>2. CASE UNCHANGED batch
    BY <2>1, <2>2 DEF InMemory, InBatches
  <2>3. CASE /\ batch' = [batch EXCEPT ![f] = <<>>]
             /\ ToSet(batch[f]) \subseteq RowsOf(file'.lines) \cup Settled' \cup EscapedRows
    <3>1. \A g \in Flushes : g # f => batch'[g] = batch[g]
      BY <2>3 DEF Typed, FlushTypes
    <3> QED
      BY <2>1, <2>3, <3>1 DEF InMemory, InBatches
  <2> QED
    BY <1>8, <2>2, <2>3, BatchLeaves
<1> QED
  BY <1>2, <1>3, <1>4, <1>5, <1>6, <1>7, <1>8 DEF Next, unload

\* What is settled stays settled, and a new row is in memory.
LEMMA SettledGrows ==
    ASSUME Typed, [Next]_vars
    PROVE  Settled \subseteq Settled' /\ 1..captured' \subseteq 1..captured \cup InMemory'
<1>1. CASE capture
  <2>1. /\ ToSet(pending') = ToSet(pending) \cup {captured + 1} /\ captured' = captured + 1
        /\ captured \in Nat /\ UNCHANGED <<delivered, dropped, lost>>
    BY <1>1, AppendRow, TypedParts DEF Typed, capture
  <2>2. 1..captured' \subseteq 1..captured \cup {captured + 1}
    BY <2>1
  <2> QED
    BY <2>1, <2>2 DEF Settled, InMemory
<1>2. CASE UNCHANGED captured /\ Settled \subseteq Settled'
  BY <1>2
<1>3. CASE tick \/ async_stop \/ unload \/ crash \/ UNCHANGED vars
  BY <1>2, <1>3 DEF tick, async_stop, unload, stop_append, stop_prune, stop_replace, setup,
     crash, vars, history, Settled
<1>4. ASSUME NEW f \in Flushes, flush(f) \/ step(f)
      PROVE  UNCHANGED captured /\ Settled \subseteq Settled'
  <2>1. CASE flush(f) \/ peek(f) \/ commit(f) \/ commit_replace(f) \/ prune_replace(f)
    BY <2>1 DEF flush, peek, commit, commit_replace, prune_replace, history, Settled
  <2>2. CASE push_chunk(f) \/ push_batch(f)
    BY <2>2 DEF push_chunk, push_batch, Pushed, Settled
  <2>3. CASE append(f) \/ prune(f)
    BY <2>3 DEF append, prune, Settled
  <2> QED
    BY <1>4, <2>1, <2>2, <2>3 DEF step
<1> QED
  BY <1>1, <1>2, <1>3, <1>4 DEF Next

\* Every captured row is in memory, readable in the buffer or settled, when
\* flushes do not overlap and no exception escapes one.
THEOREM NoRowDisappears ==
    ASSUME ~Overlap, "escaped" \notin Outcomes
    PROVE  Spec => []RowsAreAccountedFor
<1>1. Init => RowsAreAccountedFor
  BY DEF Init, RowsAreAccountedFor
<1>2. ASSUME EdgeInv, RowsAreAccountedFor, [Next]_vars PROVE RowsAreAccountedFor'
  <2>1. RowsOf(file.lines) \subseteq RowsOf(file'.lines) \cup Settled'
    BY <1>2, FileLeaves DEF EdgeInv
  <2>2. EscapedRows = {}
    BY DEF EscapedRows
  <2>3. InMemory \subseteq InMemory' \cup RowsOf(file'.lines) \cup Settled'
    BY <1>2, <2>2, MemoryLeaves DEF EdgeInv
  <2>4. Settled \subseteq Settled' /\ 1..captured' \subseteq 1..captured \cup InMemory'
    BY <1>2, SettledGrows DEF EdgeInv
  <2> QED
    BY <1>2, <2>1, <2>3, <2>4 DEF RowsAreAccountedFor
<1> QED
  BY <1>1, <1>2, EdgeInvariant, PTL DEF Spec

\* Where a captured row is: in memory, readable in the buffer, or settled.
Accounted == InMemory \cup RowsOf(file.lines) \cup Settled

\* _on_flush, push_samples: an exception that escapes a push costs the batch of
\* that flush at most, never a row of the backlog, one that is pending or one
\* of another step; and nothing else makes a row disappear.
OnlyEscapesLose == [][Accounted \ Accounted' \subseteq EscapedRows]_vars

\* Without overlap the cost of an exception that escapes _on_flush is the batch
\* it took from memory: every other captured row stays in memory, in the buffer
\* or settled.
THEOREM EscapesLoseTheirBatch ==
    ASSUME ~Overlap
    PROVE  Spec => OnlyEscapesLose
<1>1. ASSUME EdgeInv, [Next]_vars
      PROVE  Accounted \ Accounted' \subseteq EscapedRows
  <2>1. RowsOf(file.lines) \subseteq RowsOf(file'.lines) \cup Settled'
    BY <1>1, FileLeaves DEF EdgeInv
  <2>2. InMemory \subseteq InMemory' \cup RowsOf(file'.lines) \cup Settled' \cup EscapedRows
    BY <1>1, MemoryLeaves DEF EdgeInv
  <2>3. Settled \subseteq Settled'
    BY <1>1, SettledGrows DEF EdgeInv
  <2>4. Accounted' = InMemory' \cup RowsOf(file'.lines) \cup Settled'
    BY DEF Accounted
  <2> QED
    BY <2>1, <2>2, <2>3, <2>4 DEF Accounted
<1> QED
  BY <1>1, EdgeInvariant, PTL DEF Spec, OnlyEscapesLose

\* Rows that were not delivered change what is, when they are.
LEMMA NewRowsShow ==
    ASSUME NEW rows \in Seq(Nat), rows # <<>>, ToSet(rows) \cap delivered = {},
           delivered' = delivered \cup ToSet(rows)
    PROVE  delivered' # delivered
<1>1. ToSet(rows) # {}
  BY Elements
<1> QED
  BY <1>1

\* The step that ends a flush sets the flag.
LEMMA FlushEnds ==
    ASSUME "escaped" \notin Outcomes, Typed, OneFlush, Ordered, NEW f \in Flushes, step(f),
           pc'[f] = "idle"
    PROVE  /\ RowsOf(file'.lines) # {} => ~online'
           /\ pc[f] = "push_batch" /\ delivered' # delivered => online'
           /\ online' => online \/ (pc[f] = "push_batch" /\ delivered' # delivered)
<1>1. /\ FlushOrder(f) /\ \A value \in BOOLEAN : set_online(f, value) => online' = value
  BY DEF Ordered, OneFlush, set_online
<1>2. \A label \in Labels : At(f, label) => label = "idle"
  BY DEF Typed, FlushTypes, At
<1>3. CASE peek(f)
  <2>1. peeked = <<>> /\ pc[f] = "peek" /\ UNCHANGED <<file, online>>
    BY <1>2, <1>3 DEF peek, Labels
  <2> QED
    BY <2>1, PeekReadsTheFront, TypedParts
<1>4. CASE push_chunk(f)
  BY <1>1, <1>2, <1>4 DEF push_chunk, Labels
<1>5. CASE commit(f) \/ commit_replace(f) \/ append(f)
  BY <1>1, <1>2, <1>5 DEF commit, commit_replace, append, FlushOrder, Labels
<1>6. CASE push_batch(f)
  <2>1. /\ RowsOf(file.lines) = {} /\ batch[f] # <<>> /\ ToSet(batch[f]) \cap delivered = {}
        /\ file' = file
    BY <1>1, <1>6 DEF push_batch, FlushOrder
  <2>2. PICK outcome \in Outcomes :
          /\ Pushed(batch[f], outcome)
          /\ \/ outcome = "ok" /\ set_online(f, TRUE)
             \/ outcome \in {"refused", "escaped"} /\ UNCHANGED online
    BY <1>2, <1>6 DEF push_batch, Labels
  <2>3. batch[f] \in Seq(Nat)
    BY TypedParts
  <2>4. CASE outcome = "ok"
    <3>1. delivered' = delivered \cup ToSet(batch[f]) /\ online' = TRUE /\ pc[f] = "push_batch"
      BY <1>1, <1>6, <2>2, <2>4 DEF Pushed, push_batch
    <3> QED
      BY <2>1, <2>3, <3>1, NewRowsShow
  <2>5. CASE outcome \in {"refused", "escaped"} /\ UNCHANGED online
    <3>1. delivered' = delivered
      BY <2>2, <2>5 DEF Pushed
    <3> QED
      BY <2>1, <2>5, <3>1
  <2> QED
    BY <2>2, <2>4, <2>5
<1>7. CASE prune(f) \/ prune_replace(f)
  BY <1>1, <1>2, <1>7 DEF prune, prune_replace, FlushOrder, Labels
<1> QED
  BY <1>3, <1>4, <1>5, <1>6, <1>7 DEF step

\* When flushes do not overlap and no exception escapes one: a flush that leaves
\* rows in the buffer shows the node as offline, one that ends with the delivery
\* of its new rows shows it as online, and no other end of a flush turns the
\* flag to online.
THEOREM OnlineTellsTheTruth ==
    ASSUME ~Overlap, "escaped" \notin Outcomes
    PROVE  Spec => OnlineIsTrue
<1>1. ASSUME EdgeInv, [Next]_vars PROVE [FlushShowsTheLink]_vars
  <2>1. SUFFICES ASSUME NEW f \in Flushes, pc[f] # "idle", pc'[f] = "idle", crashes' = crashes,
                        Next
                 PROVE  /\ RowsOf(file'.lines) # {} => ~online'
                        /\ pc[f] = "push_batch" /\ delivered' # delivered => online'
                        /\ online' => online \/ (pc[f] = "push_batch" /\ delivered' # delivered)
    BY <1>1 DEF FlushShowsTheLink
  <2>2. Typed /\ OneFlush /\ Ordered
    BY <1>1 DEF EdgeInv
  <2>3. ~crash
    BY <2>1, <2>2 DEF crash, Typed
  <2>4. ~(capture \/ tick \/ async_stop \/ unload)
    BY <2>1 DEF capture, tick, async_stop, unload, stop_append, stop_prune, stop_replace, setup,
      flushVars
  <2>5. ASSUME NEW g \in Flushes, flush(g) PROVE FALSE
    <3>1. pc' = [pc EXCEPT ![g] = "peek"] /\ pc[g] = "idle"
      BY <2>5 DEF flush, At
    <3> QED
      BY <2>1, <2>2, <3>1 DEF Typed, FlushTypes
  <2>6. PICK g \in Flushes : step(g)
    BY <2>1, <2>3, <2>4, <2>5 DEF Next
  <2>7. g = f
    BY <2>1, <2>2, <2>6, FlushMoves DEF OneFlush
  <2> QED
    BY <2>1, <2>2, <2>6, <2>7, FlushEnds
<1> QED
  BY <1>1, EdgeInvariant, PTL DEF Spec, OnlineIsTrue

--------------------------------------------------------------------------------
(* A flush comes to its end.                                               *)

\* The steps a flush may still take: each chunk of the backlog is four, a peek,
\* a push, the copy and the replace, and takes a line at least.
StepsLeft(f) ==
    CASE pc[f] = "idle" -> 0
      [] pc[f] = "prune_replace" -> 1
      [] pc[f] = "prune" -> 2
      [] pc[f] = "append" -> 3
      [] pc[f] = "push_batch" -> 4
      [] pc[f] = "peek" -> 4 * Len(file.lines) + 5
      [] pc[f] = "push_chunk" -> 4 * Len(file.lines) + 4
      [] pc[f] = "commit" -> 4 * Len(file.lines) + 3
      [] pc[f] = "commit_replace" -> 4 * Len(file.lines) + 2

\* A flush that pushes or commits a chunk has rows in it, and what commit has
\* copied is shorter than the file.
TakesLines(f) ==
    /\ pc[f] \in {"push_chunk", "commit"} => chunk[f] # <<>>
    /\ pc[f] = "commit_replace" => Len(tmp.lines) < Len(file.lines)

ChunkTakesLines == \A f \in Flushes : TakesLines(f)

\* _on_flush, _drain_disk: each step of a flush leaves it fewer steps, and what
\* happens around it no more of them.
FlushesShorten ==
    \A f \in Flushes : /\ step(f) => StepsLeft(f)' < StepsLeft(f)
                       /\ pc[f] # "idle" => StepsLeft(f)' <= StepsLeft(f)
FlushesAreBounded == [][FlushesShorten]_vars

\* A file has a length.
LEMMA FileLength ==
    ASSUME NEW g, NEW n, FileOK(g, n)
    PROVE  g.lines \in Seq(Line) /\ Len(g.lines) \in Nat
BY DEF FileOK, File

\* A commit of a chunk that is not empty leaves fewer lines, if there are any.
LEMMA CommitShortens ==
    ASSUME NEW m, FileOK(file, m), NEW n \in Nat \ {0}, file.lines # <<>>
    PROVE  Len(committed(n).lines) < Len(file.lines)
<1> DEFINE F == file.lines
<1>1. F \in Seq(Line) /\ Len(F) \in Nat
  BY FileLength
<1>2. Len(F) # 0
  BY <1>1, Elements
<1>3. committed(n).lines = SubSeq(F, n + 1, Len(F))
  BY DEF committed
<1> HIDE DEF F
<1>4. \A i \in (n + 1)..Len(F) : F[i] \in Line
  BY <1>1
<1>5. Len(SubSeq(F, n + 1, Len(F)))
        = (IF n + 1 <= Len(F) THEN Len(F) - (n + 1) + 1 ELSE 0)
  BY <1>1, <1>4, SubSeqProperties
<1> QED
  BY <1>1, <1>2, <1>3, <1>5 DEF F

\* The steps left to a flush are a number.
LEMMA StepsAreCounted ==
    ASSUME Typed, NEW f \in Flushes
    PROVE  StepsLeft(f) \in Nat /\ Len(file.lines) \in Nat
BY TypedParts, FileLength DEF StepsLeft, FlushTypes, Labels, Typed

\* A step that ends a flush leaves it none.
LEMMA EndShortens ==
    ASSUME Typed, NEW f \in Flushes, pc[f] # "idle", Finish(f)
    PROVE  StepsLeft(f)' < StepsLeft(f) /\ TakesLines(f)'
<1>1. pc'[f] = "idle"
  BY EndOrder
<1>2. pc[f] \in Labels \ {"idle"} /\ StepsLeft(f) \in Nat /\ Len(file.lines) \in Nat
  BY StepsAreCounted, TypedParts
<1>3. StepsLeft(f) # 0
  BY <1>2 DEF StepsLeft, Labels
<1>4. StepsLeft(f)' = 0 /\ TakesLines(f)'
  BY <1>1 DEF StepsLeft, TakesLines
<1> QED
  BY <1>2, <1>3, <1>4

\* Each of its steps leaves it fewer.
LEMMA StepsShorten ==
    ASSUME Typed, OneFlush, Ordered, NEW f \in Flushes, TakesLines(f), step(f), Typed'
    PROVE  StepsLeft(f)' < StepsLeft(f) /\ TakesLines(f)'
<1>1. /\ Len(file.lines) \in Nat /\ Len(file.lines)' \in Nat /\ pc[f] # "idle"
      /\ pc \in [Flushes -> Labels] /\ chunk \in [Flushes -> Seq(1..captured)]
      /\ FlushOrder(f)
  BY FlushMoves, FileLength DEF Typed, FlushTypes, Ordered
<1>2. CASE Finish(f)
  BY <1>1, <1>2, EndShortens
<1>3. \A label \in Labels : At(f, label) => pc'[f] = label
  BY <1>1 DEF At
<1>4. CASE peek(f) /\ ~Finish(f)
  <2>1. pc[f] = "peek" /\ file' = file
    BY <1>4 DEF peek
  <2>2. CASE peeked # <<>> /\ chunk' = [chunk EXCEPT ![f] = peeked] /\ At(f, "push_chunk")
    <3>1. pc'[f] = "push_chunk" /\ chunk'[f] # <<>>
      BY <1>1, <1>3, <2>2 DEF Labels
    <3> QED
      BY <1>1, <2>1, <3>1 DEF StepsLeft, TakesLines
  <2>3. CASE At(f, "push_batch")
    <3>1. pc'[f] = "push_batch"
      BY <1>3, <2>3 DEF Labels
    <3> QED
      BY <1>1, <2>1, <3>1 DEF StepsLeft, TakesLines
  <2> QED
    BY <1>4, <2>2, <2>3 DEF peek
<1>5. CASE push_chunk(f) /\ ~Finish(f)
  <2>1. pc[f] = "push_chunk" /\ file' = file /\ chunk[f] # <<>>
    BY <1>5 DEF push_chunk, TakesLines
  <2>2. UNCHANGED chunk /\ (At(f, "commit") \/ At(f, "append"))
    BY <1>5 DEF push_chunk
  <2>3. pc'[f] \in {"commit", "append"}
    BY <1>3, <2>2 DEF Labels
  <2> QED
    BY <1>1, <2>1, <2>2, <2>3 DEF StepsLeft, TakesLines
<1>6. CASE commit(f)
  <2>1. /\ pc[f] = "commit" /\ file' = file /\ chunk[f] # <<>> /\ chunk[f] = peeked
        /\ tmp' = committed(Len(chunk[f])) /\ At(f, "commit_replace")
    BY <1>1, <1>6 DEF commit, TakesLines, FlushOrder
  <2>2. Len(chunk[f]) \in Nat \ {0}
    BY <2>1, TypedParts, Elements
  <2>3. file.lines # <<>>
    <3>1. RowsOf(file.lines) # {}
      BY <2>1, PeekReadsTheFront, TypedParts
    <3>2. RowsOf(<<>>) = {}
      <4>1. \A i : i \notin 1..Len(<<>>)
        OBVIOUS
      <4> QED
        BY <4>1 DEF RowsOf, Intact
    <3> QED
      BY <3>1, <3>2
  <2>4. Len(tmp'.lines) < Len(file.lines)
    BY <2>1, <2>2, <2>3, CommitShortens, TypedParts
  <2>5. pc'[f] = "commit_replace"
    BY <1>3, <2>1 DEF Labels
  <2> QED
    BY <1>1, <2>1, <2>4, <2>5 DEF StepsLeft, TakesLines
<1>7. CASE commit_replace(f) /\ ~Finish(f)
  <2>1. /\ pc[f] = "commit_replace" /\ file' = tmp /\ Len(tmp.lines) < Len(file.lines)
        /\ At(f, "peek")
    BY <1>7 DEF commit_replace, TakesLines
  <2>2. pc'[f] = "peek"
    BY <1>3, <2>1 DEF Labels
  <2> QED
    BY <1>1, <2>1, <2>2 DEF StepsLeft, TakesLines
<1>8. CASE push_batch(f) /\ ~Finish(f)
  <2>1. pc[f] = "push_batch" /\ pc'[f] = "append"
    BY <1>3, <1>8 DEF push_batch, Labels
  <2> QED
    BY <2>1 DEF StepsLeft, TakesLines
<1>9. CASE append(f)
  <2>1. pc[f] = "append" /\ pc'[f] = "prune"
    BY <1>3, <1>9 DEF append, Labels
  <2> QED
    BY <2>1 DEF StepsLeft, TakesLines
<1>10. CASE prune(f) /\ ~Finish(f)
  <2>1. pc[f] = "prune" /\ pc'[f] = "prune_replace"
    BY <1>3, <1>10 DEF prune, Labels
  <2> QED
    BY <2>1 DEF StepsLeft, TakesLines
<1> QED
  BY <1>2, <1>4, <1>5, <1>6, <1>7, <1>8, <1>9, <1>10 DEF step, prune_replace

\* Nothing that happens around a flush without ending it touches its file.
LEMMA AroundFlushes ==
    ASSUME ~Overlap, Typed, OneFlush, NEW f \in Flushes, Typed',
           capture \/ tick \/ async_stop \/ unload \/ crash \/ UNCHANGED vars
    PROVE  \/ pc'[f] = "idle"
           \/ /\ pc' = pc /\ chunk' = chunk /\ file' = file /\ tmp' = tmp
<1>1. CASE capture \/ tick \/ UNCHANGED vars
  BY <1>1 DEF capture, tick, vars, flushVars
<1>2. CASE async_stop \/ unload
  <2>1. pc[f] = "idle" /\ pc' = pc
    BY <1>2, StoppedIsIdle DEF async_stop, Busy, unload, stop_append, stop_prune, stop_replace,
       setup, flushVars
  <2> QED
    BY <2>1
<1>3. CASE crash
  BY <1>3 DEF crash
<1> QED
  BY <1>1, <1>2, <1>3

\* Every step keeps the lines of the chunks, and the count of steps falls.
LEMMA ShortensOne ==
    ASSUME ~Overlap, Typed, OneFlush, Ordered, ChunkTakesLines, [Next]_vars, Typed',
           NEW f \in Flushes
    PROVE  /\ TakesLines(f)'
           /\ step(f) => StepsLeft(f)' < StepsLeft(f)
           /\ pc[f] # "idle" => StepsLeft(f)' <= StepsLeft(f)
<1>1. TakesLines(f) /\ StepsLeft(f) \in Nat
  BY StepsAreCounted DEF ChunkTakesLines
<1>2. CASE step(f)
  <2>1. StepsLeft(f)' < StepsLeft(f) /\ TakesLines(f)'
    BY <1>1, <1>2, StepsShorten
  <2>2. StepsLeft(f)' \in Nat
    BY FileLength DEF StepsLeft, Typed, FlushTypes, Labels
  <2> QED
    BY <1>1, <2>1, <2>2
<1>3. CASE ~step(f) /\ pc'[f] = "idle"
  <2>1. StepsLeft(f)' = 0 /\ TakesLines(f)'
    BY <1>3 DEF StepsLeft, TakesLines
  <2> QED
    BY <1>1, <1>3, <2>1
<1>4. CASE /\ ~step(f)
           /\ pc' = pc /\ chunk' = chunk /\ file' = file /\ tmp' = tmp
  <2>1. StepsLeft(f)' = StepsLeft(f)
    BY <1>4 DEF StepsLeft
  <2>2. TakesLines(f)'
    BY <1>1, <1>4 DEF TakesLines
  <2> QED
    BY <1>1, <1>4, <2>1, <2>2
<1>5. ASSUME NEW g \in Flushes, step(g), g # f PROVE pc'[f] = "idle" /\ ~step(f)
  BY <1>5, FlushMoves DEF OneFlush
<1>6. ASSUME NEW g \in Flushes, flush(g)
      PROVE  TakesLines(f)' /\ pc[f] = "idle" /\ ~step(f)
  <2>1. /\ pc'[g] = "peek" /\ \A h \in Flushes : h # g => pc'[h] = "idle"
        /\ pc[f] = "idle"
    BY <1>6, FlushStarts DEF flush, Busy
  <2>2. pc'[f] \in {"peek", "idle"}
    BY <2>1
  <2>3. ~step(f)
    BY <2>1, FlushMoves
  <2> QED
    BY <2>1, <2>2, <2>3 DEF TakesLines
<1>7. CASE capture \/ tick \/ async_stop \/ unload \/ crash \/ UNCHANGED vars
  BY <1>2, <1>3, <1>4, <1>7, AroundFlushes
<1>8. ASSUME NEW g \in Flushes, step(g), ~step(f)
      PROVE  pc'[f] = "idle"
  <2>1. g # f
    BY <1>8
  <2> QED
    BY <1>5, <1>8, <2>1
<1>9. CASE \E g \in Flushes : flush(g)
  BY <1>6, <1>9
<1>10. \/ capture \/ tick \/ async_stop \/ unload \/ crash \/ UNCHANGED vars
       \/ \E g \in Flushes : step(g)
       \/ \E g \in Flushes : flush(g)
  BY DEF Next
<1> QED
  BY <1>2, <1>3, <1>7, <1>8, <1>9, <1>10

\* Without overlap every flush has a number of steps left, set by the backlog it
\* still has to push, that each of its steps makes smaller and nothing raises:
\* it ends, or waits for an answer.
THEOREM FlushesAreShort ==
    ASSUME ~Overlap
    PROVE  Spec => FlushesAreBounded
<1>1. Init => ChunkTakesLines
  BY DEF Init, ChunkTakesLines, TakesLines
<1>2. ASSUME EdgeInv, EdgeInv', ChunkTakesLines, [Next]_vars
      PROVE  ChunkTakesLines' /\ FlushesShorten
  <2>1. Typed /\ OneFlush /\ Ordered /\ Typed'
    BY <1>2 DEF EdgeInv
  <2>2. \A f \in Flushes : TakesLines(f)'
    BY <1>2, <2>1, ShortensOne
  <2>3. FlushesShorten
    BY <1>2, <2>1, ShortensOne DEF FlushesShorten
  <2> QED
    BY <2>2, <2>3 DEF ChunkTakesLines
<1> QED
  BY <1>1, <1>2, EdgeInvariant, PTL DEF Spec, FlushesAreBounded

--------------------------------------------------------------------------------
(* The node implements the queue it promises.                              *)

\* Outbox keeps rows of its queue as the node keeps lines.
LEMMA TheQueueKeeps ==
    ASSUME NEW s, NEW places
    PROVE  Queue!Kept(s, places) = Kept(s, places)
BY DEF Queue!Kept, Kept

\* The queue is ascending, and holds just these rows.
WaitingRows == RowsOf(file.lines) \cup InBatches
               \cup (IF life \in {"prune", "prune_replace"} THEN {} ELSE ToSet(pending))

QueueShape == ~Overlap =>
    /\ waiting \in Seq(1..captured) /\ waiting \in Seq(Nat)
    /\ Ascending(waiting) /\ ToSet(waiting) = WaitingRows

\* A sequence is one of its elements.
LEMMA OfItsRows ==
    ASSUME NEW S, NEW s \in Seq(S), NEW T, ToSet(s) \subseteq T
    PROVE  s \in Seq(T)
<1>1. ToSet(s) = {s[i] : i \in 1..Len(s)}
  BY Elements
<1>2. \A i \in 1..Len(s) : s[i] \in T
  BY <1>1
<1> QED
  BY <1>2

\* Two ascending sequences, the later rows behind the earlier.
LEMMA Joined ==
    ASSUME NEW s \in Seq(Nat), NEW t \in Seq(Nat), Ascending(s), Ascending(t),
           Before(ToSet(s), ToSet(t)), NEW u, u = s \o t
    PROVE  u \in Seq(Nat) /\ Ascending(u) /\ ToSet(u) = ToSet(s) \cup ToSet(t)
<1>1. /\ u \in Seq(Nat) /\ Len(u) = Len(s) + Len(t) /\ Len(s) \in Nat /\ Len(t) \in Nat
      /\ \A i \in 1..Len(s) : u[i] = s[i]
      /\ \A i \in 1..Len(t) : u[Len(s) + i] = t[i]
  OBVIOUS
<1>2. \A v \in Seq(Nat) : ToSet(v) = {v[i] : i \in 1..Len(v)}
  BY Elements
<1>3. ToSet(u) = ToSet(s) \cup ToSet(t)
  <2>1. \A i \in 1..Len(u) : u[i] \in ToSet(s) \cup ToSet(t)
    <3>1. TAKE i \in 1..Len(u)
    <3>2. CASE i \in 1..Len(s)
      BY <1>1, <1>2, <3>2
    <3>3. CASE i \notin 1..Len(s)
      <4>1. PICK j \in 1..Len(t) : i = Len(s) + j
        <5>1. i - Len(s) \in 1..Len(t) /\ i = Len(s) + (i - Len(s))
          BY <1>1, <3>3
        <5> QED
          BY <5>1
      <4> QED
        BY <1>1, <1>2, <4>1
    <3> QED
      BY <3>2, <3>3
  <2>2. ToSet(u) = {u[i] : i \in 1..Len(u)} /\ ToSet(s) = {s[i] : i \in 1..Len(s)}
        /\ ToSet(t) = {t[i] : i \in 1..Len(t)}
    BY <1>1, <1>2
  <2>3. \A i \in 1..Len(s) : s[i] \in ToSet(u)
    <3>1. TAKE i \in 1..Len(s)
    <3>2. i \in 1..Len(u) /\ u[i] = s[i]
      BY <1>1
    <3> QED
      BY <2>2, <3>2
  <2>4. \A i \in 1..Len(t) : t[i] \in ToSet(u)
    <3>1. TAKE i \in 1..Len(t)
    <3>2. Len(s) + i \in 1..Len(u) /\ u[Len(s) + i] = t[i]
      BY <1>1
    <3> QED
      BY <2>2, <3>2
  <2>5. ToSet(s) \subseteq ToSet(u) /\ ToSet(t) \subseteq ToSet(u)
    BY <2>2, <2>3, <2>4
  <2>6. ToSet(u) \subseteq ToSet(s) \cup ToSet(t)
    BY <2>1, <2>2
  <2> QED
    BY <2>5, <2>6
<1>4. Ascending(u)
  <2>1. SUFFICES ASSUME NEW i \in 1..Len(u), NEW j \in 1..Len(u), i < j PROVE u[i] < u[j]
    BY DEF Ascending
  <2>2. CASE j \in 1..Len(s)
    BY <1>1, <2>1, <2>2 DEF Ascending
  <2>3. CASE i \in 1..Len(s) /\ j \notin 1..Len(s)
    <3>1. PICK k \in 1..Len(t) : j = Len(s) + k
      <4>1. j - Len(s) \in 1..Len(t) /\ j = Len(s) + (j - Len(s))
        BY <1>1, <2>3
      <4> QED
        BY <4>1
    <3>2. u[i] \in ToSet(s) /\ u[j] \in ToSet(t)
      BY <1>1, <1>2, <2>3, <3>1
    <3> QED
      BY <3>2 DEF Before
  <2>4. CASE i \notin 1..Len(s) /\ j \notin 1..Len(s)
    <3>1. PICK k \in 1..Len(t) : j = Len(s) + k
      <4>1. j - Len(s) \in 1..Len(t) /\ j = Len(s) + (j - Len(s))
        BY <1>1, <2>4
      <4> QED
        BY <4>1
    <3>2. PICK l \in 1..Len(t) : i = Len(s) + l
      <4>1. i - Len(s) \in 1..Len(t) /\ i = Len(s) + (i - Len(s))
        BY <1>1, <2>4
      <4> QED
        BY <4>1
    <3>3. l < k /\ u[j] = t[k] /\ u[i] = t[l]
      BY <1>1, <2>1, <3>1, <3>2
    <3> QED
      BY <3>3 DEF Ascending
  <2>5. j \in 1..Len(s) => i \in 1..Len(s)
    BY <1>1, <2>1
  <2> QED
    BY <2>2, <2>3, <2>4, <2>5
<1> QED
  BY <1>1, <1>3, <1>4

\* Where rows wait follows from the invariant.
LEMMA QueueNow == EdgeInv => QueueShape
<1>1. SUFFICES ASSUME ~Overlap, Typed, OneFlush, Ordered PROVE QueueShape
  BY DEF EdgeInv, QueueShape
<1> DEFINE unsent == IF Busy = {} THEN <<>> ELSE batch[CHOOSE f \in Busy : TRUE]
           disk == rowsOf(Readable(file.lines))
           spilt == IF life \in {"prune", "prune_replace"} THEN <<>> ELSE pending
<1>2. /\ disk \in Seq(Nat) /\ Ascending(disk) /\ ToSet(disk) = RowsOf(file.lines)
  <2>1. file.lines \in Seq(Line) /\ InOrder(file.lines) /\ Rows \subseteq Nat
    BY <1>1, TypedParts DEF Ordered, FileOrder, Tidy, Rows
  <2> HIDE DEF disk
  <2>2. disk = rowsOf(Readable(file.lines))
    BY DEF disk
  <2>3. disk \in Seq(Rows) /\ Ascending(disk) /\ ToSet(disk) = RowsOf(file.lines)
    BY <2>1, <2>2, ReadableRows
  <2>4. ToSet(disk) \subseteq Nat
    BY <2>3, TypedParts, <1>1
  <2>5. disk \in Seq(Nat)
    BY <2>3, <2>4, OfItsRows
  <2> QED
    BY <2>3, <2>5
<1>3. /\ spilt \in Seq(Nat) /\ Ascending(spilt)
      /\ ToSet(spilt) = IF life \in {"prune", "prune_replace"} THEN {} ELSE ToSet(pending)
  <2>1. pending \in Seq(Nat) /\ Ascending(pending) /\ <<>> \in Seq(Nat)
    BY <1>1 DEF Typed, Ordered, FileOrder
  <2> QED
    BY <2>1, NoRowsAtAll
<1>4. /\ unsent \in Seq(Nat) /\ Ascending(unsent) /\ ToSet(unsent) = InBatches
      /\ Before(RowsOf(file.lines), InBatches)
      /\ Before(InBatches, ToSet(spilt))
  <2>1. RowsOf(file.lines) \subseteq AllRows(file.lines)
    BY <1>1, TypedParts, RowsAreRows
  <2>2. CASE Busy = {}
    <3>1. unsent = <<>> /\ <<>> \in Seq(Nat)
      BY <2>2
    <3>2. \A f \in Flushes : batch[f] = <<>>
      BY <1>1, <2>2 DEF Busy, Typed, FlushTypes
    <3>3. InBatches = {}
      BY <3>2, NoRowsAtAll DEF InBatches
    <3> QED
      BY <3>1, <3>3, NoRowsAtAll
  <2>3. ASSUME NEW f \in Busy PROVE <1>4
    <3>1. /\ f \in Flushes /\ Busy = {f} /\ life = "running"
      BY <1>1, <2>3 DEF Busy, OneFlush
    <3>2. unsent = batch[f]
      BY <3>1
    <3>3. \A g \in Flushes : g # f => batch[g] = <<>>
      BY <1>1, <3>1 DEF Busy, Typed, FlushTypes
    <3>4. InBatches = ToSet(batch[f])
      BY <3>1, <3>3, NoRowsAtAll DEF InBatches
    <3>5. /\ batch[f] \in Seq(Nat) /\ Ascending(batch[f])
          /\ Before(AllRows(file.lines), ToSet(batch[f])) /\ Before(ToSet(batch[f]), ToSet(pending))
      BY <1>1, <3>1, TypedParts DEF Ordered, FlushOrder
    <3>6. spilt = pending
      BY <3>1
    <3> QED
      BY <2>1, <3>2, <3>4, <3>5, <3>6 DEF Before
  <2> QED
    BY <2>2, <2>3
<1>5. Before(RowsOf(file.lines), ToSet(spilt))
  <2>1. RowsOf(file.lines) \subseteq AllRows(file.lines)
    BY <1>1, TypedParts, RowsAreRows
  <2>2. CASE life \in {"running", "append"}
    BY <1>1, <1>3, <2>1, <2>2 DEF Ordered, FileOrder, Before
  <2>3. CASE life \in {"prune", "prune_replace", "stopped"}
    <3>1. ToSet(spilt) = {}
      BY <1>1, <1>3, <2>3, NoRowsAtAll DEF OneFlush
    <3> QED
      BY <3>1, NoRowsAtAll
  <2> QED
    BY <1>1, <2>2, <2>3 DEF Typed, Ordered, SpillOrder
<1>6. waiting = (disk \o unsent) \o spilt
  BY DEF waiting
<1> HIDE DEF disk, unsent, spilt
<1>7. PICK u : u = disk \o unsent
  OBVIOUS
<1>8. u \in Seq(Nat) /\ Ascending(u) /\ ToSet(u) = RowsOf(file.lines) \cup InBatches
  BY <1>2, <1>4, <1>7, Joined
<1>9. Before(ToSet(u), ToSet(spilt))
  BY <1>4, <1>5, <1>8 DEF Before
<1>10. waiting \in Seq(Nat) /\ Ascending(waiting) /\ ToSet(waiting) = WaitingRows
  <2>1. waiting = u \o spilt
    BY <1>6, <1>7
  <2>2. /\ waiting \in Seq(Nat) /\ Ascending(waiting)
        /\ ToSet(waiting) = ToSet(u) \cup ToSet(spilt)
    BY <1>3, <1>8, <1>9, <2>1, Joined
  <2> QED
    BY <1>3, <1>8, <2>2 DEF WaitingRows
<1>11. waiting \in Seq(1..captured)
  <2>1. WaitingRows \subseteq 1..captured
    BY <1>1, TypedParts DEF WaitingRows, InBatches
  <2> QED
    BY <1>10, <2>1, OfItsRows
<1> QED
  BY <1>10, <1>11 DEF QueueShape


\* P is at the front of s, and t is what P leaves of it.
FrontOf(P, s, t) ==
    \E k \in 1..Len(s) :
      /\ {s[i] : i \in 1..k} = P
      /\ ToSet(t) = ToSet(s) => t = s
      /\ ToSet(t) = ToSet(s) \ P => t = SubSeq(s, k + 1, Len(s))

\* The earliest of the rows waiting are at the front.
LEMMA FrontOfQueue ==
    ASSUME NEW s \in Seq(Nat), NEW t \in Seq(Nat), Ascending(s), Ascending(t),
           NEW P \in SUBSET ToSet(s), P # {}, Before(P, ToSet(s) \ P)
    PROVE  FrontOf(P, s, t)
<1>1. PICK k \in 1..Len(s) : {s[i] : i \in 1..k} = P
  BY EarliestAreFirst
<1>2. ToSet(t) = ToSet(s) => t = s
  BY SameRows
<1>3. ASSUME ToSet(t) = ToSet(s) \ P PROVE t = SubSeq(s, k + 1, Len(s))
  BY <1>1, <1>3, EarliestLeave
<1> QED
  BY <1>1, <1>2, <1>3 DEF FrontOf

\* The first rows are sent, given up or released, or nothing happens.
LEMMA FrontMoves ==
    ASSUME ~Overlap, QueueShape, QueueShape', UNCHANGED <<captured, lost, crashes>>,
           NEW P \in SUBSET WaitingRows, Before(P, WaitingRows \ P),
           WaitingRows' \in {WaitingRows, WaitingRows \ P},
           \/ delivered' = delivered \cup P /\ dropped' = dropped
           \/ dropped' = dropped \cup P /\ delivered' = delivered
           \/ /\ P \subseteq delivered \cup dropped /\ WaitingRows' = WaitingRows \ P
              /\ delivered' = delivered /\ dropped' = dropped
    PROVE  [Queue!Next]_(Queue!outboxVars)
<1>1. /\ waiting \in Seq(Nat) /\ Ascending(waiting) /\ ToSet(waiting) = WaitingRows
      /\ waiting' \in Seq(Nat) /\ Ascending(waiting') /\ ToSet(waiting') = WaitingRows'
  BY DEF QueueShape
<1>2. CASE P = {}
  <2>1. waiting' = waiting
    <3>1. ToSet(waiting') = ToSet(waiting)
      BY <1>1, <1>2
    <3> QED
      BY <1>1, <3>1, SameRows
  <2>2. UNCHANGED <<delivered, dropped>>
    BY <1>2
  <2> QED
    BY <2>1, <2>2 DEF Queue!outboxVars
<1>3. CASE P # {}
  <2>1. P \in SUBSET ToSet(waiting) /\ Before(P, ToSet(waiting) \ P)
    BY <1>1
  <2>2. PICK k \in 1..Len(waiting) :
          /\ {waiting[i] : i \in 1..k} = P
          /\ ToSet(waiting') = ToSet(waiting) => waiting' = waiting
          /\ ToSet(waiting') = ToSet(waiting) \ P => waiting' = SubSeq(waiting, k + 1, Len(waiting))
    <3>1. FrontOf(P, waiting, waiting')
      BY <1>1, <1>3, <2>1, FrontOfQueue
    <3> QED
      BY <3>1 DEF FrontOf
  <2>3. Queue!First(k) = P /\ Queue!Rest(k) = SubSeq(waiting, k + 1, Len(waiting))
    BY <2>2 DEF Queue!First, Queue!Rest
  <2>4. /\ waiting' \in {waiting, Queue!Rest(k)}
        /\ WaitingRows' = WaitingRows \ P => waiting' = Queue!Rest(k)
    BY <1>1, <2>2, <2>3
  <2>5. Queue!Send(k) \/ Queue!GiveUp(k) \/ Queue!Release(k)
    <3>1. CASE delivered' = delivered \cup P /\ dropped' = dropped
      BY <2>3, <2>4, <3>1 DEF Queue!Send
    <3>2. CASE dropped' = dropped \cup P /\ delivered' = delivered
      BY <2>3, <2>4, <3>2 DEF Queue!GiveUp
    <3>3. CASE /\ P \subseteq delivered \cup dropped /\ WaitingRows' = WaitingRows \ P
               /\ delivered' = delivered /\ dropped' = dropped
      BY <2>3, <2>4, <3>3 DEF Queue!Release
    <3> QED
      BY <3>1, <3>2, <3>3
  <2> QED
    BY <2>5 DEF Queue!Next
<1> QED
  BY <1>2, <1>3

\* What is kept of an ascending sequence without some of its rows.
LEMMA KeptRows ==
    ASSUME NEW s \in Seq(Nat), Ascending(s), NEW R,
           NEW kept, kept = Kept(s, {i \in 1..Len(s) : s[i] \notin R})
    PROVE  kept \in Seq(Nat) /\ Ascending(kept) /\ ToSet(kept) = ToSet(s) \ R
<1> DEFINE places == {i \in 1..Len(s) : s[i] \notin R}
<1>1. places \in SUBSET (1..Len(s)) /\ kept = Kept(s, places)
  OBVIOUS
<1>2. \A i : i \in places <=> i \in 1..Len(s) /\ s[i] \notin R
  OBVIOUS
<1> HIDE DEF places
<1>3. kept \in Seq(Nat) /\ KeptFrom(kept, s, places)
  BY <1>1, KeptLines
<1>4. /\ \A k \in 1..Len(kept) : \E p \in places : kept[k] = s[p]
      /\ \A p \in places : \E k \in 1..Len(kept) : k <= p /\ kept[k] = s[p]
      /\ \A j, k \in 1..Len(kept) : j < k =>
           \E p, q \in places : p < q /\ kept[j] = s[p] /\ kept[k] = s[q]
  BY <1>3 DEF KeptFrom
<1>5. Ascending(kept)
  <2>1. SUFFICES ASSUME NEW j \in 1..Len(kept), NEW k \in 1..Len(kept), j < k
                 PROVE  kept[j] < kept[k]
    BY DEF Ascending
  <2>2. PICK p \in places, q \in places : p < q /\ kept[j] = s[p] /\ kept[k] = s[q]
    BY <1>4, <2>1
  <2>3. p \in 1..Len(s) /\ q \in 1..Len(s)
    BY <1>2
  <2>4. s[p] < s[q]
    BY <2>2, <2>3 DEF Ascending
  <2> QED
    BY <2>2, <2>4
<1>6. ToSet(kept) = {kept[k] : k \in 1..Len(kept)} /\ ToSet(s) = {s[i] : i \in 1..Len(s)}
  <2>1. \A u \in Seq(Nat) : ToSet(u) = {u[i] : i \in 1..Len(u)}
    BY Elements
  <2> QED
    BY <1>3, <2>1
<1>7. \A k \in 1..Len(kept) : kept[k] \in ToSet(s) \ R
  <2>1. TAKE k \in 1..Len(kept)
  <2>2. PICK p \in places : kept[k] = s[p]
    BY <1>4
  <2>3. p \in 1..Len(s) /\ s[p] \notin R
    BY <1>2
  <2> QED
    BY <1>6, <2>2, <2>3
<1>8. \A i \in 1..Len(s) : s[i] \notin R => s[i] \in ToSet(kept)
  <2>1. SUFFICES ASSUME NEW i \in 1..Len(s), s[i] \notin R PROVE s[i] \in ToSet(kept)
    OBVIOUS
  <2>2. PICK k \in 1..Len(kept) : kept[k] = s[i]
    BY <1>2, <1>4, <2>1
  <2> QED
    BY <1>6, <2>2
<1>9. ToSet(kept) = ToSet(s) \ R
  <2>1. ToSet(kept) \subseteq ToSet(s) \ R
    BY <1>6, <1>7
  <2>2. ToSet(s) \ R \subseteq ToSet(kept)
    BY <1>6, <1>8
  <2> QED
    BY <2>1, <2>2
<1> QED
  BY <1>3, <1>5, <1>9

\* Rows are lost anywhere in the queue.
LEMMA RowsLost ==
    ASSUME ~Overlap, QueueShape, QueueShape', UNCHANGED <<captured, delivered, dropped>>,
           NEW R \in SUBSET WaitingRows, WaitingRows' = WaitingRows \ R, lost' = lost \cup R,
           crashes' \in {crashes, crashes + 1}, crashes' > 0
    PROVE  Queue!Next
<1>1. /\ waiting \in Seq(Nat) /\ Ascending(waiting) /\ ToSet(waiting) = WaitingRows
      /\ waiting' \in Seq(Nat) /\ Ascending(waiting') /\ ToSet(waiting') = WaitingRows'
  BY DEF QueueShape
<1>2. PICK kept : kept = Kept(waiting, {i \in 1..Len(waiting) : waiting[i] \notin R})
  OBVIOUS
<1>3. kept \in Seq(Nat) /\ Ascending(kept) /\ ToSet(kept) = ToSet(waiting')
  BY <1>1, <1>2, KeptRows
<1>4. waiting' = kept
  BY <1>1, <1>3, SameRows
<1>5. waiting' = Queue!Kept(waiting, {i \in 1..Len(waiting) : waiting[i] \notin R})
  BY <1>2, <1>4, TheQueueKeeps
<1>6. R \in SUBSET ToSet(waiting)
  BY <1>1
<1>7. Queue!Lose
  BY <1>5, <1>6 DEF Queue!Lose, Queue!ToSet, ToSet
<1> QED
  BY <1>7 DEF Queue!Next

\* A reading joins the end of the queue.
LEMMA RowCaptured ==
    ASSUME ~Overlap, Typed, QueueShape, QueueShape', capture
    PROVE  Queue!Next
<1>1. /\ waiting \in Seq(1..captured) /\ waiting \in Seq(Nat)
      /\ Ascending(waiting) /\ ToSet(waiting) = WaitingRows
      /\ waiting' \in Seq(Nat) /\ Ascending(waiting') /\ ToSet(waiting') = WaitingRows'
  BY DEF QueueShape
<1>2. /\ captured < MaxCaptured /\ captured' = captured + 1 /\ life = "running"
      /\ pending' = Append(pending, captured + 1) /\ pending \in Seq(1..captured)
      /\ captured \in Nat
      /\ UNCHANGED <<life, file, batch, delivered, dropped, lost, crashes>>
  BY DEF capture, Typed, flushVars
<1>3. ToSet(pending') = ToSet(pending) \cup {captured + 1}
  BY <1>2, AppendRow
<1>4. WaitingRows' = WaitingRows \cup {captured + 1}
  BY <1>2, <1>3 DEF WaitingRows, InBatches
<1>5. PICK t : t = Append(waiting, captured + 1)
  OBVIOUS
<1>6. t \in Seq(Nat) /\ Ascending(t) /\ ToSet(t) = ToSet(waiting')
  <2>1. ToSet(t) = ToSet(waiting) \cup {captured + 1} /\ Ascending(t)
    BY <1>1, <1>2, <1>5, AppendRow
  <2>2. t \in Seq(Nat)
    BY <1>1, <1>2, <1>5
  <2> QED
    BY <1>1, <1>4, <2>1, <2>2
<1>7. waiting' = t
  BY <1>1, <1>6, SameRows
<1>8. Queue!Capture
  BY <1>2, <1>5, <1>7 DEF Queue!Capture
<1> QED
  BY <1>8 DEF Queue!Next

\* What a flush finds waiting, and what it leaves.
LEMMA WaitingOfFlush ==
    ASSUME Typed, OneFlush, Typed', NEW f \in Flushes, step(f)
    PROVE  /\ WaitingRows = RowsOf(file.lines) \cup ToSet(batch[f]) \cup ToSet(pending)
           /\ WaitingRows' = RowsOf(file'.lines) \cup ToSet(batch'[f]) \cup ToSet(pending)
           /\ UNCHANGED <<captured, crashes>>
<1>1. /\ pc[f] # "idle" /\ life = "running" /\ \A g \in Flushes : g # f => pc'[g] = "idle"
      /\ UNCHANGED <<life, pending, captured, crashes>>
  BY FlushMoves
<1>2. \A g \in Flushes : g # f => pc[g] = "idle"
  BY <1>1, OneFlushFacts
<1>3. \A g \in Flushes : g # f => batch[g] = <<>> /\ batch'[g] = <<>>
  BY <1>1, <1>2 DEF Typed, FlushTypes
<1>4. InBatches = ToSet(batch[f]) /\ InBatches' = ToSet(batch'[f])
  BY <1>3, NoRowsAtAll DEF InBatches
<1> QED
  BY <1>1, <1>4 DEF WaitingRows

\* The earliest rows of the file are the earliest waiting.
LEMMA FrontOfFile ==
    ASSUME Typed, Ordered, life = "running", NEW f \in Flushes, NEW P \in SUBSET RowsOf(file.lines),
           Before(P, RowsOf(file.lines) \ P)
    PROVE  LET rows == RowsOf(file.lines) \cup ToSet(batch[f]) \cup ToSet(pending)
           IN  P \in SUBSET rows /\ Before(P, rows \ P)
<1>1. RowsOf(file.lines) \subseteq AllRows(file.lines)
  BY TypedParts, RowsAreRows
<1>2. /\ Before(AllRows(file.lines), ToSet(batch[f])) /\ Before(AllRows(file.lines), ToSet(pending))
  BY DEF Ordered, FileOrder, FlushOrder
<1> QED
  BY <1>1, <1>2 DEF Before

\* A step of the flush that changes no row of the queue and settles none.
LEMMA NothingMoves ==
    ASSUME ~Overlap, QueueShape, QueueShape', WaitingRows' = WaitingRows,
           UNCHANGED <<captured, delivered, dropped, lost, crashes>>
    PROVE  [Queue!Next]_(Queue!outboxVars)
<1>1. {} \in SUBSET WaitingRows /\ Before({}, WaitingRows \ {}) /\ dropped' = dropped \cup {}
  BY NoRowsAtAll
<1> QED
  BY <1>1, FrontMoves

\* Each step of the node is one of the queue, or none.
LEMMA PeekIsQueued ==
    ASSUME ~Overlap, Typed, OneFlush, Ordered, Typed', QueueShape, QueueShape',
           NEW f \in Flushes, peek(f)
    PROVE  [Queue!Next]_(Queue!outboxVars)
<1>1. /\ UNCHANGED <<captured, delivered, dropped, lost, crashes>> /\ file' = file
      /\ UNCHANGED batch \/ (batch[f] = <<>> /\ batch' = [batch EXCEPT ![f] = <<>>])
  BY DEF peek, Finish, history
<1>2. batch'[f] = batch[f]
  BY <1>1 DEF Typed, FlushTypes
<1>3. WaitingRows' = WaitingRows
  BY <1>1, <1>2, WaitingOfFlush DEF step
<1> QED
  BY <1>1, <1>3, NothingMoves

LEMMA PushChunkIsQueued ==
    ASSUME ~Overlap, "escaped" \notin Outcomes, Typed, OneFlush, Ordered, Typed',
           QueueShape, QueueShape', NEW f \in Flushes, push_chunk(f)
    PROVE  [Queue!Next]_(Queue!outboxVars)
<1>1. PICK outcome \in Outcomes :
        /\ Pushed(chunk[f], outcome)
        /\ UNCHANGED batch \/ (batch[f] = <<>> /\ batch' = [batch EXCEPT ![f] = <<>>])
  BY DEF push_chunk, Finish
<1>2. /\ pc[f] = "push_chunk" /\ file' = file /\ chunk[f] = peeked /\ life = "running"
      /\ UNCHANGED <<captured, lost, crashes>>
  BY <1>1, FlushMoves DEF push_chunk, Pushed, Ordered, FlushOrder, step
<1>3. batch'[f] = batch[f]
  BY <1>1 DEF Typed, FlushTypes
<1>4. WaitingRows' = WaitingRows
  BY <1>2, <1>3, WaitingOfFlush DEF step
<1>5. /\ ToSet(chunk[f]) \in SUBSET RowsOf(file.lines)
      /\ Before(ToSet(chunk[f]), RowsOf(file.lines) \ ToSet(chunk[f]))
  BY <1>2, PeekReadsTheFront, TypedParts DEF Ordered, FileOrder, Tidy
<1>6. ToSet(chunk[f]) \in SUBSET WaitingRows /\ Before(ToSet(chunk[f]), WaitingRows \ ToSet(chunk[f]))
  BY <1>2, <1>5, FrontOfFile, WaitingOfFlush DEF step
<1>7. CASE outcome \in {"ok", "lost", "refused"}
  <2>1. \/ delivered' = delivered \cup ToSet(chunk[f]) /\ dropped' = dropped
        \/ dropped' = dropped \cup ToSet(chunk[f]) /\ delivered' = delivered
    BY <1>1, <1>7 DEF Pushed
  <2> QED
    BY <1>2, <1>4, <1>6, <2>1, FrontMoves
<1>8. CASE outcome \notin {"ok", "lost", "refused"}
  <2>1. UNCHANGED <<delivered, dropped>>
    BY <1>1, <1>8 DEF Pushed
  <2> QED
    BY <1>2, <1>4, <2>1, NothingMoves
<1> QED
  BY <1>7, <1>8

LEMMA PushBatchIsQueued ==
    ASSUME ~Overlap, "escaped" \notin Outcomes, Typed, OneFlush, Ordered, Typed',
           QueueShape, QueueShape', NEW f \in Flushes, push_batch(f)
    PROVE  [Queue!Next]_(Queue!outboxVars)
<1>1. PICK outcome \in Outcomes :
        /\ Pushed(batch[f], outcome)
        /\ \/ outcome \in {"ok", "refused"} /\ Finish(f)
           \/ outcome \in {"busy", "lost"} /\ UNCHANGED batch
  BY DEF push_batch
<1>2. /\ file' = file /\ RowsOf(file.lines) = {} /\ life = "running"
      /\ UNCHANGED <<captured, lost, crashes>>
  BY <1>1, FlushMoves DEF push_batch, Pushed, Ordered, FlushOrder, step
<1>3. /\ WaitingRows = ToSet(batch[f]) \cup ToSet(pending)
      /\ WaitingRows' = ToSet(batch'[f]) \cup ToSet(pending)
  BY <1>2, WaitingOfFlush DEF step
<1>4. /\ ToSet(batch[f]) \in SUBSET WaitingRows
      /\ Before(ToSet(batch[f]), WaitingRows \ ToSet(batch[f]))
      /\ ToSet(batch[f]) \cap ToSet(pending) = {}
  <2>1. Before(ToSet(batch[f]), ToSet(pending)) /\ ToSet(batch[f]) \in SUBSET Nat
    BY TypedParts DEF Ordered, FlushOrder
  <2>2. ToSet(batch[f]) \cap ToSet(pending) = {}
    BY <2>1, EarlierAreOthers
  <2> QED
    BY <1>3, <2>1, <2>2 DEF Before
<1>5. CASE outcome \in {"ok", "refused"} /\ Finish(f)
  <2>1. \/ delivered' = delivered \cup ToSet(batch[f]) /\ dropped' = dropped
        \/ dropped' = dropped \cup ToSet(batch[f]) /\ delivered' = delivered
    BY <1>1, <1>5 DEF Pushed
  <2>2. batch'[f] = <<>>
    BY <1>5 DEF Finish, Typed, FlushTypes
  <2>3. WaitingRows' = WaitingRows \ ToSet(batch[f])
    BY <1>3, <1>4, <2>2, NoRowsAtAll
  <2> QED
    BY <1>2, <1>4, <2>1, <2>3, FrontMoves
<1>6. CASE outcome = "lost" /\ UNCHANGED batch
  <2>1. delivered' = delivered \cup ToSet(batch[f]) /\ dropped' = dropped
    BY <1>1, <1>6 DEF Pushed
  <2>2. WaitingRows' = WaitingRows
    BY <1>3, <1>6
  <2> QED
    BY <1>2, <1>4, <2>1, <2>2, FrontMoves
<1>7. CASE outcome = "busy" /\ UNCHANGED batch
  <2>1. UNCHANGED <<delivered, dropped>>
    BY <1>1, <1>7 DEF Pushed
  <2>2. WaitingRows' = WaitingRows
    BY <1>3, <1>7
  <2> QED
    BY <1>2, <2>1, <2>2, NothingMoves
<1> QED
  BY <1>1, <1>5, <1>6, <1>7

LEMMA CommitIsQueued ==
    ASSUME ~Overlap, Typed, OneFlush, Ordered, Typed', QueueShape, QueueShape',
           NEW f \in Flushes, commit(f)
    PROVE  [Queue!Next]_(Queue!outboxVars)
<1>1. UNCHANGED <<file, batch, captured, delivered, dropped, lost, crashes>>
  BY DEF commit, history
<1>2. WaitingRows' = WaitingRows
  BY <1>1, WaitingOfFlush DEF step
<1> QED
  BY <1>1, <1>2, NothingMoves

\* The temporary file takes the place of the file.
LEMMA ReplaceIsQueued ==
    ASSUME ~Overlap, Typed, OneFlush, Ordered, Typed', QueueShape, QueueShape',
           NEW f \in Flushes, commit_replace(f) \/ prune_replace(f)
    PROVE  [Queue!Next]_(Queue!outboxVars)
<1>1. /\ pc[f] \in {"commit_replace", "prune_replace"} /\ FlushOrder(f) /\ life = "running"
      /\ UNCHANGED <<captured, delivered, dropped, lost, crashes>>
  BY FlushMoves DEF commit_replace, prune_replace, history, Ordered, step
<1>2. /\ tmp # Nobody /\ Remains(file, tmp)
      /\ RowsOf(file.lines) \ RowsOf(tmp.lines) \subseteq delivered \cup dropped
  BY <1>1 DEF FlushOrder
<1>3. file' = tmp
  BY <1>2 DEF commit_replace, prune_replace
<1>4. batch'[f] = batch[f]
  <2>1. CASE commit_replace(f)
    BY <1>2, <2>1 DEF commit_replace
  <2>2. CASE prune_replace(f)
    <3>1. batch[f] = <<>>
      BY <1>1, <2>2 DEF prune_replace, FlushOrder
    <3> QED
      BY <2>2, <3>1 DEF prune_replace, Finish, Typed, FlushTypes
  <2> QED
    BY <2>1, <2>2
<1>5. PICK P : P = RowsOf(file.lines) \ RowsOf(tmp.lines)
  OBVIOUS
<1>6. P \in SUBSET RowsOf(file.lines) /\ Before(P, RowsOf(file.lines) \ P)
  BY <1>2, <1>5 DEF Remains, Before
<1>7. P \in SUBSET WaitingRows /\ Before(P, WaitingRows \ P)
  BY <1>1, <1>6, FrontOfFile, WaitingOfFlush DEF step
<1>8. WaitingRows' = WaitingRows \ P
  <2>1. P \cap ToSet(batch[f]) = {} /\ P \cap ToSet(pending) = {}
    <3>1. P \in SUBSET Nat /\ RowsOf(file.lines) \subseteq AllRows(file.lines)
      BY <1>5, TypedParts, RowsAreRows
    <3>2. Before(AllRows(file.lines), ToSet(batch[f])) /\ Before(AllRows(file.lines), ToSet(pending))
      BY <1>1 DEF Ordered, FileOrder, FlushOrder
    <3>3. Before(P, ToSet(batch[f])) /\ Before(P, ToSet(pending))
      BY <1>5, <3>1, <3>2 DEF Before
    <3> QED
      BY <3>1, <3>3, EarlierAreOthers
  <2>2. RowsOf(file'.lines) = RowsOf(file.lines) \ P
    BY <1>2, <1>3, <1>5 DEF Remains
  <2>3. /\ WaitingRows = RowsOf(file.lines) \cup ToSet(batch[f]) \cup ToSet(pending)
        /\ WaitingRows' = RowsOf(file'.lines) \cup ToSet(batch[f]) \cup ToSet(pending)
    BY <1>4, WaitingOfFlush DEF step
  <2> QED
    BY <2>1, <2>2, <2>3
<1>9. P \subseteq delivered \cup dropped
  BY <1>2, <1>5
<1> QED
  BY <1>1, <1>7, <1>8, <1>9, FrontMoves

LEMMA PruneIsQueued ==
    ASSUME ~Overlap, Typed, OneFlush, Ordered, Typed', QueueShape, QueueShape',
           NEW f \in Flushes, prune(f)
    PROVE  [Queue!Next]_(Queue!outboxVars)
<1>1. /\ file' = file /\ pc[f] = "prune" /\ FlushOrder(f) /\ life = "running"
      /\ UNCHANGED <<captured, delivered, lost, crashes>>
  BY FlushMoves DEF prune, Ordered, step
<1>2. batch[f] = <<>> /\ batch'[f] = <<>>
  BY <1>1 DEF prune, Finish, FlushOrder, Typed, FlushTypes
<1>3. WaitingRows' = WaitingRows
  BY <1>1, <1>2, WaitingOfFlush DEF step
<1>4. PICK P : P = RowsOf(file.lines) \ RowsOf(pruned.lines)
  OBVIOUS
<1>5. P \in SUBSET RowsOf(file.lines) /\ Before(P, RowsOf(file.lines) \ P)
  <2>1. Remains(file, pruned)
    BY TypedParts, PruneTakesTheOldest DEF Typed, Ordered, FileOrder, Tidy
  <2> QED
    BY <1>4, <2>1 DEF Remains, Before
<1>6. P \in SUBSET WaitingRows /\ Before(P, WaitingRows \ P)
  BY <1>1, <1>5, FrontOfFile, WaitingOfFlush DEF step
<1>7. CASE dropped' = dropped \cup P
  BY <1>1, <1>3, <1>6, <1>7, FrontMoves
<1>8. CASE dropped' = dropped
  BY <1>1, <1>3, <1>8, NothingMoves
<1> QED
  BY <1>4, <1>7, <1>8 DEF prune

\* Rows go to the end of the file; what is glued there is lost.
LEMMA AppendLoses ==
    ASSUME ~Overlap, Typed, Ordered, QueueShape, QueueShape',
           NEW rows \in Seq(1..captured), Ascending(rows), Before(AllRows(file.lines), ToSet(rows)),
           file' = appended(file, rows), lost' = lost \cup Glued(file, rows),
           UNCHANGED <<captured, delivered, dropped, crashes>>,
           NEW later, Before(RowsOf(file.lines) \cup ToSet(rows), later),
           WaitingRows = RowsOf(file.lines) \cup ToSet(rows) \cup later,
           WaitingRows' = RowsOf(file'.lines) \cup later
    PROVE  [Queue!Next]_(Queue!outboxVars)
<1>1. /\ RowsOf(file'.lines) \subseteq RowsOf(file.lines) \cup ToSet(rows)
      /\ (RowsOf(file.lines) \cup ToSet(rows)) \ Glued(file, rows) \subseteq RowsOf(file'.lines)
      /\ Glued(file, rows) \subseteq RowsOf(file.lines) \cup ToSet(rows)
      /\ Glued(file, rows) # {} => file.open
  BY TypedParts, AppendKeepsRows DEF Typed
<1>2. RowsOf(file'.lines) \cap Glued(file, rows) = {}
  BY TypedParts, AppendKeepsOrder DEF Typed, Ordered, FileOrder
<1>3. (RowsOf(file.lines) \cup ToSet(rows)) \cap later = {}
  <2>1. RowsOf(file.lines) \cup ToSet(rows) \in SUBSET Nat
    <3>1. RowsOf(file.lines) \subseteq 1..captured /\ 1..captured \subseteq Nat
      BY TypedParts
    <3>2. ToSet(rows) \subseteq 1..captured
      BY Elements
    <3> QED
      BY <3>1, <3>2
  <2> QED
    BY <2>1, EarlierAreOthers
<1>4. PICK R : R = Glued(file, rows)
  OBVIOUS
<1>5. R \in SUBSET WaitingRows /\ WaitingRows' = WaitingRows \ R
  BY <1>1, <1>2, <1>3, <1>4
<1>6. CASE R = {}
  BY <1>4, <1>5, <1>6, NothingMoves
<1>7. CASE R # {}
  <2>1. crashes' \in {crashes, crashes + 1} /\ crashes' > 0
    BY <1>1, <1>4, <1>7 DEF Ordered, FileOrder
  <2> QED
    BY <1>4, <1>5, <2>1, RowsLost
<1> QED
  BY <1>6, <1>7

LEMMA AppendIsQueued ==
    ASSUME ~Overlap, Typed, OneFlush, Ordered, Typed', QueueShape, QueueShape',
           NEW f \in Flushes, append(f)
    PROVE  [Queue!Next]_(Queue!outboxVars)
<1>1. /\ file' = appended(file, batch[f]) /\ lost' = lost \cup Glued(file, batch[f])
      /\ batch' = [batch EXCEPT ![f] = <<>>] /\ life = "running"
      /\ UNCHANGED <<captured, delivered, dropped, crashes>>
  BY FlushMoves DEF append, step
<1>2. batch'[f] = <<>> /\ ToSet(<<>>) = {}
  BY <1>1, NoRowsAtAll DEF Typed, FlushTypes
<1>3. /\ WaitingRows = RowsOf(file.lines) \cup ToSet(batch[f]) \cup ToSet(pending)
      /\ WaitingRows' = RowsOf(file'.lines) \cup ToSet(pending)
  BY <1>2, WaitingOfFlush DEF step
<1>4. /\ batch[f] \in Seq(1..captured) /\ Ascending(batch[f])
      /\ Before(AllRows(file.lines), ToSet(batch[f]))
      /\ Before(RowsOf(file.lines) \cup ToSet(batch[f]), ToSet(pending))
  <2>1. RowsOf(file.lines) \subseteq AllRows(file.lines)
    BY TypedParts, RowsAreRows
  <2> QED
    BY <1>1, <2>1, TypedParts DEF Ordered, FileOrder, FlushOrder, Before
<1> QED
  BY <1>1, <1>3, <1>4, AppendLoses

\* While the entry is unloaded, no flush holds rows.
LEMMA NoBatches ==
    ASSUME Typed, \A f \in Flushes : pc[f] = "idle"
    PROVE  InBatches = {}
<1>1. \A f \in Flushes : batch[f] = <<>>
  BY DEF Typed, FlushTypes
<1> QED
  BY <1>1, NoRowsAtAll DEF InBatches

LEMMA UnloadIsQueued ==
    ASSUME ~Overlap, Typed, OneFlush, Ordered, QueueShape, QueueShape',
           async_stop \/ unload
    PROVE  [Queue!Next]_(Queue!outboxVars)
<1>1. InBatches = {} /\ InBatches' = {}
  <2>1. \A f \in Flushes : pc[f] = "idle"
    BY StoppedIsIdle DEF async_stop, Busy, unload, stop_append, stop_prune, stop_replace, setup
  <2>2. batch' = batch
    BY DEF async_stop, unload, stop_append, stop_prune, stop_replace, setup, flushVars
  <2> QED
    BY <2>1, <2>2, NoBatches DEF InBatches
<1>2. ToSet(<<>>) = {}
  BY NoRowsAtAll
<1>3. CASE async_stop
  <2>1. /\ life = "running" /\ life' \in {"stopped", "append"}
        /\ UNCHANGED <<pending, file, captured, delivered, dropped, lost, crashes>>
    BY <1>3 DEF async_stop
  <2>2. WaitingRows' = WaitingRows
    BY <1>1, <2>1 DEF WaitingRows
  <2> QED
    BY <2>1, <2>2, NothingMoves
<1>4. CASE stop_append
  <2>1. /\ file' = appended(file, pending) /\ lost' = lost \cup Glued(file, pending)
        /\ life = "append" /\ life' = "prune"
        /\ UNCHANGED <<pending, captured, delivered, dropped, crashes>>
    BY <1>4 DEF stop_append
  <2>2. /\ WaitingRows = RowsOf(file.lines) \cup ToSet(pending) \cup {}
        /\ WaitingRows' = RowsOf(file'.lines) \cup {}
    BY <1>1, <2>1 DEF WaitingRows
  <2>3. /\ pending \in Seq(1..captured) /\ Ascending(pending)
        /\ Before(AllRows(file.lines), ToSet(pending))
        /\ Before(RowsOf(file.lines) \cup ToSet(pending), {})
    BY <2>1, NoRowsAtAll DEF Typed, Ordered, FileOrder
  <2> QED
    BY <2>1, <2>2, <2>3, AppendLoses
<1>5. CASE stop_prune
  <2>1. /\ life = "prune" /\ file' = file
        /\ life' = "prune_replace" \/ (life' = "stopped" /\ pending' = <<>>)
        /\ \/ dropped' = dropped \cup (RowsOf(file.lines) \ RowsOf(pruned.lines))
           \/ dropped' = dropped
        /\ UNCHANGED <<captured, delivered, lost, crashes>>
    BY <1>5 DEF stop_prune
  <2>2. WaitingRows = RowsOf(file.lines) /\ WaitingRows' = WaitingRows
    BY <1>1, <1>2, <2>1 DEF WaitingRows
  <2>3. Remains(file, pruned)
    BY TypedParts, PruneTakesTheOldest DEF Typed, Ordered, FileOrder, Tidy
  <2>4. PICK P : P = RowsOf(file.lines) \ RowsOf(pruned.lines)
    OBVIOUS
  <2>5. P \in SUBSET WaitingRows /\ Before(P, WaitingRows \ P)
    BY <2>2, <2>3, <2>4 DEF Remains, Before
  <2>6. CASE dropped' = dropped \cup P
    BY <2>1, <2>2, <2>5, <2>6, FrontMoves
  <2>7. CASE dropped' = dropped
    BY <2>1, <2>2, <2>7, NothingMoves
  <2> QED
    BY <2>1, <2>4, <2>6, <2>7
<1>7. CASE stop_replace
  <2>1. /\ life = "prune_replace" /\ life' = "stopped" /\ pending' = <<>> /\ file' = tmp
        /\ Remains(file, tmp) /\ RowsOf(file.lines) \ RowsOf(tmp.lines) \subseteq dropped
        /\ UNCHANGED <<captured, delivered, dropped, lost, crashes>>
    BY <1>7 DEF stop_replace, history, Ordered, SpillOrder
  <2>2. WaitingRows = RowsOf(file.lines) /\ WaitingRows' = RowsOf(file'.lines)
    BY <1>1, <1>2, <2>1 DEF WaitingRows
  <2>3. PICK P : P = RowsOf(file.lines) \ RowsOf(tmp.lines)
    OBVIOUS
  <2>4. /\ P \in SUBSET WaitingRows /\ Before(P, WaitingRows \ P)
        /\ WaitingRows' = WaitingRows \ P
    BY <2>1, <2>2, <2>3 DEF Remains, Before
  <2> QED
    BY <2>1, <2>3, <2>4, FrontMoves
<1>6. CASE setup
  <2>1. /\ pending = <<>> /\ pending' = <<>>
        /\ UNCHANGED <<file, captured, delivered, dropped, lost, crashes>>
    BY <1>6 DEF setup, OneFlush, history
  <2>2. WaitingRows' = WaitingRows
    BY <1>1, <1>2, <2>1 DEF WaitingRows
  <2> QED
    BY <2>1, <2>2, NothingMoves
<1> QED
  BY <1>3, <1>4, <1>5, <1>6, <1>7 DEF unload

LEMMA CrashIsQueued ==
    ASSUME ~Overlap, Typed, OneFlush, Ordered, Typed', QueueShape, QueueShape', crash
    PROVE  [Queue!Next]_(Queue!outboxVars)
<1>1. /\ lost' = lost \cup ((RowsOf(file.lines) \cup InMemory) \ RowsOf(file'.lines))
      /\ life' = "running" /\ pending' = <<>> /\ batch' = [f \in Flushes |-> <<>>]
      /\ crashes' = crashes + 1
      /\ UNCHANGED <<captured, delivered, dropped>>
  BY DEF crash
<1>2. WaitingRows' = RowsOf(file'.lines)
  BY <1>1, NoRowsAtAll DEF WaitingRows, InBatches
<1>3. RowsOf(file'.lines) \subseteq WaitingRows
  <2>1. CASE file' = file
    BY <2>1 DEF WaitingRows
  <2>2. ASSUME NEW rows \in Written, NEW k \in 1..Len(rows), NEW whole \in BOOLEAN,
               file' = Cut(appended(file, SubSeq(rows, 1, k)), whole)
        PROVE  RowsOf(file'.lines) \subseteq WaitingRows
    <3> DEFINE s == SubSeq(rows, 1, k)
               g == appended(file, s)
    <3>1. captured \in Nat /\ rows \in Seq(1..captured)
      BY TypedParts, WrittenRows
    <3>2. s \in Seq(1..captured) /\ s # <<>> /\ ToSet(s) \subseteq ToSet(rows)
      BY <3>1, FlushedRows
    <3> HIDE DEF s
    <3>3. /\ FileOK(g, captured) /\ g.lines # <<>>
          /\ RowsOf(g.lines) \subseteq RowsOf(file.lines) \cup ToSet(s)
      BY <3>2, TypedParts, AppendKeepsRows DEF Typed
    <3>4. file' = Cut(g, whole)
      BY <2>2 DEF s
    <3>5. RowsOf(file'.lines) \subseteq RowsOf(g.lines)
      BY <3>3, <3>4, CutKeepsTheRest
    <3>6. ToSet(rows) \subseteq WaitingRows
      <4>1. CASE \E f \in Flushes : rows = batch[f]
        BY <4>1 DEF WaitingRows, InBatches
      <4>2. CASE life = "append" /\ rows = pending
        BY <4>2 DEF WaitingRows
      <4> QED
        BY <4>1, <4>2, WrittenRows
    <3>7. RowsOf(file.lines) \subseteq WaitingRows
      BY DEF WaitingRows
    <3> QED
      BY <3>2, <3>3, <3>5, <3>6, <3>7
  <2> QED
    BY <2>1, <2>2, CrashedFile
<1>4. PICK R : R = WaitingRows \ RowsOf(file'.lines)
  OBVIOUS
<1>5. R \in SUBSET WaitingRows /\ WaitingRows' = WaitingRows \ R
  BY <1>2, <1>3, <1>4
<1>6. lost' = lost \cup R
  <2>1. CASE life \in {"prune", "prune_replace"}
    <3>1. ToSet(pending) \subseteq RowsOf(file.lines) \cup lost
      BY <2>1 DEF OneFlush
    <3> QED
      BY <1>1, <1>4, <2>1, <3>1 DEF WaitingRows, InMemory
  <2>2. CASE life \notin {"prune", "prune_replace"}
    BY <1>1, <1>4, <2>2 DEF WaitingRows, InMemory
  <2> QED
    BY <2>1, <2>2
<1>7. crashes' \in {crashes, crashes + 1} /\ crashes' > 0
  BY <1>1, EdgeAssumption DEF Typed
<1> QED
  BY <1>1, <1>5, <1>6, <1>7, RowsLost

LEMMA FlushIsQueued ==
    ASSUME ~Overlap, Typed, OneFlush, QueueShape, QueueShape', NEW f \in Flushes, flush(f)
    PROVE  [Queue!Next]_(Queue!outboxVars)
<1>1. /\ life = "running" /\ life' = life /\ Busy = {}
      /\ batch' = [batch EXCEPT ![f] = pending] /\ pending' = <<>>
      /\ UNCHANGED <<file, captured, delivered, dropped, lost, crashes>>
  BY DEF flush, history
<1>2. \A g \in Flushes : batch[g] = <<>> /\ batch'[g] = IF g = f THEN pending ELSE <<>>
  BY <1>1 DEF Busy, Typed, FlushTypes
<1>3. InBatches = {} /\ InBatches' = ToSet(pending)
  BY <1>2, NoRowsAtAll DEF InBatches
<1>4. WaitingRows' = WaitingRows
  BY <1>1, <1>3, NoRowsAtAll DEF WaitingRows
<1> QED
  BY <1>1, <1>4, NothingMoves

LEMMA StepIsQueued ==
    ASSUME ~Overlap, "escaped" \notin Outcomes, EdgeInv, EdgeInv', QueueShape, QueueShape',
           [Next]_vars
    PROVE  [Queue!Next]_(Queue!outboxVars)
<1>1. Typed /\ OneFlush /\ Ordered /\ Typed'
  BY DEF EdgeInv
<1>2. CASE capture
  BY <1>1, <1>2, RowCaptured
<1>3. CASE tick \/ UNCHANGED vars
  <2>1. UNCHANGED <<life, pending, file, batch, captured, delivered, dropped, lost, crashes>>
    BY <1>3 DEF tick, vars, flushVars, history
  <2>2. WaitingRows' = WaitingRows
    BY <2>1 DEF WaitingRows, InBatches
  <2> QED
    BY <2>1, <2>2, NothingMoves
<1>4. CASE async_stop \/ unload \/ crash
  BY <1>1, <1>4, UnloadIsQueued, CrashIsQueued
<1>5. ASSUME NEW f \in Flushes, flush(f) \/ step(f)
      PROVE  [Queue!Next]_(Queue!outboxVars)
  BY <1>1, <1>5, FlushIsQueued, PeekIsQueued, PushChunkIsQueued, CommitIsQueued,
     ReplaceIsQueued, PushBatchIsQueued, AppendIsQueued, PruneIsQueued DEF step
<1> QED
  BY <1>2, <1>3, <1>4, <1>5 DEF Next

\* The list in memory, the batch of the flush and the file are one queue.
THEOREM EdgeImplementsOutbox ==
    ASSUME ~Overlap, "escaped" \notin Outcomes
    PROVE  Spec => IsAnOutbox
<1>1. EdgeInv => QueueShape
  BY QueueNow
<1>2. Init => Queue!Init
  <2>1. ASSUME Init PROVE waiting = <<>>
    <3>1. QueueShape /\ Typed
      BY <2>1, InitTyped, InitOrder, QueueNow DEF EdgeInv
    <3>2. waiting \in Seq(Nat) /\ ToSet(waiting) = WaitingRows
      BY <3>1 DEF QueueShape
    <3>3. /\ file.lines = <<>> /\ pending = <<>> /\ \A f \in Flushes : pc[f] = "idle"
      BY <2>1 DEF Init, Empty
    <3>4. InBatches = {}
      BY <3>1, <3>3, NoBatches
    <3>5. RowsOf(<<>>) = {}
      <4>1. \A i : i \notin 1..Len(<<>>)
        OBVIOUS
      <4> QED
        BY <4>1 DEF RowsOf, Intact
    <3>6. WaitingRows = {}
      BY <3>3, <3>4, <3>5, NoRowsAtAll DEF WaitingRows
    <3> QED
      BY <3>2, <3>6, Elements
  <2> QED
    BY <2>1 DEF Init, Queue!Init
<1>3. EdgeInv /\ EdgeInv' /\ QueueShape /\ QueueShape' /\ [Next]_vars
        => [Queue!Next]_(Queue!outboxVars)
  BY StepIsQueued
<1> QED
  BY <1>1, <1>2, <1>3, EdgeInvariant, PTL DEF Spec, IsAnOutbox, Queue!Spec
================================================================================
