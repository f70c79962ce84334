------------------------------ MODULE LinesProofs ------------------------------
(***************************************************************************)
(* What the operators on sequences return that the models are built from,  *)
(* for sequences of any length: Kept of Lines.tla, and FlattenSeq of the   *)
(* community modules.                                                      *)
(***************************************************************************)
EXTENDS Lines, SequencesExt, SequenceTheorems, WellFoundedInduction, TLAPS

\* A set of numbers has a least one.
LEMMA Least ==
    ASSUME NEW N \in SUBSET Nat, N # {}
    PROVE  \E m \in N : \A k \in N : ~(k < m)
<1>1. PICK m \in N : \A k \in N : ~(<<k, m>> \in OpToRel(<, Nat))
  BY NatLessThanWellFounded, WFMin
<1>2. \A k \in N : k < m => <<k, m>> \in OpToRel(<, Nat)
  BY DEF OpToRel
<1> QED
  BY <1>1, <1>2

\* One of numbers up to n has a greatest one.
LEMMA Greatest ==
    ASSUME NEW n \in Nat, NEW N \in SUBSET (1..n), N # {}
    PROVE  \E m \in N : \A k \in N : k <= m
<1> DEFINE D == {n - k : k \in N}
<1>1. D \in SUBSET Nat /\ D # {}
  <2>1. \A k \in N : n - k \in Nat
    OBVIOUS
  <2> QED
    BY <2>1
<1>2. PICK d \in D : \A e \in D : ~(e < d)
  <2> HIDE DEF D
  <2> QED
    BY <1>1, Least
<1>3. PICK m \in N : d = n - m
  OBVIOUS
<1>4. \A k \in N : ~(n - k < n - m)
  BY <1>2, <1>3
<1> QED
  BY <1>3, <1>4

\* A function on 1..n is a sequence of length n.
LEMMA FunctionIsSeq ==
    ASSUME NEW S, NEW n \in Nat, NEW f, f = [i \in 1..n |-> f[i]], \A i \in 1..n : f[i] \in S
    PROVE  f \in Seq(S) /\ Len(f) = n
OBVIOUS

\* The elements of a sequence, and when there are none.
LEMMA Elements ==
    ASSUME NEW S, NEW s \in Seq(S)
    PROVE  /\ ToSet(s) = {s[i] : i \in 1..Len(s)} /\ ToSet(s) \subseteq S
           /\ Len(s) \in Nat
           /\ s = <<>> <=> Len(s) = 0
           /\ s = <<>> <=> ToSet(s) = {}
<1>1. Len(s) \in Nat /\ DOMAIN s = 1..Len(s) /\ \A i \in 1..Len(s) : s[i] \in S
  OBVIOUS
<1>2. ToSet(s) = {s[i] : i \in 1..Len(s)} /\ ToSet(s) \subseteq S
  BY <1>1 DEF ToSet
<1>3. s = <<>> <=> Len(s) = 0
  BY EmptySeq
<1>4. Len(s) = 0 <=> ToSet(s) = {}
  <2>1. CASE Len(s) = 0
    BY <1>2, <2>1
  <2>2. CASE Len(s) # 0
    <3>1. 1 \in 1..Len(s)
      BY <1>1, <2>2
    <3> QED
      BY <1>2, <2>2, <3>1
  <2> QED
    BY <2>1, <2>2
<1> QED
  BY <1>1, <1>2, <1>3, <1>4

--------------------------------------------------------------------------------
(* What Kept keeps.                                                        *)

\* g is what the definition of Kept makes of the first n lines.
Sieves(g, lines, places, n) ==
    g = [i \in 0..n |-> IF i = 0 THEN <<>>
                        ELSE IF i \in places THEN Append(g[i - 1], lines[i]) ELSE g[i - 1]]

\* The recursion of Kept has a solution.
LEMMA SieveExists ==
    ASSUME NEW lines, NEW places, NEW n \in Nat
    PROVE  \E g : Sieves(g, lines, places, n)
<1> DEFINE Bad == {m \in Nat : ~\E g : Sieves(g, lines, places, m)}
<1>1. SUFFICES ASSUME Bad # {} PROVE FALSE
  OBVIOUS
<1>2. PICK m \in Bad : \A k \in Bad : ~(k < m)
  BY <1>1, Least
<1>3. CASE m = 0
  <2>1. Sieves([i \in 0..0 |-> <<>>], lines, places, 0)
    BY DEF Sieves
  <2> QED
    BY <1>3, <2>1
<1>4. CASE m # 0
  <2>1. m - 1 \in Nat /\ m - 1 < m /\ m \in Nat
    BY <1>4
  <2>2. m - 1 \notin Bad
    BY <1>2, <2>1
  <2>3. PICK g : Sieves(g, lines, places, m - 1)
    BY <2>1, <2>2
  <2> DEFINE h == [i \in 0..m |-> IF i = 0 THEN <<>>
                        ELSE IF i \in places THEN Append(g[i - 1], lines[i]) ELSE g[i - 1]]
  <2>4. \A i \in 0..(m - 1) : h[i] = g[i]
    <3>1. \A i \in 0..(m - 1) : g[i] = IF i = 0 THEN <<>>
                        ELSE IF i \in places THEN Append(g[i - 1], lines[i]) ELSE g[i - 1]
      BY <2>3, Zenon DEF Sieves
    <3>2. 0..(m - 1) \subseteq 0..m
      BY <2>1
    <3> QED
      BY <3>1, <3>2
  <2>5. Sieves(h, lines, places, m)
    <3>1. \A i \in 0..m : i # 0 => i - 1 \in 0..(m - 1)
      BY <2>1
    <3> QED
     BY <2>4, <3>1 DEF Sieves
  <2> QED
    BY <2>5
<1> QED
  BY <1>3, <1>4

\* What a sieve has kept of the first i lines.
KeptOf(kept, lines, places, i) ==
    /\ kept \in Seq({lines[p] : p \in {q \in places : q <= i}})
    /\ Len(kept) <= i
    /\ \A p \in places : p <= i => \E k \in 1..Len(kept) : k <= p /\ kept[k] = lines[p]
    /\ \A j, k \in 1..Len(kept) : j < k =>
         \E p, q \in places : p < q /\ q <= i /\ kept[j] = lines[p] /\ kept[k] = lines[q]

\* What it has kept of the first i lines.
LEMMA SieveKeeps ==
    ASSUME NEW lines, NEW n \in Nat, NEW places \in SUBSET (1..n), NEW g,
           Sieves(g, lines, places, n), NEW i \in 0..n
    PROVE  KeptOf(g[i], lines, places, i)
<1> DEFINE Bad == {m \in 0..n : ~KeptOf(g[m], lines, places, m)}
<1>1. SUFFICES ASSUME Bad # {} PROVE FALSE
  OBVIOUS
<1>2. PICK m \in Bad : \A k \in Bad : ~(k < m)
  <2>1. Bad \subseteq Nat
    OBVIOUS
  <2> HIDE DEF Bad
  <2> QED
    BY <1>1, <2>1, Least
<1>3. \A j \in 0..n : g[j] = IF j = 0 THEN <<>>
                        ELSE IF j \in places THEN Append(g[j - 1], lines[j]) ELSE g[j - 1]
  BY Zenon DEF Sieves
<1>4. CASE m = 0
  <2>1. g[0] = <<>>
    BY <1>3
  <2>2. \A p \in places : ~(p <= 0)
    OBVIOUS
  <2>3. KeptOf(g[0], lines, places, 0)
    BY <2>1, <2>2 DEF KeptOf
  <2> QED
    BY <1>4, <2>3
<1>5. CASE m # 0
  <2>1. m - 1 \in 0..n /\ m - 1 < m /\ m \in 0..n /\ m \in Nat /\ m - 1 \in Nat
    BY <1>5
  <2>2. m - 1 \notin Bad
    BY <1>2, <2>1
  <2> DEFINE before == g[m - 1]
             S == {lines[p] : p \in {q \in places : q <= m - 1}}
             T == {lines[p] : p \in {q \in places : q <= m}}
  <2>3. /\ before \in Seq(S) /\ Len(before) <= m - 1 /\ Len(before) \in Nat
        /\ \A p \in places : p <= m - 1 => \E k \in 1..Len(before) : k <= p /\ before[k] = lines[p]
        /\ \A j, k \in 1..Len(before) : j < k =>
             \E p, q \in places : p < q /\ q <= m - 1 /\ before[j] = lines[p] /\ before[k] = lines[q]
    <3>1. KeptOf(before, lines, places, m - 1)
      BY <2>1, <2>2
    <3>2. Len(before) \in Nat
      BY <3>1 DEF KeptOf
    <3> QED
      BY <3>1, <3>2, Zenon DEF KeptOf
  <2>4. S \subseteq T
    <3>1. \A p \in places : p \in 1..n
      OBVIOUS
    <3>2. \A p \in places : p <= m - 1 => p <= m
      BY <2>1, <3>1
    <3> QED
      BY <3>2, Zenon
  <2>5. before \in Seq(T)
    <3> HIDE DEF S, T, before
    <3> QED
      BY <2>3, <2>4
  <2> HIDE DEF S, before
  <2>6. CASE m \in places
    <3>1. g[m] = Append(before, lines[m])
      BY <1>3, <1>5, <2>1, <2>6 DEF before
    <3>2. lines[m] \in T
      BY <2>1, <2>6
    <3> HIDE DEF T
    <3>3. g[m] \in Seq(T) /\ Len(g[m]) = Len(before) + 1 /\ g[m][Len(before) + 1] = lines[m]
          /\ \A k \in 1..Len(before) : g[m][k] = before[k]
      BY <2>5, <3>1, <3>2
    <3>4. ASSUME NEW p \in places, p <= m
          PROVE  \E k \in 1..Len(g[m]) : k <= p /\ g[m][k] = lines[p]
      <4>1. CASE p <= m - 1
        <5>1. PICK k \in 1..Len(before) : k <= p /\ before[k] = lines[p]
          BY <2>3, <4>1
        <5>2. k \in 1..Len(g[m])
          BY <2>3, <3>3
        <5> QED
          BY <3>3, <5>1, <5>2
      <4>2. CASE ~(p <= m - 1)
        <5>1. p = m
          BY <2>1, <3>4, <4>2
        <5>2. Len(before) + 1 <= p /\ Len(before) + 1 \in 1..Len(g[m])
          BY <2>1, <2>3, <3>3, <5>1
        <5> QED
          BY <3>3, <5>1, <5>2
      <4> QED
        BY <4>1, <4>2
    <3>5. Len(g[m]) <= m
      BY <2>1, <2>3, <3>3
    <3>6. ASSUME NEW j \in 1..Len(g[m]), NEW k \in 1..Len(g[m]), j < k
          PROVE  \E p, q \in places : p < q /\ q <= m /\ g[m][j] = lines[p] /\ g[m][k] = lines[q]
      <4>1. j \in 1..Len(before)
        BY <2>3, <3>3, <3>6
      <4>2. CASE k \in 1..Len(before)
        <5>1. PICK p \in places, q \in places :
                p < q /\ q <= m - 1 /\ before[j] = lines[p] /\ before[k] = lines[q]
          BY <2>3, <3>6, <4>1, <4>2
        <5> QED
          BY <2>1, <3>3, <4>1, <4>2, <5>1
      <4>3. CASE k \notin 1..Len(before)
        <5>1. k = Len(before) + 1
          BY <2>3, <3>3, <4>3
        <5>2. before[j] \in S
          BY <2>3, <4>1
        <5>3. PICK p \in places : p <= m - 1 /\ before[j] = lines[p]
          BY <5>2 DEF S
        <5>4. p < m
          BY <2>1, <5>3
        <5> QED
          BY <2>1, <2>6, <3>3, <4>1, <5>1, <5>3, <5>4
      <4> QED
        BY <4>2, <4>3
    <3>7. KeptOf(g[m], lines, places, m)
      BY <3>3, <3>4, <3>5, <3>6 DEF KeptOf, T
    <3> QED
      BY <3>7
  <2>7. CASE m \notin places
    <3>1. g[m] = before
      BY <1>3, <1>5, <2>1, <2>7 DEF before
    <3>2. \A p \in places : p <= m => p <= m - 1
      BY <2>1, <2>7
    <3>3. Len(before) <= m
      BY <2>1, <2>3
    <3>4. \A q \in places : q <= m - 1 => q <= m
      BY <2>1
    <3>5. KeptOf(g[m], lines, places, m)
      BY <2>3, <2>5, <3>1, <3>2, <3>3, <3>4 DEF KeptOf
    <3> QED
      BY <3>5
  <2> QED
    BY <2>6, <2>7
<1> QED
  BY <1>4, <1>5

\* Every line kept is at one of the places, the line of each place is kept,
\* not further back than it was, and the order stays.
KeptFrom(kept, lines, places) ==
    /\ \A k \in 1..Len(kept) : \E p \in places : kept[k] = lines[p]
    /\ \A p \in places : \E k \in 1..Len(kept) : k <= p /\ kept[k] = lines[p]
    /\ \A j, k \in 1..Len(kept) : j < k =>
         \E p, q \in places : p < q /\ kept[j] = lines[p] /\ kept[k] = lines[q]

\* Kept keeps just the lines at the places, in their order.
LEMMA KeptLines ==
    ASSUME NEW S, NEW lines \in Seq(S), NEW places \in SUBSET (1..Len(lines)),
           NEW kept, kept = Kept(lines, places)
    PROVE  kept \in Seq(S) /\ KeptFrom(kept, lines, places)
<1>1. PICK n \in Nat : n = Len(lines)
  OBVIOUS
<1>2. \E h : Sieves(h, lines, places, n)
  BY SieveExists
<1>3. PICK g : Sieves(g, lines, places, n) /\ Kept(lines, places) = g[n]
  BY <1>1, <1>2 DEF Kept, Sieves
<1>4. KeptOf(kept, lines, places, n)
  <2>1. places \in SUBSET (1..n) /\ n \in 0..n
    BY <1>1
  <2> QED
    BY <1>3, <2>1, SieveKeeps
<1>5. \A p \in places : p <= n
  <2>1. \A p \in places : p \in 1..n
    BY <1>1
  <2> QED
    BY <2>1
<1>6. {q \in places : q <= n} = places
  BY <1>5
<1>7. kept \in Seq({lines[p] : p \in places})
  BY <1>4, <1>6 DEF KeptOf
<1>8. kept \in Seq(S) /\ \A k \in 1..Len(kept) : \E p \in places : kept[k] = lines[p]
  <2> DEFINE T == {lines[p] : p \in places}
  <2>1. T \subseteq S
    <3>1. \A p \in places : lines[p] \in S
      <4>1. \A p \in places : p \in 1..Len(lines)
        OBVIOUS
      <4> QED
        BY <4>1, ElementOfSeq
    <3> QED
      BY <3>1
  <2>2. kept \in Seq(S) /\ \A k \in 1..Len(kept) : kept[k] \in T
    <3>1. kept \in Seq(T)
      BY <1>7
    <3> HIDE DEF T
    <3> QED
      BY <2>1, <3>1
  <2> QED
    BY <2>2
<1>9. \A p \in places : \E k \in 1..Len(kept) : k <= p /\ kept[k] = lines[p]
  <2>1. \A p \in places : p <= n => \E k \in 1..Len(kept) : k <= p /\ kept[k] = lines[p]
    BY <1>4 DEF KeptOf
  <2> QED
    BY <1>5, <2>1
<1>10. \A j, k \in 1..Len(kept) : j < k =>
         \E p, q \in places : p < q /\ kept[j] = lines[p] /\ kept[k] = lines[q]
  <2>1. \A j, k \in 1..Len(kept) : j < k =>
         \E p, q \in places : p < q /\ q <= n /\ kept[j] = lines[p] /\ kept[k] = lines[q]
    BY <1>4 DEF KeptOf
  <2> QED
    BY <2>1
<1> QED
  BY <1>8, <1>9, <1>10 DEF KeptFrom
--------------------------------------------------------------------------------
(* What FlattenSeq puts together.                                          *)

\* g is what the definition of FlattenSeq makes of the first n sequences.
Joins(g, seqs, n) ==
    g = [i \in 1..n |-> IF i = 1 THEN seqs[i] ELSE g[i - 1] \o seqs[i]]

\* The recursion of FlattenSeq has a solution.
LEMMA JoinExists ==
    ASSUME NEW seqs, NEW n \in Nat
    PROVE  \E g : Joins(g, seqs, n)
<1> DEFINE Bad == {m \in Nat : ~\E g : Joins(g, seqs, m)}
<1>1. SUFFICES ASSUME Bad # {} PROVE FALSE
  OBVIOUS
<1>2. PICK m \in Bad : \A k \in Bad : ~(k < m)
  BY <1>1, Least
<1>3. CASE m = 0
  <2>1. Joins([i \in 1..0 |-> <<>>], seqs, 0)
    BY DEF Joins
  <2> QED
    BY <1>3, <2>1
<1>4. CASE m # 0
  <2>1. m - 1 \in Nat /\ m - 1 < m /\ m \in Nat
    BY <1>4
  <2>2. m - 1 \notin Bad
    BY <1>2, <2>1
  <2>3. PICK g : Joins(g, seqs, m - 1)
    BY <2>1, <2>2
  <2> DEFINE h == [i \in 1..m |-> IF i = 1 THEN seqs[i] ELSE g[i - 1] \o seqs[i]]
  <2>4. \A i \in 1..(m - 1) : h[i] = g[i]
    <3>1. \A i \in 1..(m - 1) : g[i] = IF i = 1 THEN seqs[i] ELSE g[i - 1] \o seqs[i]
      BY <2>3, Zenon DEF Joins
    <3>2. 1..(m - 1) \subseteq 1..m
      BY <2>1
    <3> QED
      BY <3>1, <3>2
  <2>5. Joins(h, seqs, m)
    <3>1. \A i \in 1..m : i # 1 => i - 1 \in 1..(m - 1)
      BY <2>1
    <3> QED
      BY <2>4, <3>1 DEF Joins
  <2> QED
    BY <2>5
<1> QED
  BY <1>3, <1>4

\* What has been joined of the first n sequences: all of their elements, in
\* the order of the sequences and of the places in them.
JoinedOf(flat, seqs, n) ==
    /\ \A i \in 1..n : \A a \in 1..Len(seqs[i]) : \E k \in 1..Len(flat) : flat[k] = seqs[i][a]
    /\ \A k \in 1..Len(flat) : \E i \in 1..n : \E a \in 1..Len(seqs[i]) : flat[k] = seqs[i][a]
    /\ \A k, l \in 1..Len(flat) : k < l =>
         \E i, j \in 1..n : \E a \in 1..Len(seqs[i]), b \in 1..Len(seqs[j]) :
           /\ flat[k] = seqs[i][a] /\ flat[l] = seqs[j][b]
           /\ i < j \/ (i = j /\ a < b)

\* One sequence more.
LEMMA JoinOneMore ==
    ASSUME NEW S, NEW n \in Nat, NEW seqs, \A i \in 1..(n + 1) : seqs[i] \in Seq(S),
           NEW flat \in Seq(S), JoinedOf(flat, seqs, n)
    PROVE  flat \o seqs[n + 1] \in Seq(S) /\ JoinedOf(flat \o seqs[n + 1], seqs, n + 1)
<1> DEFINE next == seqs[n + 1]
           F == flat \o next
<1>1. /\ next \in Seq(S) /\ F \in Seq(S) /\ Len(flat) \in Nat /\ Len(next) \in Nat
      /\ Len(F) = Len(flat) + Len(next)
      /\ \A k \in 1..(Len(flat) + Len(next)) :
           F[k] = IF k <= Len(flat) THEN flat[k] ELSE next[k - Len(flat)]
  <2>1. next \in Seq(S)
    OBVIOUS
  <2> HIDE DEF next
  <2> QED
    BY <2>1, ConcatProperties, LenProperties
<1> HIDE DEF F
<1>2. \A k \in 1..Len(flat) : k \in 1..Len(F) /\ F[k] = flat[k]
  BY <1>1
<1>3. \A a \in 1..Len(next) : Len(flat) + a \in 1..Len(F) /\ F[Len(flat) + a] = next[a]
  BY <1>1
<1>4. \A k \in 1..Len(F) : k \notin 1..Len(flat) =>
        k - Len(flat) \in 1..Len(next) /\ F[k] = next[k - Len(flat)]
  BY <1>1
<1>5. \A i \in 1..(n + 1) : i \in 1..n \/ i = n + 1
  OBVIOUS
<1>6. 1..n \subseteq 1..(n + 1) /\ n + 1 \in 1..(n + 1) /\ \A i \in 1..n : i < n + 1
  OBVIOUS
<1>7. \A i \in 1..(n + 1) : \A a \in 1..Len(seqs[i]) : \E k \in 1..Len(F) : F[k] = seqs[i][a]
  <2> TAKE i \in 1..(n + 1)
  <2> TAKE a \in 1..Len(seqs[i])
  <2>1. CASE i \in 1..n
    <3>1. PICK k \in 1..Len(flat) : flat[k] = seqs[i][a]
      BY <2>1 DEF JoinedOf
    <3> QED
      BY <1>2, <3>1
  <2>2. CASE i = n + 1
    BY <1>3, <2>2
  <2> QED
    BY <1>5, <2>1, <2>2
<1>8. ASSUME NEW k \in 1..Len(flat)
      PROVE  \E i \in 1..n : \E a \in 1..Len(seqs[i]) : F[k] = seqs[i][a]
  BY <1>2 DEF JoinedOf
<1>9. \A k \in 1..Len(F) : \E i \in 1..(n + 1) : \E a \in 1..Len(seqs[i]) : F[k] = seqs[i][a]
  <2> TAKE k \in 1..Len(F)
  <2>1. CASE k \in 1..Len(flat)
    BY <1>6, <1>8, <2>1
  <2>2. CASE k \notin 1..Len(flat)
    BY <1>4, <1>6, <2>2
  <2> QED
    BY <2>1, <2>2
<1>10. ASSUME NEW k \in 1..Len(F), NEW l \in 1..Len(F), k < l
       PROVE  \E i, j \in 1..(n + 1) : \E a \in 1..Len(seqs[i]), b \in 1..Len(seqs[j]) :
                /\ F[k] = seqs[i][a] /\ F[l] = seqs[j][b]
                /\ i < j \/ (i = j /\ a < b)
  <2>1. CASE l \in 1..Len(flat)
    <3>1. k \in 1..Len(flat)
      BY <1>1, <1>10, <2>1
    <3>2. PICK i \in 1..n, j \in 1..n : \E a \in 1..Len(seqs[i]), b \in 1..Len(seqs[j]) :
                /\ flat[k] = seqs[i][a] /\ flat[l] = seqs[j][b]
                /\ i < j \/ (i = j /\ a < b)
      BY <1>10, <2>1, <3>1 DEF JoinedOf
    <3> QED
      BY <1>2, <1>6, <2>1, <3>1, <3>2
  <2>2. CASE l \notin 1..Len(flat) /\ k \in 1..Len(flat)
    <3>1. PICK i \in 1..n : \E a \in 1..Len(seqs[i]) : F[k] = seqs[i][a]
      BY <1>8, <2>2
    <3>2. l - Len(flat) \in 1..Len(next) /\ F[l] = next[l - Len(flat)]
      BY <1>4, <2>2
    <3>3. i < n + 1 /\ i \in 1..(n + 1) /\ n + 1 \in 1..(n + 1)
      BY <1>6
    <3> QED
      BY <3>1, <3>2, <3>3
  <2>3. CASE l \notin 1..Len(flat) /\ k \notin 1..Len(flat)
    <3>1. l - Len(flat) \in 1..Len(next) /\ F[l] = next[l - Len(flat)]
      BY <1>4, <2>3
    <3>2. k - Len(flat) \in 1..Len(next) /\ F[k] = next[k - Len(flat)]
      BY <1>4, <2>3
    <3>3. k - Len(flat) < l - Len(flat) /\ n + 1 \in 1..(n + 1)
      BY <1>1, <1>6, <1>10
    <3> QED
      BY <3>1, <3>2, <3>3
  <2>4. l \in 1..Len(flat) => k \in 1..Len(flat)
    BY <1>1, <1>10
  <2> QED
    BY <2>1, <2>2, <2>3, <2>4
<1>11. JoinedOf(F, seqs, n + 1)
  BY <1>7, <1>9, <1>10 DEF JoinedOf
<1> QED
  BY <1>1, <1>11 DEF F

\* FlattenSeq keeps all elements of the sequences, and their order.
LEMMA FlattenJoins ==
    ASSUME NEW S, NEW seqs \in Seq(Seq(S)), NEW flat, flat = FlattenSeq(seqs)
    PROVE  flat \in Seq(S) /\ JoinedOf(flat, seqs, Len(seqs))
<1>1. /\ Len(seqs) \in Nat /\ \A i \in 1..Len(seqs) : seqs[i] \in Seq(S)
      /\ Len(seqs) = 0 <=> seqs = <<>>
  BY LenProperties, ElementOfSeq, EmptySeq
<1>2. CASE Len(seqs) = 0
  <2>1. flat = <<>> /\ Len(flat) = 0
    BY <1>1, <1>2 DEF FlattenSeq
  <2> QED
    BY <1>2, <2>1 DEF JoinedOf
<1>3. CASE Len(seqs) # 0
  <2>1. PICK n \in Nat : n = Len(seqs) /\ n # 0
    BY <1>1, <1>3
  <2>2. \E h : Joins(h, seqs, n)
    BY JoinExists
  <2>3. PICK g : Joins(g, seqs, n) /\ flat = g[n]
    BY <2>1, <2>2 DEF FlattenSeq, Joins
  <2>4. \A i \in 1..n : g[i] = IF i = 1 THEN seqs[i] ELSE g[i - 1] \o seqs[i]
    BY <2>3, Zenon DEF Joins
  <2> DEFINE Bad == {i \in 1..n : ~(g[i] \in Seq(S) /\ JoinedOf(g[i], seqs, i))}
  <2>5. SUFFICES ASSUME Bad # {} PROVE FALSE
    <3>1. n \in 1..n
      BY <2>1
    <3> QED
      BY <2>1, <2>3, <3>1
  <2>6. PICK m \in Bad : \A k \in Bad : ~(k < m)
    <3>1. Bad \subseteq Nat
      OBVIOUS
    <3> HIDE DEF Bad
    <3> QED
      BY <2>5, <3>1, Least
  <2>7. CASE m = 1
    <3>1. g[1] = seqs[1] /\ seqs[1] \in Seq(S) /\ 1 \in 1..n
      BY <1>1, <2>1, <2>4
    <3>2. JoinedOf(seqs[1], seqs, 1)
      <4>1. 1 \in 1..1 /\ \A i \in 1..1 : i = 1
        OBVIOUS
      <4>2. \A i \in 1..1 : \A a \in 1..Len(seqs[i]) :
              \E k \in 1..Len(seqs[1]) : seqs[1][k] = seqs[i][a]
        BY <4>1
      <4>3. \A k \in 1..Len(seqs[1]) : \E i \in 1..1 : \E a \in 1..Len(seqs[i]) :
              seqs[1][k] = seqs[i][a]
        BY <4>1
      <4>4. \A k, l \in 1..Len(seqs[1]) : k < l =>
              \E i, j \in 1..1 : \E a \in 1..Len(seqs[i]), b \in 1..Len(seqs[j]) :
                /\ seqs[1][k] = seqs[i][a] /\ seqs[1][l] = seqs[j][b]
                /\ i < j \/ (i = j /\ a < b)
        BY <4>1
      <4> QED
        BY <4>2, <4>3, <4>4 DEF JoinedOf
    <3> QED
      BY <2>6, <2>7, <3>1, <3>2
  <2>8. CASE m # 1
    <3>1. m - 1 \in 1..n /\ m - 1 < m /\ m - 1 \in Nat /\ (m - 1) + 1 = m /\ m \in 1..n
      BY <2>8
    <3>2. g[m - 1] \in Seq(S) /\ JoinedOf(g[m - 1], seqs, m - 1)
      BY <2>6, <3>1
    <3>3. g[m] = g[m - 1] \o seqs[m]
      BY <2>4, <2>8, <3>1
    <3>4. \A i \in 1..((m - 1) + 1) : seqs[i] \in Seq(S)
      BY <1>1, <2>1, <3>1
    <3>5. g[m] \in Seq(S) /\ JoinedOf(g[m], seqs, m)
      <4>1. PICK k \in Nat : k = m - 1 /\ k + 1 = m
        BY <3>1
      <4>2. g[k] \o seqs[k + 1] \in Seq(S) /\ JoinedOf(g[k] \o seqs[k + 1], seqs, k + 1)
        BY <3>2, <3>4, <4>1, JoinOneMore
      <4> QED
        BY <3>3, <4>1, <4>2
    <3> QED
      BY <2>6, <3>5
  <2> QED
    BY <2>7, <2>8
<1> QED
  BY <1>2, <1>3
================================================================================
