---------------------------- MODULE AcquirerProofs ----------------------------
(***************************************************************************)
(* What the lake guarantees, for any partitions, lag, lines, late arrivals,*)
(* runs that die and files that cannot be read.                            *)
(***************************************************************************)
EXTENDS Acquirer, FiniteSetTheorems, WellFoundedInduction, TLAPS

--------------------------------------------------------------------------------
(* The newest of several.                                                  *)

\* A set of numbers below a bound has a greatest one: N - x has a least.
LEMMA MaxExists ==
    ASSUME NEW N \in Nat, NEW S, S \subseteq 0..N, S # {}
    PROVE  \E m \in S : \A x \in S : m >= x
<1> DEFINE T == {N - x : x \in S}
<1>1. T \subseteq Nat /\ T # {}
  <2>1. \A x \in S : N - x \in Nat
    OBVIOUS
  <2>2. \E x \in S : N - x \in T
    OBVIOUS
  <2> QED
    BY <2>1, <2>2
<1>2. PICK t \in T : \A u \in T : ~(<<u, t>> \in OpToRel(<, Nat))
  <2> HIDE DEF T
  <2> QED
    BY <1>1, NatLessThanWellFounded, WFMin
<1>3. \A u \in T : t <= u
  <2> HIDE DEF T
  <2>1. ASSUME NEW u \in T PROVE t <= u
    <3>1. u \in Nat /\ t \in Nat
      BY <1>1, <1>2
    <3>2. ~(u < t)
      BY <1>2, <3>1 DEF OpToRel
    <3> QED
      BY <3>1, <3>2
  <2> QED
    BY <2>1
<1>4. PICK m \in S : t = N - m
  BY <1>2
<1>5. \A x \in S : m >= x
  BY <1>3, <1>4
<1> QED
  BY <1>5

\* The newest hour of a kind that has lines.
LEMMA NewestHour ==
    ASSUME TypeOK, NEW k \in Kinds, staged[k] # {}
    PROVE  Max({r.at : r \in staged[k]}) \in Hours
<1> DEFINE S == {r.at : r \in staged[k]}
<1>1. MaxHour \in Nat
  BY AcquirerAssumption
<1>2. \A r \in staged[k] : r.at \in Hours
  BY DEF TypeOK, Row
<1>3. S \subseteq Hours /\ S # {}
  BY <1>2
<1>4. S \subseteq 0..MaxHour
  BY <1>1, <1>3 DEF Hours
<1> HIDE DEF S
<1>5. \E m \in S : \A x \in S : m >= x
  BY <1>1, <1>3, <1>4, MaxExists
<1>6. Max(S) \in S
  BY <1>5 DEF Max
<1> QED
  BY <1>3, <1>6 DEF S

--------------------------------------------------------------------------------
(* What merging does to a partition.                                       *)

LEMMA InReadings ==
    ASSUME NEW rows, NEW key, NEW c
    PROVE  c \in Readings(rows, key) <=> \E r \in rows : Key(r) = key /\ c \in r.cols
BY DEF Readings

\* Of the rows of a key, drop_duplicates keeps one.
LEMMA LastExists ==
    ASSUME NEW rows, rows \subseteq Row, NEW r \in rows
    PROVE  \E s \in last(rows) : Key(s) = Key(r)
<1> DEFINE same == {q \in rows : Key(q) = Key(r)}
           S == {q.no : q \in same}
<1>1. MaxLines \in Nat
  BY AcquirerAssumption
<1>2. \A q \in same : q.no \in 1..MaxLines
  BY DEF Row
<1>3. S \subseteq 0..MaxLines
  BY <1>1, <1>2
<1>4. r.no \in S
  OBVIOUS
<1>5. PICK m \in S : \A x \in S : m >= x
  <2> HIDE DEF S
  <2> QED
    BY <1>1, <1>3, <1>4, MaxExists
<1>6. PICK s \in same : s.no = m
  OBVIOUS
<1>7. \A q \in rows : Key(q) = Key(s) => q.no <= s.no
  <2>1. ASSUME NEW q \in rows, Key(q) = Key(s)
        PROVE  q.no <= s.no
    <3>1. q \in same
      BY <1>6, <2>1
    <3>2. m >= q.no
      BY <1>5, <3>1
    <3>3. q.no \in Nat /\ s.no \in Nat
      BY <1>2, <1>6, <3>1
    <3> QED
      BY <1>6, <3>2, <3>3
  <2> QED
    BY <2>1
<1> QED
  BY <1>6, <1>7 DEF last

\* What is written is made of what was there and of the payload, and no key is
\* lost; where both are numbered, so is the outcome, with one row for a key
\* once there was something to merge into.
Numbering(rows) == \A p, q \in rows : p.no = q.no => p = q

LEMMA WrittenTo ==
    ASSUME NEW prev, NEW payload, prev \subseteq Row, payload \subseteq Row,
           NEW out, out = written_to(prev, payload)
    PROVE  /\ out \subseteq Row
           /\ \A q \in out : \E p \in prev \cup payload :
                 p.no = q.no /\ Key(p) = Key(q) /\ p.cols \subseteq q.cols
           /\ \A q \in out : \A c \in q.cols :
                 \E p \in prev \cup payload : Key(p) = Key(q) /\ c \in p.cols
           /\ \A p \in payload : \E q \in out : Key(q) = Key(p) /\ (prev = {} => q = p)
           /\ \A p \in prev : \E q \in out : Key(q) = Key(p)
           /\ prev # {} /\ Numbering(prev) /\ Numbering(payload)
                 => \A p, q \in out : Key(p) = Key(q) => p = q
<1>1. CASE prev = {}
  <2>1. out = payload
    BY <1>1 DEF written_to
  <2> QED
    BY <1>1, <2>1
<1>2. CASE prev # {}
  <2> DEFINE new == last(payload)
             old == last(prev)
             cols(r) == r.cols \cup UNION {o.cols : o \in {q \in old : Key(q) = Key(r)}}
             kept == {o \in old : \A r \in new : Key(r) # Key(o)}
  <2>1. out = {[r EXCEPT !.cols = cols(r)] : r \in new} \cup kept
    BY <1>2 DEF written_to, combine_first
  <2>2. new \subseteq payload /\ old \subseteq prev
    BY DEF last
  <2>3. ASSUME NEW r \in new
        PROVE  /\ [r EXCEPT !.cols = cols(r)] \in Row
               /\ [r EXCEPT !.cols = cols(r)].cols = cols(r)
               /\ [r EXCEPT !.cols = cols(r)].no = r.no
               /\ Key([r EXCEPT !.cols = cols(r)]) = Key(r)
    <3>1. r \in Row
      BY <2>2
    <3>2. \A o \in old : o.cols \subseteq UNION Payloads
      BY <2>2 DEF Row
    <3>3. cols(r) \subseteq UNION Payloads
      BY <3>1, <3>2 DEF Row
    <3> HIDE DEF cols
    <3> QED
      BY <3>1, <3>3 DEF Row, Key
  <2>4. ASSUME NEW r \in new, NEW c \in cols(r)
        PROVE  \E p \in prev \cup payload : Key(p) = Key(r) /\ c \in p.cols
    BY <2>2
  <2> HIDE DEF cols, new, old
  <2>5. ASSUME NEW q \in out
        PROVE  \/ q \in kept
               \/ \E r \in new : q = [r EXCEPT !.cols = cols(r)]
    BY <2>1
  <2>6. out \subseteq Row
    BY <2>2, <2>3, <2>5
  <2>7. ASSUME NEW q \in out
        PROVE  /\ \E p \in prev \cup payload :
                    p.no = q.no /\ Key(p) = Key(q) /\ p.cols \subseteq q.cols
               /\ \A c \in q.cols :
                    \E p \in prev \cup payload : Key(p) = Key(q) /\ c \in p.cols
    <3>1. CASE q \in kept
      <4>1. q \in prev
        BY <2>2, <3>1
      <4> QED
        BY <4>1
    <3>2. ASSUME NEW r \in new, q = [r EXCEPT !.cols = cols(r)]
          PROVE  /\ \E p \in prev \cup payload :
                    p.no = q.no /\ Key(p) = Key(q) /\ p.cols \subseteq q.cols
                 /\ \A c \in q.cols :
                      \E p \in prev \cup payload : Key(p) = Key(q) /\ c \in p.cols
      <4>1. r \in payload /\ q.no = r.no /\ Key(q) = Key(r) /\ q.cols = cols(r)
            /\ r.cols \subseteq cols(r)
        BY <2>2, <2>3, <3>2 DEF cols
      <4>2. \E p \in prev \cup payload :
                    p.no = q.no /\ Key(p) = Key(q) /\ p.cols \subseteq q.cols
        BY <4>1
      <4>3. \A c \in q.cols :
              \E p \in prev \cup payload : Key(p) = Key(q) /\ c \in p.cols
        BY <2>4, <4>1
      <4> QED
        BY <4>2, <4>3
    <3> QED
      BY <2>5, <3>1, <3>2
  <2>9. ASSUME NEW r \in new
        PROVE  \E q \in out : Key(q) = Key(r)
    BY <2>1, <2>3
  <2>10. ASSUME NEW p \in payload
         PROVE  \E q \in out : Key(q) = Key(p)
    <3>1. PICK r \in new : Key(r) = Key(p)
      BY LastExists DEF new
    <3> QED
      BY <2>9, <3>1
  <2>11. ASSUME NEW p \in prev
         PROVE  \E q \in out : Key(q) = Key(p)
    <3>1. PICK o \in old : Key(o) = Key(p)
      BY LastExists DEF old
    <3>2. CASE o \in kept
      BY <2>1, <3>1, <3>2
    <3>3. CASE \E r \in new : Key(r) = Key(o)
      BY <2>9, <3>1, <3>3
    <3> QED
      BY <3>2, <3>3
  <2>12. ASSUME Numbering(prev), Numbering(payload)
         PROVE  \A p, q \in out : Key(p) = Key(q) => p = q
    <3>1. ASSUME NEW p \in new, NEW q \in new, Key(p) = Key(q)
          PROVE  p = q
      <4>1. p.no <= q.no /\ q.no <= p.no
        BY <3>1 DEF new, last
      <4>2. p.no \in Nat /\ q.no \in Nat
        BY <2>2, AcquirerAssumption DEF Row
      <4>3. p.no = q.no
        BY <4>1, <4>2
      <4> QED
        BY <2>2, <2>12, <4>3 DEF Numbering
    <3>2. ASSUME NEW p \in old, NEW q \in old, Key(p) = Key(q)
          PROVE  p = q
      <4>1. p.no <= q.no /\ q.no <= p.no
        BY <3>2 DEF old, last
      <4>2. p.no \in Nat /\ q.no \in Nat
        BY <2>2, AcquirerAssumption DEF Row
      <4>3. p.no = q.no
        BY <4>1, <4>2
      <4> QED
        BY <2>2, <2>12, <4>3 DEF Numbering
    <3>3. ASSUME NEW p \in out, NEW q \in out, Key(p) = Key(q)
          PROVE  p = q
      BY <2>3, <2>5, <3>1, <3>2, <3>3
    <3> QED
      BY <3>3
  <2> QED
    BY <1>2, <2>6, <2>7, <2>10, <2>11, <2>12
<1> QED
  BY <1>1, <1>2

--------------------------------------------------------------------------------
(* The invariants.                                                         *)

\* Lines are numbered in the order of staging, over both kinds.
Numbered ==
    /\ IsFiniteSet(Lines)
    /\ \A r \in Lines : r.no <= Cardinality(Lines)
    /\ \A k, l \in Kinds : \A r \in staged[k], s \in staged[l] :
         r.no = s.no => k = l /\ r = s

\* A row of the lake is a line, landed once: lines of one number have one key.
LandedOnce ==
    \A k \in Kinds :
        /\ \A q \in lake[k] : \E s \in staged[k] : s.no = q.no /\ Key(s) = Key(q)
        /\ Numbering(lake[k])

\* A run holds nothing younger than the horizon of when it read.
FrameIsOld == \A r \in frame : r.at + Lag <= now

LandInv == TypeOK /\ Numbered /\ LandedOnce /\ LakeIsOldStaging /\ FrameIsOld

\* Without conflicts there is one reading of a key, on either side.
OneReading ==
    \A k \in Kinds : \A s \in staged[k] : \A r \in staged[k] \cup lake[k] :
        Key(r) = Key(s) => r.cols = s.cols

\* Until a run is through with a kind, its copy of the covered hour is the one on disk.
StateIsCovered ==
    pc \in {"read", "write"} =>
        /\ state[kind] = covered[kind]
        /\ kind = "electrical" => state["weather"] = covered["weather"]

Landed(k, r) == r.cols \subseteq Readings(lake[k], Key(r))
Excused(r) == r.no \in passed \cup held

\* The run is through with a kind.
Done(k) == pc = "save" \/ (pc \in {"read", "write"} /\ kind = "weather" /\ k = "electrical")

\* Every line of a kind the run is at is in its hands, landed or excused; those
\* of a kind it is through with are landed or excused.
Accounted ==
    /\ pc = "write" => \A r \in staged[kind] : r \in frame \/ Landed(kind, r) \/ Excused(r)
    /\ \A k \in Kinds : Done(k) => \A r \in staged[k] : Landed(k, r) \/ Excused(r)

RunInv == OneReading /\ StateIsCovered /\ Accounted /\ NothingIsSkipped

--------------------------------------------------------------------------------
(* The steps of the server and of a run keep LandInv.                      *)

LEMMA LandInit == Init => LandInv
<1> SUFFICES ASSUME Init PROVE LandInv
  OBVIOUS
<1> USE AcquirerAssumption
<1>1. Lines = {} /\ \A k \in Kinds : staged[k] = {} /\ lake[k] = {}
  BY DEF Init, Lines
<1>2. TypeOK
  BY <1>1 DEF Init, TypeOK, Hours, Kinds
<1>3. Numbered
  BY <1>1, FS_EmptySet DEF Numbered
<1>4. LandedOnce /\ LakeIsOldStaging
  BY <1>1 DEF LandedOnce, LakeIsOldStaging, Numbering
<1>5. FrameIsOld
  BY DEF Init, FrameIsOld
<1> QED
  BY <1>2, <1>3, <1>4, <1>5 DEF LandInv

\* Steps that leave the files and the lake alone.
LEMMA LandQuiet ==
    ASSUME LandInv, UNCHANGED <<staged, lake>>, now' \in Nat, now <= now'
    PROVE  Numbered' /\ LandedOnce' /\ LakeIsOldStaging' /\ Lines' = Lines
<1>1. Lines' = Lines
  BY DEF Lines
<1>2. Numbered'
  BY <1>1 DEF LandInv, Numbered
<1>3. LandedOnce'
  BY DEF LandInv, LandedOnce, Numbering
<1>4. LakeIsOldStaging'
  <2>1. ASSUME NEW k \in Kinds, NEW r \in lake[k]
        PROVE  r.cols \subseteq Readings(staged[k], Key(r)) /\ r.at + Lag <= now'
    <3>1. r.cols \subseteq Readings(staged[k], Key(r)) /\ r.at + Lag <= now
      BY <2>1 DEF LandInv, LakeIsOldStaging
    <3>2. r.at \in Nat /\ now \in Nat /\ Lag \in Nat
      BY AcquirerAssumption DEF LandInv, TypeOK, Row, Hours
    <3> QED
      BY <3>1, <3>2
  <2> QED
    BY <2>1 DEF LakeIsOldStaging, Readings
<1> QED
  BY <1>1, <1>2, <1>3, <1>4

LEMMA NowIsNat ==
    ASSUME TypeOK
    PROVE  now \in Nat /\ now <= now
BY AcquirerAssumption DEF TypeOK, Hours

LEMMA TickLands == LandInv /\ tick => LandInv'
<1> SUFFICES ASSUME LandInv, tick PROVE LandInv'
  OBVIOUS
<1>1. now' \in Hours /\ now \in Nat /\ now' = now + 1
  BY AcquirerAssumption DEF LandInv, TypeOK, tick, Hours
<1>2. now' \in Nat /\ now <= now'
  BY <1>1
<1>3. Numbered' /\ LandedOnce' /\ LakeIsOldStaging' /\ Lines' = Lines
  BY <1>2, LandQuiet DEF tick
<1>4. TypeOK'
  BY <1>1, <1>3 DEF LandInv, TypeOK, tick, runVars, history, counters
<1>5. FrameIsOld'
  <2>1. \A r \in frame : r.at \in Nat /\ r.at + Lag <= now
    BY AcquirerAssumption DEF LandInv, TypeOK, FrameIsOld, Row, Hours
  <2> QED
    BY <1>1, <2>1, AcquirerAssumption DEF FrameIsOld, tick, runVars
<1> QED
  BY <1>3, <1>4, <1>5 DEF LandInv

\* The new line has a number of its own.
LEMMA StageLands ==
    ASSUME LandInv, NEW k \in Kinds, NEW r \in Row, stage(k, r)
    PROVE  LandInv'
<1> USE AcquirerAssumption
<1>1. /\ staged' = [staged EXCEPT ![k] = @ \cup {r}]
      /\ lake' = lake /\ now' = now /\ frame' = frame /\ pc' = pc /\ kind' = kind
      /\ covered' = covered /\ state' = state /\ held' = held
      /\ crashes' = crashes /\ unreadable' = unreadable
  BY DEF stage, runVars, counters
<1>2. /\ staged \in [Kinds -> SUBSET Row]
      /\ staged'[k] = staged[k] \cup {r}
      /\ \A l \in Kinds : l # k => staged'[l] = staged[l]
      /\ \A l \in Kinds : staged[l] \subseteq staged'[l]
  BY <1>1 DEF LandInv, TypeOK
<1>3. Lines' = Lines \cup {r}
  BY <1>2 DEF Lines
<1>4. IsFiniteSet(Lines) /\ Cardinality(Lines) \in Nat
  BY FS_CardinalityType DEF LandInv, Numbered
<1>5. \A s \in Lines : s.no \in Nat /\ s.no < r.no
  <2>1. ASSUME NEW s \in Lines PROVE s.no \in Nat /\ s.no <= Cardinality(Lines)
    BY <1>2 DEF Lines, Row, LandInv, Numbered
  <2> QED
    BY <1>4, <2>1 DEF stage
<1>6. r.no \in Nat
  BY DEF Row
<1>7. r \notin Lines
  BY <1>5
<1>8. Numbered'
  <2>1. IsFiniteSet(Lines') /\ Cardinality(Lines') = r.no
    BY <1>3, <1>4, <1>7, FS_AddElement DEF stage
  <2>2. \A s \in Lines' : s.no <= Cardinality(Lines')
    BY <1>3, <1>5, <1>6, <2>1
  <2>3. ASSUME NEW l \in Kinds, NEW m \in Kinds, NEW p \in staged'[l], NEW q \in staged'[m],
               p.no = q.no
        PROVE  l = m /\ p = q
    <3>1. /\ p \in staged[l] \/ (l = k /\ p = r)
          /\ q \in staged[m] \/ (m = k /\ q = r)
      BY <1>2, <2>3
    <3>2. /\ p \in staged[l] => p \in Lines
          /\ q \in staged[m] => q \in Lines
      BY DEF Lines
    <3>3. /\ p \in staged[l] => p.no \in Nat /\ p.no < r.no
          /\ q \in staged[m] => q.no \in Nat /\ q.no < r.no
      BY <1>5, <3>2
    <3>4. p \in staged[l] /\ q \in staged[m] => l = m /\ p = q
      BY <2>3 DEF LandInv, Numbered
    <3> QED
      BY <1>6, <2>3, <3>1, <3>3, <3>4
  <2> QED
    BY <2>1, <2>2, <2>3 DEF Numbered
<1>9. LandedOnce'
  BY <1>1, <1>2 DEF LandInv, LandedOnce, Numbering
<1>10. LakeIsOldStaging'
  <2>1. ASSUME NEW l \in Kinds, NEW q \in lake[l]
        PROVE  q.cols \subseteq Readings(staged'[l], Key(q)) /\ q.at + Lag <= now
    <3>1. q.cols \subseteq Readings(staged[l], Key(q)) /\ q.at + Lag <= now
      BY DEF LandInv, LakeIsOldStaging
    <3>2. Readings(staged[l], Key(q)) \subseteq Readings(staged'[l], Key(q))
      BY <1>2, InReadings
    <3> QED
      BY <3>1, <3>2
  <2> QED
    BY <1>1, <2>1 DEF LakeIsOldStaging, Readings
<1>11. TypeOK'
  <2>1. staged' \in [Kinds -> SUBSET Row]
    BY <1>1, <1>2
  <2>2. frame' \subseteq staged'[kind']
    BY <1>1, <1>2 DEF LandInv, TypeOK
  <2>3. passed' \cup held' \subseteq {s.no : s \in Lines'}
    <3>1. passed' \subseteq passed \cup {r.no}
      BY DEF stage
    <3> QED
      BY <1>1, <1>3, <3>1 DEF LandInv, TypeOK
  <2> QED
    BY <1>1, <2>1, <2>2, <2>3 DEF LandInv, TypeOK
<1>12. FrameIsOld'
  BY <1>1 DEF LandInv, FrameIsOld
<1> QED
  BY <1>8, <1>9, <1>10, <1>11, <1>12 DEF LandInv

LEMMA LoadLands == LandInv /\ load_state => LandInv'
<1> SUFFICES ASSUME LandInv, load_state PROVE LandInv'
  OBVIOUS
<1>1. Numbered' /\ LandedOnce' /\ LakeIsOldStaging' /\ Lines' = Lines
  BY NowIsNat, LandQuiet DEF LandInv, load_state
<1>2. frame = {}
  BY DEF LandInv, TypeOK, load_state
<1>3. TypeOK'
  BY <1>1, <1>2 DEF LandInv, TypeOK, load_state, Kinds, history, counters
<1>4. FrameIsOld'
  BY <1>2 DEF FrameIsOld, load_state
<1> QED
  BY <1>1, <1>3, <1>4 DEF LandInv

\* What is read is old enough by the clock of the read.
LEMMA ReadLands == LandInv /\ read_staging => LandInv'
<1> SUFFICES ASSUME LandInv, read_staging PROVE LandInv'
  OBVIOUS
<1>1. Numbered' /\ LandedOnce' /\ LakeIsOldStaging' /\ Lines' = Lines
  BY NowIsNat, LandQuiet DEF LandInv, read_staging
<1>2. TypeOK'
  <2>1. frame' \subseteq staged'[kind']
    BY DEF read_staging
  <2>2. \A q \in staged[kind] : q \in Lines
    BY DEF LandInv, TypeOK, Lines
  <2>3. passed' \cup held' \subseteq {r.no : r \in Lines'}
    BY <1>1, <2>2 DEF LandInv, TypeOK, read_staging, Remember
  <2> QED
    BY <2>1, <2>3 DEF LandInv, TypeOK, read_staging, counters
<1>3. FrameIsOld'
  <2>1. ASSUME NEW r \in frame'
        PROVE  r.at + Lag <= now'
    <3>1. r \in staged[kind] /\ r.at <= cutoff /\ now' = now
      BY <2>1 DEF read_staging
    <3>2. r.at \in Nat \ {0} /\ now \in Nat /\ Lag \in Nat
      BY <3>1, AcquirerAssumption DEF LandInv, TypeOK, Row, Hours
    <3> QED
      BY <3>1, <3>2 DEF cutoff
  <2> QED
    BY <2>1 DEF FrameIsOld
<1> QED
  BY <1>1, <1>2, <1>3 DEF LandInv

\* The rows of the frame that go to partition w, and what is there.
Payload(w) == {r \in frame : Week(r) = w}
Prev(w) == {r \in lake[kind] : Week(r) = w}

\* Partition w is written.
Writes(w) == lake' = [lake EXCEPT ![kind] = (@ \ Prev(w)) \cup written_to(Prev(w), Payload(w))]

\* What writing one partition does to the lake.
LEMMA PartitionWritten ==
    ASSUME LandInv, UNCHANGED staged, NEW w, Writes(w), NEW out, out = written_to(Prev(w), Payload(w))
    PROVE  /\ lake'[kind] = (lake[kind] \ Prev(w)) \cup out
           /\ \A k \in Kinds : k # kind => lake'[k] = lake[k]
           /\ lake' \in [Kinds -> SUBSET Row]
           /\ \A q \in out : Week(q) = w
           /\ LandedOnce'
           /\ \A k \in Kinds : \A q \in lake[k] : \E p \in lake'[k] : Key(p) = Key(q)
           /\ Prev(w) # {} => \A p, q \in out : Key(p) = Key(q) => p = q
<1>1. kind \in Kinds /\ lake \in [Kinds -> SUBSET Row] /\ frame \subseteq staged[kind]
      /\ staged \in [Kinds -> SUBSET Row]
  BY DEF LandInv, TypeOK
<1>2. Prev(w) \subseteq Row /\ Payload(w) \subseteq Row /\ Prev(w) \subseteq lake[kind]
      /\ Payload(w) \subseteq staged[kind]
  BY <1>1 DEF Prev, Payload
<1>3. /\ lake'[kind] = (lake[kind] \ Prev(w)) \cup out
      /\ \A k \in Kinds : k # kind => lake'[k] = lake[k]
  BY <1>1 DEF Writes
<1>4. /\ out \subseteq Row
      /\ \A q \in out : \E p \in Prev(w) \cup Payload(w) : p.no = q.no /\ Key(p) = Key(q)
      /\ \A p \in Prev(w) : \E q \in out : Key(q) = Key(p)
      /\ Prev(w) = {} => out = Payload(w)
  <2>1. Prev(w) = {} => out = Payload(w)
    BY DEF written_to
  <2> QED
    BY <1>2, <2>1, WrittenTo
<1>5. lake' \in [Kinds -> SUBSET Row]
  <2>1. (lake[kind] \ Prev(w)) \cup out \in SUBSET Row
    BY <1>1, <1>4
  <2> QED
    BY <1>1, <2>1 DEF Writes
<1>6. ASSUME NEW q \in out
      PROVE  Week(q) = w
  <2>1. PICK p \in Prev(w) \cup Payload(w) : Key(p) = Key(q)
    BY <1>4
  <2>2. Week(p) = w
    BY DEF Prev, Payload
  <2> QED
    BY <2>1, <2>2 DEF Key, Week
<1>7. ASSUME NEW q \in out
      PROVE  \E s \in staged[kind] : s.no = q.no /\ Key(s) = Key(q)
  <2>1. PICK p \in Prev(w) \cup Payload(w) : p.no = q.no /\ Key(p) = Key(q)
    BY <1>4
  <2>2. \E s \in staged[kind] : s.no = p.no /\ Key(s) = Key(p)
    BY <1>1, <1>2 DEF LandInv, LandedOnce
  <2> QED
    BY <2>1, <2>2
<1>8. Numbering(Prev(w)) /\ Numbering(Payload(w))
  BY <1>1, <1>2 DEF LandInv, LandedOnce, Numbered, Numbering
<1>9. \A p, q \in staged[kind] : p.no = q.no => p = q
  BY <1>1 DEF LandInv, Numbered
<1>10. ASSUME NEW p \in out, NEW q \in out, p.no = q.no
       PROVE  p = q
  <2>1. CASE Prev(w) = {}
    BY <1>4, <1>8, <1>10, <2>1 DEF Numbering
  <2>2. CASE Prev(w) # {}
    <3>1. Key(p) = Key(q)
      BY <1>7, <1>9, <1>10
    <3> QED
      BY <1>2, <1>8, <2>2, <3>1, WrittenTo
  <2> QED
    BY <2>1, <2>2
<1>11. ASSUME NEW p \in lake[kind] \ Prev(w), NEW q \in out
       PROVE  p.no # q.no
  <2>1. Week(p) # w
    BY DEF Prev
  <2>2. \E s \in staged[kind] : s.no = p.no /\ Key(s) = Key(p)
    BY <1>1 DEF LandInv, LandedOnce
  <2>3. p.no = q.no => Key(p) = Key(q)
    BY <1>7, <1>9, <2>2
  <2>4. Key(p) = Key(q) => Week(p) = Week(q)
    BY DEF Key, Week
  <2> QED
    BY <1>6, <2>1, <2>3, <2>4
<1>12. \A k \in Kinds : \A q \in lake[k] : \E p \in lake'[k] : Key(p) = Key(q)
  BY <1>3, <1>4
<1>13. LandedOnce'
  BY <1>3, <1>7, <1>10, <1>11 DEF LandInv, LandedOnce, Numbering
<1>14. Prev(w) # {} => \A p, q \in out : Key(p) = Key(q) => p = q
  BY <1>2, <1>8, WrittenTo
<1> QED
  BY <1>3, <1>5, <1>6, <1>12, <1>13, <1>14

\* A written row says what its key was staged with, and is old: the rows it is
\* made of are.
LEMMA WriteLands == LandInv /\ write_dataset => LandInv'
<1> SUFFICES ASSUME LandInv, write_dataset PROVE LandInv'
  OBVIOUS
<1>1. /\ kind \in Kinds /\ frame \subseteq staged[kind] /\ frame' \subseteq frame
      /\ now' = now /\ staged' = staged /\ kind' = kind /\ pc' = pc /\ pc = "write"
      /\ covered' = covered /\ state' = state /\ held' = held /\ crashes' = crashes
      /\ Lines' = Lines
  BY DEF LandInv, TypeOK, write_dataset, Lines
<1>2. FrameIsOld'
  BY <1>1 DEF LandInv, FrameIsOld
<1>3. CASE UNCHANGED lake
  <2>1. Numbered' /\ LandedOnce' /\ LakeIsOldStaging'
    BY <1>1, <1>3, NowIsNat, LandQuiet DEF LandInv
  <2>2. passed' \subseteq {r.no : r \in Lines} /\ unreadable' \in 0..MaxUnreadable
    <3>1. \A r \in frame : r \in Lines
      BY <1>1 DEF Lines
    <3>2. passed' \subseteq passed \cup {r.no : r \in frame}
      BY DEF write_dataset
    <3>3. unreadable' = unreadable \/ (unreadable < MaxUnreadable /\ unreadable' = unreadable + 1)
      BY DEF write_dataset
    <3>4. passed \subseteq {r.no : r \in Lines} /\ unreadable \in 0..MaxUnreadable
      BY DEF LandInv, TypeOK
    <3> QED
      BY <3>1, <3>2, <3>3, <3>4, AcquirerAssumption
  <2>3. TypeOK'
    BY <1>1, <1>3, <2>2 DEF LandInv, TypeOK
  <2> QED
    BY <1>2, <2>1, <2>3 DEF LandInv
<1>4. ASSUME NEW w, Writes(w), UNCHANGED <<unreadable, passed>>
      PROVE  LandInv'
  <2> DEFINE out == written_to(Prev(w), Payload(w))
  <2>1. /\ lake'[kind] = (lake[kind] \ Prev(w)) \cup out
        /\ \A k \in Kinds : k # kind => lake'[k] = lake[k]
        /\ lake' \in [Kinds -> SUBSET Row]
        /\ LandedOnce'
    BY <1>1, <1>4, PartitionWritten
  <2>2. TypeOK' /\ Numbered'
    BY <1>1, <1>4, <2>1 DEF LandInv, TypeOK, Numbered
  <2>3. Prev(w) \subseteq lake[kind] /\ Payload(w) \subseteq frame
        /\ Prev(w) \subseteq Row /\ Payload(w) \subseteq Row
    BY <1>1 DEF Prev, Payload, LandInv, TypeOK
  <2>4. /\ \A q \in out : \E p \in Prev(w) \cup Payload(w) : p.no = q.no /\ Key(p) = Key(q)
        /\ \A q \in out : \A c \in q.cols :
             \E p \in Prev(w) \cup Payload(w) : Key(p) = Key(q) /\ c \in p.cols
    BY <2>3, WrittenTo
  <2> HIDE DEF out
  <2>5. ASSUME NEW p \in Prev(w) \cup Payload(w)
        PROVE  p.cols \subseteq Readings(staged[kind], Key(p)) /\ p.at + Lag <= now
    <3>1. CASE p \in Prev(w)
      BY <1>1, <2>3, <3>1 DEF LandInv, LakeIsOldStaging
    <3>2. CASE p \in Payload(w)
      BY <1>1, <2>3, <3>2, InReadings DEF LandInv, FrameIsOld
    <3> QED
      BY <3>1, <3>2
  <2>6. ASSUME NEW q \in out
        PROVE  q.cols \subseteq Readings(staged[kind], Key(q)) /\ q.at + Lag <= now
    <3>1. ASSUME NEW c \in q.cols PROVE c \in Readings(staged[kind], Key(q))
      BY <2>4, <2>5
    <3>2. PICK p \in Prev(w) \cup Payload(w) : Key(p) = Key(q)
      BY <2>4
    <3>3. q.at = p.at
      BY <3>2 DEF Key
    <3> QED
      BY <2>5, <3>1, <3>3
  <2>7. ASSUME NEW k \in Kinds, NEW q \in lake'[k]
        PROVE  q.cols \subseteq Readings(staged[k], Key(q)) /\ q.at + Lag <= now
    <3>1. q \in lake[k] \/ (k = kind /\ q \in out)
      BY <2>1
    <3> QED
      BY <2>6, <3>1 DEF LandInv, LakeIsOldStaging
  <2>8. LakeIsOldStaging'
    BY <1>1, <2>7 DEF LakeIsOldStaging, Readings
  <2> QED
    BY <1>2, <2>1, <2>2, <2>8 DEF LandInv
<1>5. \/ UNCHANGED lake
      \/ \E w : Writes(w) /\ UNCHANGED <<unreadable, passed>>
  BY DEF write_dataset, Writes, Prev, Payload
<1> QED
  BY <1>3, <1>4, <1>5

LEMMA LatestLands == LandInv /\ latest_hour => LandInv'
<1> SUFFICES ASSUME LandInv, latest_hour PROVE LandInv'
  OBVIOUS
<1>1. Numbered' /\ LandedOnce' /\ LakeIsOldStaging' /\ Lines' = Lines
  BY NowIsNat, LandQuiet DEF LandInv, latest_hour
<1>2. state' \in [Kinds -> 0..MaxHour]
  <2>1. MaxHour \in Nat /\ kind \in Kinds /\ state \in [Kinds -> 0..MaxHour]
    BY AcquirerAssumption DEF LandInv, TypeOK
  <2>2. CASE staged[kind] = {}
    BY <2>1, <2>2 DEF latest_hour
  <2>3. CASE staged[kind] # {}
    <3>1. Max({r.at : r \in staged[kind]}) \in 0..MaxHour
      BY <2>1, <2>3, NewestHour DEF LandInv, Hours
    <3> QED
      BY <2>1, <2>3, <3>1 DEF latest_hour
  <2> QED
    BY <2>2, <2>3
<1>3. frame' = {} /\ frame = {} /\ pc' \in {"read", "save"} /\ kind' \in Kinds
  BY DEF latest_hour, LandInv, TypeOK, Kinds
<1>4. TypeOK'
  BY <1>1, <1>2, <1>3 DEF LandInv, TypeOK, latest_hour, history, counters
<1>5. FrameIsOld'
  BY <1>3 DEF FrameIsOld
<1> QED
  BY <1>1, <1>4, <1>5 DEF LandInv

LEMMA SaveLands == LandInv /\ save_state => LandInv'
<1> SUFFICES ASSUME LandInv, save_state PROVE LandInv'
  OBVIOUS
<1>1. Numbered' /\ LandedOnce' /\ LakeIsOldStaging' /\ Lines' = Lines
  BY NowIsNat, LandQuiet DEF LandInv, save_state
<1>2. TypeOK'
  BY <1>1 DEF LandInv, TypeOK, save_state, history, counters
<1>3. FrameIsOld'
  BY DEF LandInv, FrameIsOld, save_state
<1> QED
  BY <1>1, <1>2, <1>3 DEF LandInv

LEMMA CrashLands == LandInv /\ crash => LandInv'
<1> SUFFICES ASSUME LandInv, crash PROVE LandInv'
  OBVIOUS
<1>1. Numbered' /\ LandedOnce' /\ LakeIsOldStaging' /\ Lines' = Lines
  BY NowIsNat, LandQuiet DEF LandInv, crash
<1>2. TypeOK'
  BY <1>1, AcquirerAssumption DEF LandInv, TypeOK, crash
<1>3. FrameIsOld'
  BY DEF FrameIsOld, crash
<1> QED
  BY <1>1, <1>2, <1>3 DEF LandInv

LEMMA LandStep == LandInv /\ [Next]_vars => LandInv'
<1> SUFFICES ASSUME LandInv, [Next]_vars PROVE LandInv'
  OBVIOUS
<1>1. CASE UNCHANGED vars
  <2>1. Numbered' /\ LandedOnce' /\ LakeIsOldStaging' /\ Lines' = Lines
    BY <1>1, NowIsNat, LandQuiet DEF LandInv, vars
  <2>2. TypeOK' /\ FrameIsOld'
    BY <1>1, <2>1 DEF LandInv, TypeOK, FrameIsOld, vars, runVars, history, counters
  <2> QED
    BY <2>1, <2>2 DEF LandInv
<1>2. ASSUME NEW k \in Kinds, NEW r \in Row, stage(k, r) PROVE LandInv'
  BY <1>2, StageLands
<1> QED
  BY <1>1, <1>2, TickLands, LoadLands, ReadLands, WriteLands, LatestLands, SaveLands, CrashLands
     DEF Next, run

THEOREM LandInvariant == Spec => []LandInv
  BY LandInit, LandStep, PTL DEF Spec

\* Types, the idle run's empty hands included.
THEOREM AcquirerTypes == Spec => []TypeOK
<1>1. LandInv => TypeOK
  BY DEF LandInv
<1> QED
  BY <1>1, LandInvariant, PTL

\* What is in the lake was staged for its key, and is older than the horizon,
\* for any lag, any partitions and any mix of late, resent and conflicting
\* lines, runs that die and unreadable files.
THEOREM LandsOldStaging == Spec => []LakeIsOldStaging
<1>1. LandInv => LakeIsOldStaging
  BY DEF LandInv
<1> QED
  BY <1>1, LandInvariant, PTL

--------------------------------------------------------------------------------
(* Where the lines of a key agree, the lake keeps what it has.             *)

LEMMA OneReadingInit == Init => OneReading
BY DEF Init, OneReading, Kinds

LEMMA OneReadingStep ==
    ASSUME ~Conflict, LandInv, OneReading, [Next]_vars
    PROVE  OneReading'
<1>1. CASE UNCHANGED <<staged, lake>>
  BY <1>1 DEF OneReading
<1>2. ASSUME NEW k \in Kinds, NEW r \in Row, stage(k, r)
      PROVE  OneReading'
  <2>1. /\ staged'[k] = staged[k] \cup {r} /\ lake' = lake
        /\ \A l \in Kinds : l # k => staged'[l] = staged[l]
        /\ \A s \in staged[k] : Key(s) = Key(r) => s.cols = r.cols
    BY <1>2 DEF stage, LandInv, TypeOK
  <2>2. ASSUME NEW q \in lake[k], Key(q) = Key(r)
        PROVE  q.cols = r.cols
    <3>1. PICK s \in staged[k] : Key(s) = Key(q)
      BY DEF LandInv, LandedOnce
    <3> QED
      BY <2>1, <2>2, <3>1 DEF OneReading
  <2>3. ASSUME NEW l \in Kinds, NEW s \in staged'[l], NEW q \in staged'[l] \cup lake'[l],
               Key(q) = Key(s)
        PROVE  q.cols = s.cols
    <3>1. CASE l # k
      BY <2>1, <2>3, <3>1 DEF OneReading
    <3>2. CASE l = k
      <4>1. s \in staged[k] \/ s = r
        BY <2>1, <3>2
      <4>2. q \in staged[k] \/ q \in lake[k] \/ q = r
        BY <2>1, <3>2
      <4>3. s = r => q.cols = s.cols
        BY <2>1, <2>2, <2>3, <4>2
      <4>4. s \in staged[k] /\ q = r => q.cols = s.cols
        BY <2>1, <2>3
      <4>5. s \in staged[k] /\ q \in staged[k] \cup lake[k] => q.cols = s.cols
        BY <2>3 DEF OneReading
      <4> QED
        BY <4>1, <4>2, <4>3, <4>4, <4>5
    <3> QED
      BY <3>1, <3>2
  <2> QED
    BY <2>3 DEF OneReading
<1>3. ASSUME NEW w, Writes(w), UNCHANGED staged
      PROVE  OneReading'
  <2> DEFINE out == written_to(Prev(w), Payload(w))
  <2>1. kind \in Kinds /\ frame \subseteq staged[kind] /\ Prev(w) \subseteq lake[kind]
        /\ Payload(w) \subseteq staged[kind] /\ Prev(w) \subseteq Row /\ Payload(w) \subseteq Row
    BY DEF LandInv, TypeOK, Prev, Payload
  <2>2. /\ lake'[kind] = (lake[kind] \ Prev(w)) \cup out
        /\ \A k \in Kinds : k # kind => lake'[k] = lake[k]
    BY <1>3, PartitionWritten
  <2>3. /\ \A q \in out : \E p \in Prev(w) \cup Payload(w) :
             Key(p) = Key(q) /\ p.cols \subseteq q.cols
        /\ \A q \in out : \A c \in q.cols :
             \E p \in Prev(w) \cup Payload(w) : Key(p) = Key(q) /\ c \in p.cols
    BY <2>1, WrittenTo
  <2> HIDE DEF out
  <2>4. ASSUME NEW s \in staged[kind], NEW p \in Prev(w) \cup Payload(w), Key(p) = Key(s)
        PROVE  p.cols = s.cols
    <3>1. p \in staged[kind] \cup lake[kind]
      BY <2>1
    <3> QED
      BY <2>1, <2>4, <3>1 DEF OneReading
  <2>5. ASSUME NEW s \in staged[kind], NEW q \in out, Key(q) = Key(s)
        PROVE  q.cols = s.cols
    <3>1. \A c \in q.cols : c \in s.cols
      BY <2>3, <2>4, <2>5
    <3>2. \A c \in s.cols : c \in q.cols
      BY <2>3, <2>4, <2>5
    <3>3. q.cols \subseteq s.cols /\ s.cols \subseteq q.cols
      BY <3>1, <3>2
    <3> QED
      BY <3>3
  <2>6. ASSUME NEW k \in Kinds, NEW s \in staged[k], NEW q \in staged[k] \cup lake'[k],
               Key(q) = Key(s)
        PROVE  q.cols = s.cols
    <3>1. q \in staged[k] \cup lake[k] \/ (k = kind /\ q \in out)
      BY <2>2
    <3>2. q \in staged[k] \cup lake[k] => q.cols = s.cols
      BY <2>6 DEF OneReading
    <3>3. k = kind /\ q \in out => q.cols = s.cols
      BY <2>5, <2>6
    <3> QED
      BY <3>1, <3>2, <3>3
  <2> QED
    BY <1>3, <2>6 DEF OneReading
<1>4. \/ UNCHANGED <<staged, lake>>
      \/ \E k \in Kinds, r \in Row : stage(k, r)
      \/ \E w : Writes(w) /\ UNCHANGED staged
  BY DEF Next, run, vars, tick, load_state, read_staging, write_dataset, latest_hour, save_state,
         crash, Writes, Prev, Payload
<1> QED
  BY <1>1, <1>2, <1>3, <1>4

\* No key leaves the lake, no line the hour files.
LEMMA KeysStay ==
    ASSUME LandInv, [Next]_vars
    PROVE  /\ \A k \in Kinds : \A q \in lake[k] : \E p \in lake'[k] : Key(p) = Key(q)
           /\ \A k \in Kinds : staged[k] \subseteq staged'[k]
<1>1. CASE UNCHANGED <<staged, lake>>
  BY <1>1
<1>2. ASSUME NEW k \in Kinds, NEW r \in Row, stage(k, r)
      PROVE  lake' = lake /\ \A l \in Kinds : staged[l] \subseteq staged'[l]
  BY <1>2 DEF stage, LandInv, TypeOK
<1>3. ASSUME NEW w, Writes(w), UNCHANGED staged
      PROVE  \A k \in Kinds : \A q \in lake[k] : \E p \in lake'[k] : Key(p) = Key(q)
  BY <1>3, PartitionWritten
<1>4. \/ UNCHANGED <<staged, lake>>
      \/ \E k \in Kinds, r \in Row : stage(k, r)
      \/ \E w : Writes(w) /\ UNCHANGED staged
  BY DEF Next, run, vars, tick, load_state, read_staging, write_dataset, latest_hour, save_state,
         crash, Writes, Prev, Payload
<1> QED
  BY <1>1, <1>2, <1>3, <1>4

LEMMA ReadingsStay ==
    ASSUME LandInv, LandInv', OneReading, OneReading', [Next]_vars,
           NEW k \in Kinds, NEW key
    PROVE  Readings(lake[k], key) \subseteq Readings(lake'[k], key)
<1> SUFFICES ASSUME NEW c \in Readings(lake[k], key)
             PROVE  c \in Readings(lake'[k], key)
  OBVIOUS
<1>1. PICK q \in lake[k] : Key(q) = key /\ c \in q.cols
  BY InReadings
<1>2. PICK s \in staged[k] : Key(s) = key
  BY <1>1 DEF LandInv, LandedOnce
<1>3. PICK p \in lake'[k] : Key(p) = key
  BY <1>1, KeysStay
<1>4. s \in staged'[k]
  BY KeysStay
<1>5. q.cols = s.cols
  BY <1>1, <1>2 DEF OneReading
<1>6. p.cols = s.cols
  BY <1>2, <1>3, <1>4 DEF OneReading
<1>7. c \in p.cols
  BY <1>1, <1>5, <1>6
<1> QED
  BY <1>3, <1>7, InReadings

\* "MERGE prefers non-null": a reading that is in the lake stays there, if the
\* lines of a key carry one reading (Conflict is FALSE).
THEOREM LakeKeeps ==
    ASSUME ~Conflict
    PROVE  Spec => LakeKeepsReadings
<1>1. Init => LandInv /\ OneReading
  BY LandInit, OneReadingInit
<1>2. LandInv /\ OneReading /\ [Next]_vars => LandInv' /\ OneReading'
  BY LandStep, OneReadingStep
<1>3. LandInv /\ OneReading /\ [Next]_vars => [KeepsReadings]_vars
  BY <1>2, ReadingsStay DEF KeepsReadings
<1> QED
  BY <1>1, <1>2, <1>3, PTL DEF Spec, LakeKeepsReadings

\* A partition that is merged into has one row for a key afterwards, however
\* often a line was staged or landed before.
LEMMA MergeStep ==
    ASSUME LandInv, [Next]_vars
    PROVE  Deduplicates
<1> SUFFICES ASSUME NEW k \in Kinds, NEW h \in Hours,
                    {r \in lake[k] : Week(r) = WeekOf[h]} # {},
                    {r \in lake'[k] : Week(r) = WeekOf[h]} # {r \in lake[k] : Week(r) = WeekOf[h]}
             PROVE  \A r, s \in {q \in lake'[k] : Week(q) = WeekOf[h]} : Key(r) = Key(s) => r = s
  BY DEF Deduplicates
<1> DEFINE part == {r \in lake[k] : Week(r) = WeekOf[h]}
           merged == {r \in lake'[k] : Week(r) = WeekOf[h]}
<1>1. lake' # lake
  OBVIOUS
<1>2. PICK w : Writes(w) /\ UNCHANGED staged
  BY <1>1 DEF Next, run, vars, tick, stage, load_state, read_staging, write_dataset, latest_hour,
              save_state, crash, Writes, Prev, Payload
<1> DEFINE out == written_to(Prev(w), Payload(w))
<1>3. /\ lake'[kind] = (lake[kind] \ Prev(w)) \cup out
      /\ \A l \in Kinds : l # kind => lake'[l] = lake[l]
      /\ \A q \in out : Week(q) = w
      /\ Prev(w) # {} => \A p, q \in out : Key(p) = Key(q) => p = q
  BY <1>2, PartitionWritten
<1> HIDE DEF out
<1>4. k = kind
  BY <1>3
<1>5. WeekOf[h] = w
  <2>1. SUFFICES ASSUME WeekOf[h] # w PROVE merged = part
    OBVIOUS
  <2> QED
    BY <1>3, <1>4, <2>1 DEF Prev
<1>6. part = Prev(w) /\ merged \subseteq out
  BY <1>3, <1>4, <1>5 DEF Prev
<1> QED
  BY <1>3, <1>6

THEOREM MergesDeduplicate == Spec => MergeDeduplicates
<1>1. LandInv /\ [Next]_vars => [Deduplicates]_vars
  BY MergeStep
<1> QED
  BY <1>1, LandInvariant, PTL DEF Spec, MergeDeduplicates

--------------------------------------------------------------------------------
(* Where the lines of a key agree, no line is skipped unexcused.           *)

LEMMA RunInit == Init => RunInv
BY DEF Init, RunInv, OneReading, StateIsCovered, Accounted, Done, NothingIsSkipped, Skipped, Kinds

\* What has landed stays landed, since readings do.
LEMMA LandedStays ==
    ASSUME ~Conflict, LandInv, RunInv, [Next]_vars, NEW k \in Kinds, NEW r, Landed(k, r)
    PROVE  Landed(k, r)'
<1>1. LandInv' /\ OneReading /\ OneReading'
  BY LandStep, OneReadingStep DEF RunInv
<1>2. Readings(lake[k], Key(r)) \subseteq Readings(lake'[k], Key(r))
  BY <1>1, ReadingsStay
<1> QED
  BY <1>2 DEF Landed, Readings

\* Steps that leave the files, the covered hours and the excuses alone.
LEMMA SkipsNothingNew ==
    ASSUME ~Conflict, LandInv, RunInv, [Next]_vars, UNCHANGED <<staged, covered, held>>,
           passed \subseteq passed'
    PROVE  NothingIsSkipped'
<1> SUFFICES ASSUME NEW k \in Kinds, NEW r \in Skipped(k)'
             PROVE  r.no \in passed' \cup held'
  BY DEF NothingIsSkipped
<1>1. r \in staged[k] /\ r.at <= covered[k] /\ ~Landed(k, r)'
  BY DEF Skipped, Landed, Readings
<1>2. ~Landed(k, r)
  BY <1>1, LandedStays
<1>3. r \in Skipped(k)
  BY <1>1, <1>2 DEF Skipped, Landed
<1> QED
  BY <1>3 DEF RunInv, NothingIsSkipped

LEMMA TickAccounts ==
    ASSUME ~Conflict, LandInv, RunInv, tick
    PROVE  RunInv'
<1>1. [Next]_vars
  BY DEF Next
<1>2. OneReading' /\ NothingIsSkipped'
  BY <1>1, OneReadingStep, SkipsNothingNew DEF RunInv, tick, history
<1>3. StateIsCovered' /\ Accounted'
  BY DEF RunInv, StateIsCovered, Accounted, Done, Landed, Readings, Excused, tick, runVars, history
<1> QED
  BY <1>2, <1>3 DEF RunInv

\* A line that arrives during a run, or behind the covered hour, is excused.
LEMMA StageAccounts ==
    ASSUME ~Conflict, LandInv, RunInv, NEW l \in Kinds, NEW s \in Row, stage(l, s)
    PROVE  RunInv'
<1>1. [Next]_vars
  BY DEF Next
<1>2. OneReading'
  BY <1>1, OneReadingStep DEF RunInv
<1>3. /\ staged'[l] = staged[l] \cup {s}
      /\ \A k \in Kinds : k # l => staged'[k] = staged[k]
      /\ lake' = lake /\ covered' = covered /\ held' = held /\ passed \subseteq passed'
      /\ pc' = pc /\ kind' = kind /\ frame' = frame /\ state' = state
      /\ kind \in Kinds
  BY DEF stage, runVars, LandInv, TypeOK
<1>4. pc # "idle" \/ s.at <= covered[l] => s.no \in passed'
  <2>1. s.at \in Nat /\ covered[l] \in Nat
    BY AcquirerAssumption DEF Row, Hours, LandInv, TypeOK
  <2> QED
    BY <2>1 DEF stage
<1>5. NothingIsSkipped'
  <2> SUFFICES ASSUME NEW k \in Kinds, NEW r \in Skipped(k)'
               PROVE  r.no \in passed' \cup held'
    BY DEF NothingIsSkipped
  <2>1. r \in staged'[k] /\ r.at <= covered[k] /\ ~Landed(k, r)
    BY <1>3 DEF Skipped, Landed, Readings
  <2>2. CASE r \in staged[k]
    <3>1. r \in Skipped(k)
      BY <2>1, <2>2 DEF Skipped, Landed
    <3> QED
      BY <1>3, <3>1 DEF RunInv, NothingIsSkipped
  <2>3. CASE r \notin staged[k]
    <3>1. k = l /\ r = s
      BY <1>3, <2>1, <2>3
    <3> QED
      BY <1>4, <2>1, <3>1
  <2> QED
    BY <2>2, <2>3
<1>6. \A k \in Kinds, r \in Row : (Landed(k, r)' <=> Landed(k, r)) /\ (Excused(r) => Excused(r)')
  BY <1>3 DEF Landed, Readings, Excused
<1>7. \A k \in Kinds : \A r \in staged'[k] :
        \/ r \in staged[k] /\ r \in Row
        \/ r = s /\ (pc # "idle" => Excused(r)')
  BY <1>3, <1>4 DEF Excused, LandInv, TypeOK
<1>8. Accounted'
  <2>1. pc = "write" => \A r \in staged'[kind] : r \in frame \/ Landed(kind, r)' \/ Excused(r)'
    BY <1>3, <1>6, <1>7 DEF RunInv, Accounted
  <2>2. ASSUME NEW k \in Kinds, Done(k), NEW r \in staged'[k]
        PROVE  Landed(k, r)' \/ Excused(r)'
    <3>1. pc # "idle"
      BY <2>2 DEF Done
    <3>2. r \in staged[k] => Landed(k, r) \/ Excused(r)
      BY <2>2 DEF RunInv, Accounted
    <3> QED
      BY <1>6, <1>7, <3>1, <3>2
  <2>3. \A k \in Kinds : Done(k)' <=> Done(k)
    BY <1>3 DEF Done
  <2> QED
    BY <1>3, <2>1, <2>2, <2>3 DEF Accounted, Landed, Readings
<1>9. StateIsCovered'
  BY <1>3 DEF RunInv, StateIsCovered
<1> QED
  BY <1>2, <1>5, <1>8, <1>9 DEF RunInv

LEMMA LoadAccounts ==
    ASSUME ~Conflict, LandInv, RunInv, load_state
    PROVE  RunInv'
<1>1. [Next]_vars
  BY DEF Next, run
<1>2. OneReading' /\ NothingIsSkipped'
  BY <1>1, OneReadingStep, SkipsNothingNew DEF RunInv, load_state, history
<1>3. StateIsCovered' /\ Accounted'
  BY DEF StateIsCovered, Accounted, Done, load_state
<1> QED
  BY <1>2, <1>3 DEF RunInv

\* What is read is ahead of the covered hour, so no line behind it loses its excuse.
LEMMA ReadAccounts ==
    ASSUME ~Conflict, LandInv, RunInv, read_staging
    PROVE  RunInv'
<1>1. [Next]_vars
  BY DEF Next, run
<1>2. OneReading'
  BY <1>1, OneReadingStep DEF RunInv
<1>3. /\ staged' = staged /\ lake' = lake /\ covered' = covered /\ state' = state
      /\ kind' = kind /\ pc = "read" /\ pc' = "write" /\ kind \in Kinds
      /\ frame' = {r \in staged[kind] : r.at > state[kind] /\ r.at <= cutoff}
      /\ state[kind] = covered[kind]
  BY DEF read_staging, LandInv, TypeOK, RunInv, StateIsCovered
<1>4. ASSUME NEW k \in Kinds, NEW r \in staged[k], r \notin frame' \/ k # kind, Excused(r)
      PROVE  Excused(r)'
  <2>1. \A f \in frame' : f.no # r.no
    BY <1>3, <1>4 DEF LandInv, Numbered
  <2> QED
    BY <1>4, <2>1 DEF Excused, read_staging, Remember
<1>5. \A k \in Kinds : \A r \in staged[k] : r.at \in Nat /\ covered[k] \in Nat
  BY AcquirerAssumption DEF LandInv, TypeOK, Row, Hours
<1>6. NothingIsSkipped'
  <2> SUFFICES ASSUME NEW k \in Kinds, NEW r \in Skipped(k)'
               PROVE  Excused(r)'
    BY DEF NothingIsSkipped, Excused
  <2>1. r \in Skipped(k) /\ r \in staged[k] /\ r.at <= covered[k]
    BY <1>3 DEF Skipped, Readings
  <2>2. Excused(r)
    BY <2>1 DEF RunInv, NothingIsSkipped, Excused
  <2>3. r \notin frame' \/ k # kind
    BY <1>3, <1>5, <2>1
  <2> QED
    BY <1>4, <2>1, <2>2, <2>3
<1>7. ASSUME NEW r \in staged[kind], r \notin frame'
      PROVE  Landed(kind, r) \/ Excused(r)'
  <2>1. CASE r.at > state[kind]
    <3>1. r.at > cutoff
      <4>1. ~(r.at <= cutoff)
        BY <1>3, <1>7, <2>1
      <4>2. cutoff \in Nat
        BY AcquirerAssumption DEF cutoff, LandInv, TypeOK, Hours
      <4> QED
        BY <1>3, <1>5, <4>1, <4>2
    <3> QED
      BY <2>1, <3>1 DEF Excused, read_staging, Remember
  <2>2. CASE ~(r.at > state[kind])
    <3>1. r.at <= covered[kind]
      BY <1>3, <1>5, <2>2
    <3>2. Landed(kind, r) \/ Excused(r)
      BY <1>3, <3>1 DEF RunInv, NothingIsSkipped, Skipped, Landed, Excused
    <3> QED
      BY <1>3, <1>4, <1>7, <3>2
  <2> QED
    BY <2>1, <2>2
<1>8. ASSUME NEW k \in Kinds, Done(k)', NEW r \in staged[k]
      PROVE  Landed(k, r) \/ Excused(r)'
  <2>1. Done(k) /\ k # kind
    BY <1>3, <1>8 DEF Done
  <2>2. Landed(k, r) \/ Excused(r)
    BY <1>8, <2>1 DEF RunInv, Accounted
  <2> QED
    BY <1>4, <2>1, <2>2
<1>9. Accounted' /\ StateIsCovered'
  BY <1>3, <1>7, <1>8 DEF Accounted, Landed, Readings, RunInv, StateIsCovered
<1> QED
  BY <1>2, <1>6, <1>9 DEF RunInv

\* A payload lands, or is excused with the file that cannot be read.
LEMMA WriteAccounts ==
    ASSUME ~Conflict, LandInv, RunInv, write_dataset
    PROVE  RunInv'
<1>1. [Next]_vars
  BY DEF Next, run
<1>2. OneReading' /\ LandInv'
  BY <1>1, OneReadingStep, LandStep DEF RunInv
<1>3. /\ staged' = staged /\ covered' = covered /\ state' = state /\ held' = held
      /\ kind' = kind /\ pc = "write" /\ pc' = "write" /\ kind \in Kinds
      /\ passed \subseteq passed'
  BY DEF write_dataset, LandInv, TypeOK
<1>4. NothingIsSkipped'
  BY <1>1, <1>3, SkipsNothingNew
<1>5. \A r : Excused(r) => Excused(r)'
  BY <1>3 DEF Excused
<1>6. \A k \in Kinds : \A r \in staged[k] : Landed(k, r) => Landed(k, r)'
  BY <1>1, LandedStays
<1>7. ASSUME NEW r \in frame, r \notin frame'
      PROVE  Landed(kind, r)' \/ Excused(r)'
  <2>1. PICK w : /\ frame' = frame \ Payload(w)
                 /\ Writes(w) \/ passed' = passed \cup {q.no : q \in Payload(w)}
    BY DEF write_dataset, Writes, Prev, Payload
  <2>2. r \in Payload(w) /\ r \in staged[kind]
    BY <1>7, <2>1 DEF LandInv, TypeOK
  <2>3. CASE Writes(w)
    <3> DEFINE out == written_to(Prev(w), Payload(w))
    <3>1. Prev(w) \subseteq Row /\ Payload(w) \subseteq Row
      BY <1>3 DEF LandInv, TypeOK, Prev, Payload
    <3>2. \A p \in Payload(w) : \E q \in out : Key(q) = Key(p)
      BY <3>1, WrittenTo
    <3>3. PICK q \in out : Key(q) = Key(r)
      <4> HIDE DEF out
      <4> QED
        BY <2>2, <3>2
    <3>4. q \in lake'[kind]
      BY <1>3, <2>3, <3>3, PartitionWritten
    <3>5. q.cols = r.cols
      BY <1>2, <1>3, <2>2, <3>3, <3>4 DEF OneReading
    <3>6. \A c \in r.cols : c \in Readings(lake'[kind], Key(r))
      BY <3>3, <3>4, <3>5, InReadings
    <3> QED
      BY <1>3, <3>6 DEF Landed, Readings
  <2>4. CASE passed' = passed \cup {q.no : q \in Payload(w)}
    BY <2>2, <2>4 DEF Excused
  <2> QED
    BY <2>1, <2>3, <2>4
<1>8. ASSUME NEW r \in staged[kind]
      PROVE  r \in frame' \/ Landed(kind, r)' \/ Excused(r)'
  <2>1. r \in frame \/ Landed(kind, r) \/ Excused(r)
    BY <1>3 DEF RunInv, Accounted
  <2> QED
    BY <1>3, <1>5, <1>6, <1>7, <2>1
<1>9. ASSUME NEW k \in Kinds, Done(k)', NEW r \in staged[k]
      PROVE  Landed(k, r)' \/ Excused(r)'
  <2>1. Done(k)
    BY <1>3, <1>9 DEF Done
  <2>2. Landed(k, r) \/ Excused(r)
    BY <2>1 DEF RunInv, Accounted
  <2> QED
    BY <1>5, <1>6, <2>2
<1>10. Accounted' /\ StateIsCovered'
  BY <1>3, <1>8, <1>9 DEF Accounted, Landed, Readings, RunInv, StateIsCovered
<1> QED
  BY <1>2, <1>4, <1>10 DEF RunInv

\* With its frame written, the run is through with a kind.
LEMMA LatestAccounts ==
    ASSUME ~Conflict, LandInv, RunInv, latest_hour
    PROVE  RunInv'
<1>1. [Next]_vars
  BY DEF Next, run
<1>2. OneReading' /\ NothingIsSkipped'
  BY <1>1, OneReadingStep, SkipsNothingNew DEF RunInv, latest_hour, history
<1>3. /\ staged' = staged /\ lake' = lake /\ covered' = covered /\ passed' = passed /\ held' = held
      /\ pc = "write" /\ frame = {} /\ kind \in Kinds
      /\ \/ kind = "electrical" /\ kind' = "weather" /\ pc' = "read"
         \/ kind = "weather" /\ pc' = "save"
      /\ \A k \in Kinds : k # kind => state'[k] = state[k]
  BY DEF latest_hour, history, LandInv, TypeOK
<1>4. ASSUME NEW k \in Kinds, Done(k)', NEW r \in staged[k]
      PROVE  Landed(k, r) \/ Excused(r)
  <2>1. k = kind \/ Done(k)
    BY <1>3, <1>4 DEF Done, Kinds
  <2> QED
    BY <1>3, <2>1 DEF RunInv, Accounted
<1>5. Accounted'
  BY <1>3, <1>4 DEF Accounted, Landed, Readings, Excused
<1>6. StateIsCovered'
  BY <1>3 DEF RunInv, StateIsCovered, Kinds
<1> QED
  BY <1>2, <1>5, <1>6 DEF RunInv

\* A run that saves is through with both kinds.
LEMMA SaveAccounts ==
    ASSUME ~Conflict, LandInv, RunInv, save_state
    PROVE  RunInv'
<1>1. [Next]_vars
  BY DEF Next, run
<1>2. OneReading'
  BY <1>1, OneReadingStep DEF RunInv
<1>3. \A k \in Kinds : \A r \in staged[k] : Landed(k, r) \/ Excused(r)
  BY DEF save_state, RunInv, Accounted, Done
<1>4. NothingIsSkipped'
  BY <1>3 DEF NothingIsSkipped, Skipped, Landed, Readings, Excused, save_state, history
<1>5. StateIsCovered' /\ Accounted'
  BY DEF StateIsCovered, Accounted, Done, save_state
<1> QED
  BY <1>2, <1>4, <1>5 DEF RunInv

LEMMA CrashAccounts ==
    ASSUME ~Conflict, LandInv, RunInv, crash
    PROVE  RunInv'
<1>1. [Next]_vars
  BY DEF Next
<1>2. OneReading' /\ NothingIsSkipped'
  BY <1>1, OneReadingStep, SkipsNothingNew DEF RunInv, crash
<1>3. StateIsCovered' /\ Accounted'
  BY DEF StateIsCovered, Accounted, Done, crash
<1> QED
  BY <1>2, <1>3 DEF RunInv

LEMMA RunStep ==
    ASSUME ~Conflict, LandInv, RunInv, [Next]_vars
    PROVE  RunInv'
<1>1. CASE UNCHANGED vars
  <2>1. OneReading' /\ NothingIsSkipped'
    BY <1>1, OneReadingStep, SkipsNothingNew DEF RunInv, vars, history
  <2>2. StateIsCovered' /\ Accounted'
    BY <1>1 DEF RunInv, StateIsCovered, Accounted, Done, Landed, Readings, Excused,
                vars, runVars, history
  <2> QED
    BY <2>1, <2>2 DEF RunInv
<1>2. ASSUME NEW k \in Kinds, NEW r \in Row, stage(k, r) PROVE RunInv'
  BY <1>2, StageAccounts
<1> QED
  BY <1>1, <1>2, TickAccounts, LoadAccounts, ReadAccounts, WriteAccounts, LatestAccounts,
     SaveAccounts, CrashAccounts
     DEF Next, run

\* A line is in the lake or ahead of the covered hour, unless it came too late,
\* was held back by the horizon or belongs to an unreadable partition, however
\* often runs die, if the lines of a key carry one reading.
THEOREM NoneSkipped ==
    ASSUME ~Conflict
    PROVE  Spec => []NothingIsSkipped
<1>1. Init => LandInv /\ RunInv
  BY LandInit, RunInit
<1>2. LandInv /\ RunInv /\ [Next]_vars => LandInv' /\ RunInv'
  BY LandStep, RunStep
<1>3. RunInv => NothingIsSkipped
  BY DEF RunInv
<1> QED
  BY <1>1, <1>2, <1>3, PTL DEF Spec

================================================================================
