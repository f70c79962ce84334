------------------------------ MODULE ParserProofs ------------------------------
(***************************************************************************)
(* What the parsers read of a file, for tables of any size, any bands and  *)
(* any columns whose names are clear: all the readings in their bands, and *)
(* nothing else, from a wide file and from a long one.                     *)
(***************************************************************************)
EXTENDS Parsers, LinesProofs

--------------------------------------------------------------------------------
(* Rows against a table.                                                   *)

\* No two rows are of the same time and phase.
KeysDiffer(rows) ==
    \A j, k \in 1..Len(rows) : j < k =>
      ~(rows[j].ts = rows[k].ts /\ rows[j].phase = rows[k].phase)

\* The rows say what the table says, and all it says of the given times.
RowsAgree(rows, table) ==
    \A k \in 1..Len(rows) :
      /\ rows[k].voltage # NoValue =>
           /\ rows[k].phase \in Phases /\ rows[k].voltage \in VoltBand
           /\ rows[k].voltage = table[rows[k].ts].volt[rows[k].phase]
      /\ rows[k].frequency # NoValue =>
           rows[k].frequency \in FreqBand /\ rows[k].frequency = table[rows[k].ts].freq

RowsSuffice(rows, table, times) ==
    /\ \A t \in times, p \in Phases : table[t].volt[p] \in VoltBand =>
         \E k \in 1..Len(rows) :
           rows[k].ts = t /\ rows[k].phase = p /\ rows[k].voltage = table[t].volt[p]
    /\ \A t \in times : table[t].freq \in FreqBand =>
         \E k \in 1..Len(rows) : rows[k].ts = t /\ rows[k].frequency = table[t].freq

\* Rows for the given times of a table.
RowsFor(rows, table, times) ==
    /\ rows \in Seq(ParsedRow)
    /\ \A k \in 1..Len(rows) : rows[k].ts \in times
    /\ KeysDiffer(rows) /\ FrequencyOnce(rows)
    /\ RowsAgree(rows, table) /\ RowsSuffice(rows, table, times)

\* Of such rows the dedupe window takes nothing away: what is staged is what
\* the table has in its bands.
LEMMA AgreeingIsStaged ==
    ASSUME NEW table \in Table, NEW rows, RowsFor(rows, table, Times)
    PROVE  Staged(rows) = Readings(table)
<1> DEFINE new == {i \in 1..Len(rows) :
                     \A j \in 1..(i - 1) : <<rows[j].ts, rows[j].phase>> # <<rows[i].ts, rows[i].phase>>}
           V == {i \in new : rows[i].voltage # NoValue}
           F == {i \in new : rows[i].frequency # NoValue}
           volt == {<<rows[i].ts, rows[i].phase, rows[i].voltage>> : i \in V}
           freq == {<<rows[i].ts, rows[i].frequency>> : i \in F}
           tvolt == {<<t, p, table[t].volt[p]>> : t \in Times, p \in Phases}
           tfreq == {<<t, table[t].freq>> : t \in Times}
<1>1. Len(rows) \in Nat /\ \A i \in 1..Len(rows) : rows[i] \in ParsedRow /\ rows[i].ts \in Times
  <2>1. Len(rows) \in Nat /\ \A i \in 1..Len(rows) : rows[i] \in ParsedRow
    BY LenProperties, ElementOfSeq DEF RowsFor
  <2> QED
    BY <2>1 DEF ParsedRow
<1>2. new = 1..Len(rows)
  <2>1. ASSUME NEW i \in 1..Len(rows), NEW j \in 1..(i - 1)
        PROVE  <<rows[j].ts, rows[j].phase>> # <<rows[i].ts, rows[i].phase>>
    <3>1. j \in 1..Len(rows) /\ j < i
      BY <1>1
    <3> QED
      BY <3>1 DEF RowsFor, KeysDiffer
  <2> QED
    BY <2>1
<1>3. NoValue \notin VoltBand /\ NoValue \notin FreqBand
  BY TablesAssumption
<1>4. volt = tvolt \cap (Times \X Phases \X VoltBand)
  <2>1. ASSUME NEW x \in volt PROVE x \in tvolt /\ x \in Times \X Phases \X VoltBand
    <3>1. PICK i \in 1..Len(rows) : /\ x = <<rows[i].ts, rows[i].phase, rows[i].voltage>>
                                    /\ rows[i].voltage # NoValue
      BY <1>2
    <3>2. /\ rows[i].ts \in Times /\ rows[i].phase \in Phases /\ rows[i].voltage \in VoltBand
          /\ rows[i].voltage = table[rows[i].ts].volt[rows[i].phase]
      BY <1>1, <3>1 DEF RowsFor, RowsAgree
    <3> QED
      BY <3>1, <3>2
  <2>2. ASSUME NEW x \in tvolt, x \in Times \X Phases \X VoltBand PROVE x \in volt
    <3>1. PICK t \in Times, p \in Phases : x = <<t, p, table[t].volt[p]>>
      OBVIOUS
    <3>2. table[t].volt[p] \in VoltBand
      BY <2>2, <3>1
    <3>3. PICK i \in 1..Len(rows) :
            rows[i].ts = t /\ rows[i].phase = p /\ rows[i].voltage = table[t].volt[p]
      BY <3>2 DEF RowsFor, RowsSuffice
    <3>4. i \in V
      BY <1>2, <1>3, <3>2, <3>3
    <3> QED
      BY <3>1, <3>3, <3>4
  <2> HIDE DEF volt, tvolt
  <2> QED
    BY <2>1, <2>2
<1>5. freq = tfreq \cap (Times \X FreqBand)
  <2>1. ASSUME NEW x \in freq PROVE x \in tfreq /\ x \in Times \X FreqBand
    <3>1. PICK i \in 1..Len(rows) : /\ x = <<rows[i].ts, rows[i].frequency>>
                                    /\ rows[i].frequency # NoValue
      BY <1>2
    <3>2. /\ rows[i].ts \in Times /\ rows[i].frequency \in FreqBand
          /\ rows[i].frequency = table[rows[i].ts].freq
      BY <1>1, <3>1 DEF RowsFor, RowsAgree
    <3> QED
      BY <3>1, <3>2
  <2>2. ASSUME NEW x \in tfreq, x \in Times \X FreqBand PROVE x \in freq
    <3>1. PICK t \in Times : x = <<t, table[t].freq>>
      OBVIOUS
    <3>2. table[t].freq \in FreqBand
      BY <2>2, <3>1
    <3>3. PICK i \in 1..Len(rows) : rows[i].ts = t /\ rows[i].frequency = table[t].freq
      BY <3>2 DEF RowsFor, RowsSuffice
    <3>4. i \in F
      BY <1>2, <1>3, <3>2, <3>3
    <3> QED
      BY <3>1, <3>3, <3>4
  <2> HIDE DEF freq, tfreq
  <2> QED
    BY <2>1, <2>2
<1>6. Staged(rows) = [volt |-> volt, freq |-> freq]
  BY DEF Staged
<1>7. Readings(table) = [volt |-> tvolt \cap (Times \X Phases \X VoltBand),
                         freq |-> tfreq \cap (Times \X FreqBand)]
  BY DEF Readings
<1> HIDE DEF volt, freq, tvolt, tfreq
<1> QED
  BY <1>4, <1>5, <1>6, <1>7

\* Nor does leaving out the rows with nothing in them.
LEMMA TellingIsFor ==
    ASSUME NEW table \in Table, NEW times \in SUBSET Times, NEW rows, RowsFor(rows, table, times)
    PROVE  RowsFor(Telling(rows), table, times)
<1> DEFINE places == {i \in 1..Len(rows) : Tells(rows[i])}
           out == Telling(rows)
<1>1. rows \in Seq(ParsedRow) /\ places \in SUBSET (1..Len(rows)) /\ Len(rows) \in Nat
  <2>1. rows \in Seq(ParsedRow)
    BY DEF RowsFor
  <2> QED
    BY <2>1, LenProperties
<1>2. out = Kept(rows, places)
  BY DEF Telling
<1> HIDE DEF places, out
<1>3. out \in Seq(ParsedRow) /\ KeptFrom(out, rows, places)
  BY <1>1, <1>2, KeptLines
<1>4. \A k \in 1..Len(out) : \E i \in 1..Len(rows) : out[k] = rows[i]
  BY <1>1, <1>3 DEF KeptFrom
<1>5. \A k \in 1..Len(out) : out[k].ts \in times
  BY <1>4 DEF RowsFor
<1>6. KeysDiffer(out)
  <2>1. ASSUME NEW j \in 1..Len(out), NEW k \in 1..Len(out), j < k,
               out[j].ts = out[k].ts /\ out[j].phase = out[k].phase
        PROVE  FALSE
    <3>1. PICK a \in places, b \in places : a < b /\ out[j] = rows[a] /\ out[k] = rows[b]
      BY <1>3, <2>1 DEF KeptFrom
    <3>2. a \in 1..Len(rows) /\ b \in 1..Len(rows)
      BY <1>1
    <3> QED
      BY <2>1, <3>1, <3>2 DEF RowsFor, KeysDiffer
  <2> QED
    BY <2>1 DEF KeysDiffer
<1>7. RowsAgree(out, table)
  <2>1. ASSUME NEW k \in 1..Len(out)
        PROVE  \E i \in 1..Len(rows) : out[k] = rows[i]
    BY <1>4
  <2> QED
    BY <2>1 DEF RowsFor, RowsAgree
<1>8. ASSUME NEW i \in 1..Len(rows), Tells(rows[i])
      PROVE  \E k \in 1..Len(out) : out[k] = rows[i]
  <2>1. i \in places
    BY <1>8 DEF places
  <2> QED
    BY <1>3, <2>1 DEF KeptFrom
<1>9. NoValue \notin VoltBand /\ NoValue \notin FreqBand
  BY TablesAssumption
<1>10. RowsSuffice(out, table, times)
  <2>1. ASSUME NEW t \in times, NEW p \in Phases, table[t].volt[p] \in VoltBand
        PROVE  \E k \in 1..Len(out) :
                 out[k].ts = t /\ out[k].phase = p /\ out[k].voltage = table[t].volt[p]
    <3>1. PICK i \in 1..Len(rows) :
            rows[i].ts = t /\ rows[i].phase = p /\ rows[i].voltage = table[t].volt[p]
      BY <2>1 DEF RowsFor, RowsSuffice
    <3>2. Tells(rows[i])
      BY <1>9, <2>1, <3>1 DEF Tells
    <3> QED
      BY <1>8, <3>1, <3>2
  <2>2. ASSUME NEW t \in times, table[t].freq \in FreqBand
        PROVE  \E k \in 1..Len(out) : out[k].ts = t /\ out[k].frequency = table[t].freq
    <3>1. PICK i \in 1..Len(rows) : rows[i].ts = t /\ rows[i].frequency = table[t].freq
      BY <2>2 DEF RowsFor, RowsSuffice
    <3>2. Tells(rows[i])
      BY <1>9, <2>2, <3>1 DEF Tells
    <3> QED
      BY <1>8, <3>1, <3>2
  <2> QED
    BY <2>1, <2>2 DEF RowsSuffice
<1>11. FrequencyOnce(out)
  <2>1. ASSUME NEW j \in 1..Len(out), NEW k \in 1..Len(out), j < k, out[j].ts = out[k].ts
        PROVE  out[j].frequency = NoValue \/ out[k].frequency = NoValue
    <3>1. PICK a \in places, b \in places : a < b /\ out[j] = rows[a] /\ out[k] = rows[b]
      BY <1>3, <2>1 DEF KeptFrom
    <3>2. a \in 1..Len(rows) /\ b \in 1..Len(rows)
      BY <1>1
    <3> QED
      BY <2>1, <3>1, <3>2 DEF RowsFor, FrequencyOnce
  <2> QED
    BY <2>1 DEF FrequencyOnce
<1>12. RowsFor(out, table, times)
  BY <1>3, <1>5, <1>6, <1>7, <1>10, <1>11 DEF RowsFor
<1> QED
  BY <1>12 DEF out

--------------------------------------------------------------------------------
(* The long format.                                                        *)

Line == [ts : Times, phase : Phases, channel : {"volt", "freq", "thd"}, value : Cell \cup {Anything}]

\* The line of a channel for a time.
IsLine(l, t, p, channel, value) ==
    l.ts = t /\ l.phase = p /\ l.channel = channel /\ l.value = value

\* The lines say of frequency and voltages what the table says, all of it, the
\* frequency under phase p.
LinesAgree(lines, table, p) ==
    \A k \in 1..Len(lines) :
      /\ lines[k].channel = "volt" => lines[k].value = table[lines[k].ts].volt[lines[k].phase]
      /\ lines[k].channel = "freq" => lines[k].phase = p /\ lines[k].value = table[lines[k].ts].freq

LinesSuffice(lines, table, p) ==
    /\ \A t \in Times, q \in Phases : table[t].volt[q] # NoValue =>
         \E k \in 1..Len(lines) : IsLine(lines[k], t, q, "volt", table[t].volt[q])
    /\ \A t \in Times : table[t].freq # NoValue =>
         \E k \in 1..Len(lines) : IsLine(lines[k], t, p, "freq", table[t].freq)

\* What of the definition of a table its use needs.
LEMMA TableCells ==
    ASSUME NEW table \in Table, NEW t \in Times
    PROVE  table[t].freq \in Cell /\ \A p \in Phases : table[t].volt[p] \in Cell
<1>1. table[t] \in [freq : Cell, volt : [Phases -> Cell]]
  BY DEF Table
<1> QED
  BY <1>1

\* The times of a file are all times, each once.
LEMMA TimesListed ==
    /\ Len(TimeList) \in Nat
    /\ \A i \in 1..Len(TimeList) : TimeList[i] \in Times
    /\ \A t \in Times : \E i \in 1..Len(TimeList) : TimeList[i] = t
    /\ \A i, j \in 1..Len(TimeList) : TimeList[i] = TimeList[j] => i = j
<1>1. TimeList \in Seq(Times) /\ Len(TimeList) \in Nat /\ DOMAIN TimeList = 1..Len(TimeList)
  BY TablesAssumption, LenProperties
<1>2. Times = {TimeList[i] : i \in 1..Len(TimeList)}
  BY <1>1 DEF Times, ToSet
<1> QED
  BY <1>1, <1>2, TablesAssumption

LEMMA PhasesListed ==
    /\ PhaseList \in Seq(Phases) /\ Len(PhaseList) \in Nat
    /\ \A i \in 1..Len(PhaseList) : PhaseList[i] \in Phases
    /\ \A q \in Phases : \E i \in 1..Len(PhaseList) : PhaseList[i] = q
<1>1. PhaseList \in Seq(Phases) /\ Len(PhaseList) \in Nat /\ DOMAIN PhaseList = 1..Len(PhaseList)
  BY TablesAssumption, LenProperties
<1>2. Phases = {PhaseList[i] : i \in 1..Len(PhaseList)}
  BY <1>1 DEF Phases, ToSet
<1> QED
  BY <1>1, <1>2

\* A channel has a line for each time.
LEMMA SeriesLines ==
    ASSUME NEW p \in Phases, NEW channel \in {"volt", "freq", "thd"},
           NEW values, \A t \in Times : values[t] \in Cell \cup {Anything},
           NEW lines, lines = series(p, channel, values)
    PROVE  /\ lines \in Seq(Line) /\ Len(lines) \in Nat
           /\ \A k \in 1..Len(lines) :
                \E t \in Times : IsLine(lines[k], t, p, channel, values[t])
           /\ \A t \in Times :
                \E k \in 1..Len(lines) : IsLine(lines[k], t, p, channel, values[t])
<1> DEFINE n == Len(TimeList)
           line(i) == [ts |-> TimeList[i], phase |-> p, channel |-> channel,
                       value |-> values[TimeList[i]]]
<1>1. n \in Nat /\ \A i \in 1..n : TimeList[i] \in Times
  BY TimesListed
<1>2. lines = [i \in 1..n |-> line(i)]
  BY DEF series
<1>3. \A i \in 1..n : line(i) \in Line /\ IsLine(line(i), TimeList[i], p, channel, values[TimeList[i]])
  BY <1>1 DEF Line, IsLine
<1> HIDE DEF line, n
<1>4. lines \in Seq(Line) /\ Len(lines) = n /\ \A i \in 1..n : lines[i] = line(i)
  BY <1>1, <1>2, <1>3
<1>5. \A k \in 1..n : IsLine(lines[k], TimeList[k], p, channel, values[TimeList[k]])
  BY <1>3, <1>4
<1>6. \A t \in Times : \E k \in 1..n : TimeList[k] = t
  BY TimesListed DEF n
<1> QED
  BY <1>1, <1>4, <1>5, <1>6

\* A file in the long format says what the table says.
LEMMA LongAgrees ==
    ASSUME NEW table \in Table, NEW p \in Phases, NEW lines, lines = Long(table, p)
    PROVE  lines \in Seq(Line) /\ LinesAgree(lines, table, p) /\ LinesSuffice(lines, table, p)
<1> DEFINE volts(i) == [t \in Times |-> table[t].volt[PhaseList[i]]]
           seqs == [i \in 1..Len(PhaseList) |-> series(PhaseList[i], "volt", volts(i))]
           volt == FlattenSeq(seqs)
           freqs == [t \in Times |-> table[t].freq]
           freq == series(p, "freq", freqs)
           thds == [t \in Times |-> Anything]
           thd == series(p, "thd", thds)
           n == Len(PhaseList)
<1>1. lines = (volt \o freq) \o thd
  BY DEF Long
<1>2. /\ \A t \in Times : freqs[t] = table[t].freq /\ freqs[t] \in Cell \cup {Anything}
      /\ \A t \in Times : thds[t] \in Cell \cup {Anything}
  BY TableCells
<1>3. ASSUME NEW i \in 1..n
      PROVE  /\ PhaseList[i] \in Phases
             /\ \A t \in Times : /\ volts(i)[t] = table[t].volt[PhaseList[i]]
                               /\ volts(i)[t] \in Cell \cup {Anything}
  <2>1. PhaseList[i] \in Phases
    BY PhasesListed
  <2> QED
    BY <2>1, TableCells
<1> HIDE DEF volts, freqs, thds
<1>4. /\ freq \in Seq(Line) /\ Len(freq) \in Nat
      /\ \A k \in 1..Len(freq) : \E t \in Times : IsLine(freq[k], t, p, "freq", freqs[t])
      /\ \A t \in Times : \E k \in 1..Len(freq) : IsLine(freq[k], t, p, "freq", freqs[t])
  BY <1>2, SeriesLines
<1>5. /\ thd \in Seq(Line) /\ Len(thd) \in Nat
      /\ \A k \in 1..Len(thd) : \E t \in Times : IsLine(thd[k], t, p, "thd", thds[t])
  BY <1>2, SeriesLines
<1>6. ASSUME NEW i \in 1..n
      PROVE  /\ seqs[i] \in Seq(Line) /\ Len(seqs[i]) \in Nat
             /\ \A k \in 1..Len(seqs[i]) :
                  \E t \in Times : IsLine(seqs[i][k], t, PhaseList[i], "volt", volts(i)[t])
             /\ \A t \in Times :
                  \E k \in 1..Len(seqs[i]) : IsLine(seqs[i][k], t, PhaseList[i], "volt", volts(i)[t])
  <2>1. seqs[i] = series(PhaseList[i], "volt", volts(i))
    OBVIOUS
  <2> HIDE DEF seqs
  <2> QED
    BY <1>3, <2>1, SeriesLines
<1>7. seqs \in Seq(Seq(Line)) /\ Len(seqs) = n /\ n \in Nat
  <2>1. n \in Nat
    BY PhasesListed
  <2> HIDE DEF n
  <2>2. \A i \in 1..n : seqs[i] \in Seq(Line)
    BY <1>6
  <2>3. seqs = [i \in 1..n |-> seqs[i]]
    BY DEF n
  <2> HIDE DEF seqs
  <2> QED
    BY <2>1, <2>2, <2>3
<1> HIDE DEF seqs, freq, thd
<1>8. volt \in Seq(Line) /\ JoinedOf(volt, seqs, n) /\ Len(volt) \in Nat
  <2>1. volt \in Seq(Line) /\ JoinedOf(volt, seqs, n)
    BY <1>7, FlattenJoins
  <2> QED
    BY <2>1, LenProperties
<1> HIDE DEF volt
<1>9. /\ volt \o freq \in Seq(Line) /\ lines \in Seq(Line)
      /\ Len(lines) = Len(volt) + Len(freq) + Len(thd)
      /\ \A k \in 1..Len(volt) : k \in 1..Len(lines) /\ lines[k] = volt[k]
      /\ \A k \in 1..Len(freq) : Len(volt) + k \in 1..Len(lines) /\ lines[Len(volt) + k] = freq[k]
      /\ \A k \in 1..Len(lines) :
           \/ k \in 1..Len(volt) /\ lines[k] = volt[k]
           \/ k - Len(volt) \in 1..Len(freq) /\ lines[k] = freq[k - Len(volt)]
           \/ /\ k - (Len(volt) + Len(freq)) \in 1..Len(thd)
              /\ lines[k] = thd[k - (Len(volt) + Len(freq))]
  <2> DEFINE vf == volt \o freq
  <2>1. /\ vf \in Seq(Line) /\ Len(vf) = Len(volt) + Len(freq)
        /\ \A k \in 1..(Len(volt) + Len(freq)) :
             vf[k] = IF k <= Len(volt) THEN volt[k] ELSE freq[k - Len(volt)]
    BY <1>4, <1>8, ConcatProperties
  <2>2. lines = vf \o thd
    BY <1>1
  <2> HIDE DEF vf
  <2>3. /\ lines \in Seq(Line) /\ Len(lines) = Len(vf) + Len(thd)
        /\ \A k \in 1..(Len(vf) + Len(thd)) :
             lines[k] = IF k <= Len(vf) THEN vf[k] ELSE thd[k - Len(vf)]
    <3>1. /\ vf \o thd \in Seq(Line) /\ Len(vf \o thd) = Len(vf) + Len(thd)
          /\ \A k \in 1..(Len(vf) + Len(thd)) :
               (vf \o thd)[k] = IF k <= Len(vf) THEN vf[k] ELSE thd[k - Len(vf)]
      <4>1. vf \in Seq(Line) /\ thd \in Seq(Line)
        BY <1>5, <2>1
      <4> QED
        BY ONLY <4>1, ConcatProperties
    <3> QED
      BY <2>2, <3>1
  <2>4. \A k \in 1..Len(volt) : k \in 1..Len(lines) /\ lines[k] = volt[k]
    BY <1>4, <1>5, <1>8, <2>1, <2>3
  <2>5. \A k \in 1..Len(freq) : Len(volt) + k \in 1..Len(lines) /\ lines[Len(volt) + k] = freq[k]
    BY <1>4, <1>5, <1>8, <2>1, <2>3
  <2>6. ASSUME NEW k \in 1..Len(lines)
        PROVE  \/ k \in 1..Len(volt) /\ lines[k] = volt[k]
               \/ k - Len(volt) \in 1..Len(freq) /\ lines[k] = freq[k - Len(volt)]
               \/ /\ k - (Len(volt) + Len(freq)) \in 1..Len(thd)
                  /\ lines[k] = thd[k - (Len(volt) + Len(freq))]
    <3>1. CASE k <= Len(volt)
      BY <1>4, <1>5, <1>8, <2>1, <2>3, <3>1
    <3>2. CASE k > Len(volt) /\ k <= Len(vf)
      BY <1>4, <1>5, <1>8, <2>1, <2>3, <3>2
    <3>3. CASE k > Len(vf)
      BY <1>4, <1>5, <1>8, <2>1, <2>3, <3>3
    <3> QED
      BY <1>4, <1>8, <2>1, <3>1, <3>2, <3>3
  <2> QED
    BY <2>1, <2>3, <2>4, <2>5, <2>6 DEF vf
<1>10. LinesAgree(lines, table, p)
  <2>1. ASSUME NEW k \in 1..Len(lines)
        PROVE  /\ lines[k].channel = "volt" => lines[k].value = table[lines[k].ts].volt[lines[k].phase]
               /\ lines[k].channel = "freq" => lines[k].phase = p /\ lines[k].value = table[lines[k].ts].freq
    <3>1. CASE k \in 1..Len(volt) /\ lines[k] = volt[k]
      <4>1. PICK i \in 1..n : \E a \in 1..Len(seqs[i]) : lines[k] = seqs[i][a]
        <5>1. \E i \in 1..n : \E a \in 1..Len(seqs[i]) : volt[k] = seqs[i][a]
          BY <1>8, <3>1, Zenon DEF JoinedOf
        <5> QED
          BY <3>1, <5>1
      <4>2. PICK t \in Times : IsLine(lines[k], t, PhaseList[i], "volt", volts(i)[t])
        BY <1>6, <4>1
      <4> QED
        BY <1>3, <4>2 DEF IsLine
    <3>2. CASE k - Len(volt) \in 1..Len(freq) /\ lines[k] = freq[k - Len(volt)]
      <4>1. PICK t \in Times : IsLine(lines[k], t, p, "freq", freqs[t])
        BY <1>4, <3>2
      <4> QED
        BY <1>2, <4>1 DEF IsLine
    <3>3. CASE /\ k - (Len(volt) + Len(freq)) \in 1..Len(thd)
               /\ lines[k] = thd[k - (Len(volt) + Len(freq))]
      <4>1. PICK t \in Times : IsLine(lines[k], t, p, "thd", thds[t])
        BY <1>5, <3>3
      <4> QED
        BY <4>1 DEF IsLine
    <3> QED
      BY <1>9, <3>1, <3>2, <3>3
  <2> QED
    BY <2>1 DEF LinesAgree
<1>11. LinesSuffice(lines, table, p)
  <2>1. ASSUME NEW t \in Times, NEW q \in Phases
        PROVE  \E k \in 1..Len(lines) : IsLine(lines[k], t, q, "volt", table[t].volt[q])
    <3>1. PICK i \in 1..n : PhaseList[i] = q
      BY PhasesListed
    <3>2. PICK a \in 1..Len(seqs[i]) : IsLine(seqs[i][a], t, q, "volt", table[t].volt[q])
      BY <1>3, <1>6, <3>1
    <3>3. PICK k \in 1..Len(volt) : volt[k] = seqs[i][a]
      BY <1>8 DEF JoinedOf
    <3> QED
      BY <1>9, <3>2, <3>3
  <2>2. ASSUME NEW t \in Times
        PROVE  \E k \in 1..Len(lines) : IsLine(lines[k], t, p, "freq", table[t].freq)
    BY <1>2, <1>4, <1>9
  <2> QED
    BY <2>1, <2>2 DEF LinesSuffice
<1> QED
  BY <1>9, <1>10, <1>11

\* Lines without a value say nothing.
LEMMA ReadAgrees ==
    ASSUME NEW table \in Table, NEW p \in Phases, NEW lines \in Seq(Line),
           LinesAgree(lines, table, p), LinesSuffice(lines, table, p), NEW read,
           read = Kept(lines, {i \in 1..Len(lines) : lines[i].ts \in Times /\ lines[i].value # NoValue})
    PROVE  read \in Seq(Line) /\ LinesAgree(read, table, p) /\ LinesSuffice(read, table, p)
<1> DEFINE places == {i \in 1..Len(lines) : lines[i].ts \in Times /\ lines[i].value # NoValue}
<1>1. read = Kept(lines, places) /\ places \in SUBSET (1..Len(lines))
  OBVIOUS
<1>2. \A i \in 1..Len(lines) : lines[i].ts \in Times /\ lines[i].value # NoValue => i \in places
  OBVIOUS
<1> HIDE DEF places
<1>3. read \in Seq(Line) /\ KeptFrom(read, lines, places)
  BY <1>1, KeptLines
<1>4. LinesAgree(read, table, p)
  <2>1. \A k \in 1..Len(read) : \E i \in 1..Len(lines) : read[k] = lines[i]
    BY <1>1, <1>3 DEF KeptFrom
  <2> QED
    BY <2>1 DEF LinesAgree
<1>5. ASSUME NEW i \in 1..Len(lines), NEW t \in Times, NEW q, NEW channel, NEW value,
             IsLine(lines[i], t, q, channel, value), value # NoValue
      PROVE  \E k \in 1..Len(read) : IsLine(read[k], t, q, channel, value)
  <2>1. i \in places
    BY <1>2, <1>5 DEF IsLine
  <2>2. PICK k \in 1..Len(read) : read[k] = lines[i]
    BY <1>3, <2>1 DEF KeptFrom
  <2> QED
    BY <1>5, <2>2
<1>6. LinesSuffice(read, table, p)
  <2>1. ASSUME NEW t \in Times, NEW q \in Phases, table[t].volt[q] # NoValue
        PROVE  \E k \in 1..Len(read) : IsLine(read[k], t, q, "volt", table[t].volt[q])
    <3>1. PICK i \in 1..Len(lines) : IsLine(lines[i], t, q, "volt", table[t].volt[q])
      BY <2>1 DEF LinesSuffice
    <3> QED
      BY <1>5, <2>1, <3>1
  <2>2. ASSUME NEW t \in Times, table[t].freq # NoValue
        PROVE  \E k \in 1..Len(read) : IsLine(read[k], t, p, "freq", table[t].freq)
    <3>1. PICK i \in 1..Len(lines) : IsLine(lines[i], t, p, "freq", table[t].freq)
      BY <2>2 DEF LinesSuffice
    <3> QED
      BY <1>5, <2>2, <3>1
  <2> QED
    BY <2>1, <2>2 DEF LinesSuffice
<1> QED
  BY <1>3, <1>4, <1>6

\* Where the lines of a channel of a group agree, their last is any of them.
LEMMA LastIsAny ==
    ASSUME NEW lines, Len(lines) \in Nat, NEW l, NEW channel, NEW band, NEW value,
           \A i \in 1..Len(lines) :
             group(lines[i]) = group(l) /\ lines[i].channel = channel => lines[i].value = value,
           value \in band =>
             \E i \in 1..Len(lines) : group(lines[i]) = group(l) /\ lines[i].channel = channel
    PROVE  last_value(lines, l, channel, band) = InBand(value, band)
<1> DEFINE hits == {i \in 1..Len(lines) : /\ group(lines[i]) = group(l)
                                         /\ lines[i].channel = channel /\ lines[i].value \in band}
           last == CHOOSE i \in hits : \A j \in hits : j <= i
<1>1. last_value(lines, l, channel, band) = IF hits = {} THEN NoValue ELSE lines[last].value
  BY DEF last_value
<1>2. CASE hits = {}
  <2>1. value \notin band
    BY <1>2
  <2> QED
    BY <1>1, <1>2, <2>1 DEF InBand
<1>3. CASE hits # {}
  <2>1. hits \in SUBSET (1..Len(lines))
    OBVIOUS
  <2>2. \E i \in hits : \A j \in hits : j <= i
    <3> HIDE DEF hits
    <3> QED
      BY <1>3, <2>1, Greatest
  <2>3. last \in hits
    <3> HIDE DEF hits
    <3> QED
      BY <2>2
  <2>4. lines[last].value = value /\ value \in band
    BY <2>3
  <2> HIDE DEF hits, last
  <2> QED
    BY <1>1, <1>3, <2>4 DEF InBand
<1> QED
  BY <1>2, <1>3

\* The row of a group says what the table says.
LEMMA GroupedAgrees ==
    ASSUME NEW table \in Table, NEW p \in Phases, NEW lines \in Seq(Line),
           LinesAgree(lines, table, p), LinesSuffice(lines, table, p), NEW l \in Line
    PROVE  /\ grouped(lines, l) \in ParsedRow
           /\ grouped(lines, l).ts = l.ts /\ grouped(lines, l).phase = l.phase
           /\ grouped(lines, l).voltage = InBand(table[l.ts].volt[l.phase], VoltBand)
           /\ grouped(lines, l).frequency
                = IF l.phase = p THEN InBand(table[l.ts].freq, FreqBand) ELSE NoValue
<1>1. l.ts \in Times /\ l.phase \in Phases
  BY DEF Line
<1>2. NoValue \notin VoltBand /\ NoValue \notin FreqBand /\ VoltBand \subseteq Cell
      /\ FreqBand \subseteq Cell /\ NoValue \in Cell
  BY TablesAssumption DEF Cell
<1>3. Len(lines) \in Nat
  BY LenProperties
<1>4. last_value(lines, l, "volt", VoltBand) = InBand(table[l.ts].volt[l.phase], VoltBand)
  <2>1. \A i \in 1..Len(lines) : group(lines[i]) = group(l) /\ lines[i].channel = "volt"
          => lines[i].value = table[l.ts].volt[l.phase]
    BY DEF LinesAgree, group
  <2>2. table[l.ts].volt[l.phase] \in VoltBand =>
          \E i \in 1..Len(lines) : group(lines[i]) = group(l) /\ lines[i].channel = "volt"
    BY <1>1, <1>2 DEF LinesSuffice, IsLine, group
  <2> QED
    BY <1>3, <2>1, <2>2, LastIsAny
<1>5. last_value(lines, l, "freq", FreqBand)
        = IF l.phase = p THEN InBand(table[l.ts].freq, FreqBand) ELSE NoValue
  <2>1. CASE l.phase = p
    <3>1. \A i \in 1..Len(lines) : group(lines[i]) = group(l) /\ lines[i].channel = "freq"
            => lines[i].value = table[l.ts].freq
      BY DEF LinesAgree, group
    <3>2. table[l.ts].freq \in FreqBand =>
            \E i \in 1..Len(lines) : group(lines[i]) = group(l) /\ lines[i].channel = "freq"
      BY <1>1, <1>2, <2>1 DEF LinesSuffice, IsLine, group
    <3>3. last_value(lines, l, "freq", FreqBand) = InBand(table[l.ts].freq, FreqBand)
      BY <1>3, <3>1, <3>2, LastIsAny
    <3> QED
      BY <2>1, <3>3
  <2>2. CASE l.phase # p
    <3>1. \A i \in 1..Len(lines) : group(lines[i]) = group(l) /\ lines[i].channel = "freq"
            => lines[i].value = NoValue
      BY <2>2 DEF LinesAgree, group
    <3>2. NoValue \in FreqBand =>
            \E i \in 1..Len(lines) : group(lines[i]) = group(l) /\ lines[i].channel = "freq"
      BY <1>2
    <3>3. last_value(lines, l, "freq", FreqBand) = InBand(NoValue, FreqBand)
      BY <1>3, <3>1, <3>2, LastIsAny
    <3> QED
      BY <2>2, <3>3 DEF InBand
  <2> QED
    BY <2>1, <2>2
<1>6. \A v : InBand(v, VoltBand) \in Cell /\ InBand(v, FreqBand) \in Cell
  BY <1>2 DEF InBand
<1> QED
  BY <1>1, <1>2, <1>4, <1>5, <1>6 DEF grouped, ParsedRow

FirstPlaces(read) ==
    {i \in 1..Len(read) : \A j \in 1..(i - 1) : group(read[j]) # group(read[i])}

\* The first lines of the groups: one of each, and no two of the same.
LEMMA FirstsOfGroups ==
    ASSUME NEW read \in Seq(Line), NEW firsts, firsts = Kept(read, FirstPlaces(read))
    PROVE  /\ firsts \in Seq(Line) /\ Len(firsts) \in Nat
           /\ \A i \in 1..Len(read) : \E k \in 1..Len(firsts) : group(firsts[k]) = group(read[i])
           /\ \A j, k \in 1..Len(firsts) : j < k => group(firsts[j]) # group(firsts[k])
<1> DEFINE places == FirstPlaces(read)
<1>1. firsts = Kept(read, places) /\ places \in SUBSET (1..Len(read)) /\ Len(read) \in Nat
  BY LenProperties DEF FirstPlaces
<1>2. \A i \in places : \A j \in 1..(i - 1) : group(read[j]) # group(read[i])
  BY DEF FirstPlaces
<1>3. \A i \in 1..Len(read) :
        (\A j \in 1..(i - 1) : group(read[j]) # group(read[i])) => i \in places
  BY DEF FirstPlaces
<1> HIDE DEF places
<1>4. firsts \in Seq(Line) /\ KeptFrom(firsts, read, places) /\ Len(firsts) \in Nat
  <2>1. firsts \in Seq(Line) /\ KeptFrom(firsts, read, places)
    BY <1>1, KeptLines
  <2> QED
    BY <2>1, LenProperties
<1>5. ASSUME NEW i \in 1..Len(read)
      PROVE  \E k \in 1..Len(firsts) : group(firsts[k]) = group(read[i])
  <2> DEFINE same == {j \in 1..Len(read) : group(read[j]) = group(read[i])}
  <2>1. same \in SUBSET Nat /\ same # {} /\ same \subseteq 1..Len(read)
    OBVIOUS
  <2>2. PICK m \in same : \A j \in same : ~(j < m)
    <3> HIDE DEF same
    <3> QED
      BY <2>1, Least
  <2>3. m \in 1..Len(read) /\ group(read[m]) = group(read[i])
    BY <2>2
  <2>4. m \in places
    <3>1. ASSUME NEW j \in 1..(m - 1), group(read[j]) = group(read[m]) PROVE FALSE
      <4>1. j \in 1..Len(read) /\ j < m
        BY <1>1, <2>3
      <4>2. j \in same
        BY <2>3, <3>1, <4>1
      <4> QED
        BY <2>2, <4>1, <4>2
    <3> QED
      BY <1>3, <2>3, <3>1
  <2>5. PICK k \in 1..Len(firsts) : firsts[k] = read[m]
    BY <1>4, <2>4 DEF KeptFrom
  <2> QED
    BY <2>3, <2>5
<1>6. ASSUME NEW j \in 1..Len(firsts), NEW k \in 1..Len(firsts), j < k
      PROVE  group(firsts[j]) # group(firsts[k])
  <2>1. PICK a \in places, b \in places : a < b /\ firsts[j] = read[a] /\ firsts[k] = read[b]
    BY <1>4, <1>6 DEF KeptFrom
  <2>2. a \in 1..(b - 1)
    BY <1>1, <2>1
  <2> QED
    BY <1>2, <2>1, <2>2
<1> QED
  BY <1>4, <1>5, <1>6

\* The rows of the groups are those of the table.
LEMMA GroupsAreFor ==
    ASSUME NEW table \in Table, NEW p \in Phases, NEW read \in Seq(Line),
           LinesAgree(read, table, p), LinesSuffice(read, table, p),
           NEW firsts \in Seq(Line), Len(firsts) \in Nat,
           \A i \in 1..Len(read) : \E k \in 1..Len(firsts) : group(firsts[k]) = group(read[i]),
           \A j, k \in 1..Len(firsts) : j < k => group(firsts[j]) # group(firsts[k])
    PROVE  RowsFor([i \in 1..Len(firsts) |-> grouped(read, firsts[i])], table, Times)
<1> DEFINE rows == [i \in 1..Len(firsts) |-> grouped(read, firsts[i])]
           n == Len(firsts)
<1>1. \A i \in 1..n : firsts[i] \in Line /\ firsts[i].ts \in Times /\ firsts[i].phase \in Phases
  <2>1. \A i \in 1..n : firsts[i] \in Line
    BY ElementOfSeq
  <2> QED
    BY <2>1 DEF Line
<1>2. ASSUME NEW i \in 1..n
      PROVE  /\ rows[i] \in ParsedRow
             /\ rows[i].ts = firsts[i].ts /\ rows[i].phase = firsts[i].phase
             /\ rows[i].voltage = InBand(table[firsts[i].ts].volt[firsts[i].phase], VoltBand)
             /\ rows[i].frequency
                  = IF firsts[i].phase = p THEN InBand(table[firsts[i].ts].freq, FreqBand) ELSE NoValue
  <2>1. rows[i] = grouped(read, firsts[i])
    OBVIOUS
  <2> HIDE DEF rows
  <2> QED
    BY <1>1, <2>1, GroupedAgrees
<1>3. rows \in Seq(ParsedRow) /\ Len(rows) = n /\ n \in Nat
  <2>1. n \in Nat
    OBVIOUS
  <2>2. rows = [i \in 1..n |-> rows[i]]
    OBVIOUS
  <2>3. \A i \in 1..n : rows[i] \in ParsedRow
    BY <1>2
  <2> HIDE DEF rows, n
  <2> QED
    BY <2>1, <2>2, <2>3, FunctionIsSeq
<1>4. \A i \in 1..Len(read) : read[i] \in Line
  BY ElementOfSeq
<1>5. ASSUME NEW t \in Times, NEW q \in Phases, NEW i \in 1..Len(read), read[i].ts = t, read[i].phase = q
      PROVE  \E k \in 1..n : firsts[k].ts = t /\ firsts[k].phase = q
  <2>1. PICK k \in 1..n : group(firsts[k]) = group(read[i])
    OBVIOUS
  <2> QED
    BY <1>5, <2>1 DEF group
<1>6. \A j, k \in 1..n : j < k => ~(firsts[j].ts = firsts[k].ts /\ firsts[j].phase = firsts[k].phase)
  BY DEF group
<1> HIDE DEF rows, n
<1>7. NoValue \notin VoltBand /\ NoValue \notin FreqBand
  BY TablesAssumption
<1>8. \A k \in 1..n : rows[k].ts \in Times
  BY <1>1, <1>2
<1>9. KeysDiffer(rows)
  BY <1>2, <1>3, <1>6 DEF KeysDiffer
<1>10. RowsAgree(rows, table)
  <2>1. ASSUME NEW k \in 1..n
        PROVE  /\ rows[k].voltage # NoValue =>
                    /\ rows[k].phase \in Phases /\ rows[k].voltage \in VoltBand
                    /\ rows[k].voltage = table[rows[k].ts].volt[rows[k].phase]
               /\ rows[k].frequency # NoValue =>
                    rows[k].frequency \in FreqBand /\ rows[k].frequency = table[rows[k].ts].freq
    BY <1>1, <1>2 DEF InBand
  <2> QED
    BY <1>3, <2>1 DEF RowsAgree
<1>11. RowsSuffice(rows, table, Times)
  <2>1. ASSUME NEW t \in Times, NEW q \in Phases, table[t].volt[q] \in VoltBand
        PROVE  \E k \in 1..n :
                 rows[k].ts = t /\ rows[k].phase = q /\ rows[k].voltage = table[t].volt[q]
    <3>1. PICK i \in 1..Len(read) : IsLine(read[i], t, q, "volt", table[t].volt[q])
      BY <1>7, <2>1 DEF LinesSuffice
    <3>2. PICK k \in 1..n : firsts[k].ts = t /\ firsts[k].phase = q
      BY <1>5, <3>1 DEF IsLine
    <3> QED
      BY <1>2, <2>1, <3>2 DEF InBand
  <2>2. ASSUME NEW t \in Times, table[t].freq \in FreqBand
        PROVE  \E k \in 1..n : rows[k].ts = t /\ rows[k].frequency = table[t].freq
    <3>1. PICK i \in 1..Len(read) : IsLine(read[i], t, p, "freq", table[t].freq)
      BY <1>7, <2>2 DEF LinesSuffice
    <3>2. PICK k \in 1..n : firsts[k].ts = t /\ firsts[k].phase = p
      BY <1>5, <3>1 DEF IsLine
    <3> QED
      BY <1>2, <2>2, <3>2 DEF InBand
  <2> QED
    BY <1>3, <2>1, <2>2 DEF RowsSuffice
<1>12. FrequencyOnce(rows)
  <2>1. \A k \in 1..n : rows[k].frequency # NoValue => rows[k].phase = p
    BY <1>2
  <2> QED
    BY <1>3, <1>9, <2>1 DEF KeysDiffer, FrequencyOnce
<1>13. RowsFor(rows, table, Times)
  BY <1>3, <1>8, <1>9, <1>10, <1>11, <1>12 DEF RowsFor
<1> QED
  BY <1>13 DEF rows

\* A long file is read in full: of any table every value in its band is staged
\* once, whatever phase the frequency comes with, and nothing else is.
THEOREM LongFiles == LongIsReadInFull
<1> SUFFICES ASSUME NEW table \in Table, NEW p \in Phases
             PROVE  /\ Staged(rows_from_long(Long(table, p))) = Readings(table)
                    /\ FrequencyOnce(rows_from_long(Long(table, p)))
  BY DEF LongIsReadInFull
<1> DEFINE lines == Long(table, p)
           read == Kept(lines, {i \in 1..Len(lines) : lines[i].ts \in Times /\ lines[i].value # NoValue})
           firsts == Kept(read, FirstPlaces(read))
           rows == [i \in 1..Len(firsts) |-> grouped(read, firsts[i])]
<1>1. lines \in Seq(Line) /\ LinesAgree(lines, table, p) /\ LinesSuffice(lines, table, p)
  BY LongAgrees
<1>2. rows_from_long(lines) = Telling(rows)
  BY DEF rows_from_long, FirstPlaces
<1>3. read \in Seq(Line) /\ LinesAgree(read, table, p) /\ LinesSuffice(read, table, p)
  <2> HIDE DEF lines
  <2> QED
    BY <1>1, ReadAgrees
<1>4. RowsFor(rows, table, Times)
  <2> HIDE DEF read
  <2>1. /\ firsts \in Seq(Line) /\ Len(firsts) \in Nat
        /\ \A i \in 1..Len(read) : \E k \in 1..Len(firsts) : group(firsts[k]) = group(read[i])
        /\ \A j, k \in 1..Len(firsts) : j < k => group(firsts[j]) # group(firsts[k])
    BY <1>3, FirstsOfGroups
  <2> HIDE DEF firsts
  <2> QED
    BY <1>3, <2>1, GroupsAreFor
<1>5. RowsFor(Telling(rows), table, Times)
  <2> HIDE DEF rows
  <2> QED
    BY <1>4, TellingIsFor
<1>6. Staged(Telling(rows)) = Readings(table) /\ FrequencyOnce(Telling(rows))
  <2> HIDE DEF rows
  <2> QED
    BY <1>5, AgreeingIsStaged DEF RowsFor
<1> QED
  BY <1>2, <1>6

--------------------------------------------------------------------------------
(* Wide files.                                                             *)

\* What a layout with clear names is, column by column.
ClearLayout(layout) ==
    /\ Len(layout) \in Nat
    /\ \A c, d \in 1..Len(layout) :
         layout[c].of = layout[d].of /\ layout[c].of \in {"time", "freq"} \cup Phases => c = d
    /\ \A c \in 1..Len(layout) :
         /\ layout[c].of = "time" =>
              layout[c].header.ts /\ \A d \in 1..(c - 1) : ~layout[d].header.ts
         /\ layout[c].header.ts => \E d \in 1..Len(layout) : layout[d].of = "time"
         /\ layout[c].of = "freq" =>
              layout[c].header.freq /\ \A d \in 1..(c - 1) : ~layout[d].header.freq
         /\ layout[c].header.freq => \E d \in 1..Len(layout) : layout[d].of = "freq"
         /\ layout[c].of \in Phases =>
              layout[c].header.volt /\ ~layout[c].header.freq /\ layout[c].header.phase = layout[c].of
         /\ layout[c].header.volt /\ ~layout[c].header.freq => layout[c].of \in Phases \cup {"time"}

LEMMA LayoutIsClear ==
    ASSUME NEW layout \in Layouts
    PROVE  ClearLayout(layout)
<1>1. Len(layout) \in Nat
  <2>1. \E S : layout \in Seq(S)
    BY LayoutsAreClear
  <2> QED
    BY <2>1, LenProperties
<1>2. \A q : q \in Columns(layout) => \E d \in 1..Len(layout) : layout[d].of = q
  BY DEF Columns
<1>3. \A c, d \in 1..Len(layout) :
        layout[c].of = layout[d].of /\ layout[c].of \in {"time", "freq"} \cup Phases => c = d
  BY LayoutsAreClear, Zenon
<1>4. ASSUME NEW c \in 1..Len(layout)
      PROVE  /\ layout[c].of = "time" =>
                  layout[c].header.ts /\ \A d \in 1..(c - 1) : ~layout[d].header.ts
             /\ layout[c].header.ts => "time" \in Columns(layout)
             /\ layout[c].of = "freq" =>
                  layout[c].header.freq /\ \A d \in 1..(c - 1) : ~layout[d].header.freq
             /\ layout[c].header.freq => "freq" \in Columns(layout)
             /\ layout[c].of \in Phases =>
                  /\ layout[c].header.volt /\ ~layout[c].header.freq
                  /\ layout[c].header.phase = layout[c].of
             /\ layout[c].header.volt /\ ~layout[c].header.freq => layout[c].of \in Phases \cup {"time"}
  BY LayoutsAreClear, Zenon
<1> QED
  BY <1>1, <1>2, <1>3, <1>4 DEF ClearLayout

\* The columns are those of the quantities they show: of the time and of the
\* frequency the only one, or none; of each phase the only one.
ColumnsFound(cols, layout) ==
    /\ cols.ts = 0 \/ (cols.ts \in 1..Len(layout) /\ layout[cols.ts].of = "time")
    /\ cols.ts = 0 => \A c \in 1..Len(layout) : layout[c].of # "time"
    /\ cols.freq = 0 \/ (cols.freq \in 1..Len(layout) /\ layout[cols.freq].of = "freq")
    /\ cols.freq = 0 => \A c \in 1..Len(layout) : layout[c].of # "freq"
    /\ cols.volt \in Seq(1..Len(layout)) /\ Len(cols.volt) \in Nat
    /\ \A k \in 1..Len(cols.volt) : /\ layout[cols.volt[k]].of \in Phases
                                    /\ layout[cols.volt[k]].header.phase = layout[cols.volt[k]].of
    /\ \A j, k \in 1..Len(cols.volt) : j < k => layout[cols.volt[j]].of # layout[cols.volt[k]].of
    /\ \A c \in 1..Len(layout) : layout[c].of \in Phases =>
         \E k \in 1..Len(cols.volt) : cols.volt[k] = c

\* The first of a set that has one before the others.
LEMMA FirstIs ==
    ASSUME NEW n \in Nat, NEW found \in SUBSET (1..n), NEW c \in found,
           \A d \in 1..(c - 1) : d \notin found
    PROVE  FirstColumn(found) = c
<1>1. \A j \in found : c <= j
  OBVIOUS
<1>2. \A i \in found : (\A j \in found : i <= j) => i = c
  BY <1>1
<1>3. (CHOOSE i \in found : \A j \in found : i <= j) = c
  BY <1>1, <1>2
<1> QED
  BY <1>3 DEF FirstColumn

LEMMA ColumnsAreFound ==
    ASSUME NEW layout, ClearLayout(layout), NEW cols, cols = classify_columns(Headers(layout))
    PROVE  ColumnsFound(cols, layout)
<1> DEFINE n == Len(layout)
           headers == Headers(layout)
           ts == {i \in 1..n : layout[i].header.ts}
           freq == {i \in 1..n : layout[i].header.freq}
           volt == {i \in 1..n : /\ layout[i].header.volt /\ ~layout[i].header.freq
                                /\ i # FirstColumn(ts)}
           numbers == [i \in 1..n |-> i]
<1>1. n \in Nat
  BY DEF ClearLayout
<1>2. Len(headers) = n /\ \A i \in 1..n : headers[i] = layout[i].header
  BY <1>1 DEF Headers
<1>3. cols.ts = FirstColumn(ts) /\ cols.freq = FirstColumn(freq) /\ cols.volt = Kept(numbers, volt)
  <2>1. ts = {i \in 1..Len(headers) : headers[i].ts}
    BY <1>2
  <2>2. freq = {i \in 1..Len(headers) : headers[i].freq}
    BY <1>2
  <2>3. volt = {i \in 1..Len(headers) : /\ headers[i].volt /\ ~headers[i].freq
                                       /\ i # FirstColumn(ts)}
    BY <1>2
  <2>4. numbers = [i \in 1..Len(headers) |-> i]
    BY <1>2
  <2> HIDE DEF headers, ts, freq, volt, numbers
  <2> QED
    BY <2>1, <2>2, <2>3, <2>4 DEF classify_columns, headers
<1>4. /\ cols.ts = 0 \/ (cols.ts \in 1..n /\ layout[cols.ts].of = "time")
      /\ cols.ts = 0 => \A c \in 1..n : layout[c].of # "time"
  <2>1. CASE \E c \in 1..n : layout[c].of = "time"
    <3>1. PICK c \in 1..n : layout[c].of = "time"
      BY <2>1
    <3>2. c \in ts /\ \A d \in 1..(c - 1) : d \notin ts
      BY <3>1 DEF ClearLayout
    <3>3. ts \in SUBSET (1..n)
      OBVIOUS
    <3> HIDE DEF ts, n
    <3>4. FirstColumn(ts) = c
      BY <1>1, <3>2, <3>3, FirstIs
    <3> QED
      BY <1>1, <1>3, <3>1, <3>4
  <2>2. CASE ~\E c \in 1..n : layout[c].of = "time"
    <3>1. ts = {}
      BY <2>2 DEF ClearLayout
    <3> QED
      BY <1>3, <2>2, <3>1 DEF FirstColumn
  <2> QED
    BY <2>1, <2>2
<1>5. /\ cols.freq = 0 \/ (cols.freq \in 1..n /\ layout[cols.freq].of = "freq")
      /\ cols.freq = 0 => \A c \in 1..n : layout[c].of # "freq"
  <2>1. CASE \E c \in 1..n : layout[c].of = "freq"
    <3>1. PICK c \in 1..n : layout[c].of = "freq"
      BY <2>1
    <3>2. c \in freq /\ \A d \in 1..(c - 1) : d \notin freq
      BY <3>1 DEF ClearLayout
    <3>3. freq \in SUBSET (1..n)
      OBVIOUS
    <3> HIDE DEF freq, n
    <3>4. FirstColumn(freq) = c
      BY <1>1, <3>2, <3>3, FirstIs
    <3> QED
      BY <1>1, <1>3, <3>1, <3>4
  <2>2. CASE ~\E c \in 1..n : layout[c].of = "freq"
    <3>1. freq = {}
      BY <2>2 DEF ClearLayout
    <3> QED
      BY <1>3, <2>2, <3>1 DEF FirstColumn
  <2> QED
    BY <2>1, <2>2
<1>6. \A i \in 1..n : i \in volt <=> layout[i].of \in Phases
  <2>1. "time" \notin Phases
    BY TablesAssumption
  <2>2. ASSUME NEW i \in 1..n, i \in volt PROVE layout[i].of \in Phases
    <3>1. layout[i].of \in Phases \cup {"time"} /\ i # cols.ts
      BY <1>3, <2>2 DEF ClearLayout
    <3>2. CASE layout[i].of = "time"
      <4>1. cols.ts \in 1..n /\ layout[cols.ts].of = "time"
        BY <1>4, <3>2
      <4>2. i = cols.ts
        BY <3>2, <4>1 DEF ClearLayout
      <4> QED
        BY <3>1, <4>2
    <3> QED
      BY <3>1, <3>2
  <2>3. ASSUME NEW i \in 1..n, layout[i].of \in Phases PROVE i \in volt
    <3>1. layout[i].header.volt /\ ~layout[i].header.freq
      BY <2>3 DEF ClearLayout
    <3>2. i # cols.ts
      BY <1>1, <1>4, <2>1, <2>3
    <3> QED
      BY <1>3, <3>1, <3>2
  <2> QED
    BY <2>2, <2>3
<1>7. \A i \in 1..n : numbers[i] = i
  OBVIOUS
<1>8. numbers \in Seq(1..n) /\ Len(numbers) = n /\ volt \in SUBSET (1..n)
  BY <1>1
<1> HIDE DEF numbers, volt, n
<1>9. cols.volt \in Seq(1..n) /\ KeptFrom(cols.volt, numbers, volt)
  BY <1>3, <1>8, KeptLines
<1>10. Len(cols.volt) \in Nat
  BY <1>9, LenProperties
<1>11. \A k \in 1..Len(cols.volt) : cols.volt[k] \in volt
  BY <1>7, <1>8, <1>9 DEF KeptFrom
<1>12. \A k \in 1..Len(cols.volt) : /\ layout[cols.volt[k]].of \in Phases
                                   /\ layout[cols.volt[k]].header.phase = layout[cols.volt[k]].of
  <2>1. \A k \in 1..Len(cols.volt) : cols.volt[k] \in 1..n /\ layout[cols.volt[k]].of \in Phases
    BY <1>6, <1>8, <1>11
  <2> QED
    BY <2>1 DEF ClearLayout, n
<1>13. ASSUME NEW j \in 1..Len(cols.volt), NEW k \in 1..Len(cols.volt), j < k
       PROVE  layout[cols.volt[j]].of # layout[cols.volt[k]].of
  <2>1. PICK a \in volt, b \in volt : a < b /\ cols.volt[j] = numbers[a] /\ cols.volt[k] = numbers[b]
    BY <1>9, <1>13 DEF KeptFrom
  <2>2. cols.volt[j] = a /\ cols.volt[k] = b /\ a \in 1..n /\ b \in 1..n
    BY <1>7, <1>8, <2>1
  <2>3. a # b /\ layout[a].of \in Phases
    BY <1>1, <1>6, <2>1, <2>2
  <2> QED
    BY <2>2, <2>3 DEF ClearLayout, n
<1>14. ASSUME NEW c \in 1..n, layout[c].of \in Phases
       PROVE  \E k \in 1..Len(cols.volt) : cols.volt[k] = c
  <2>1. c \in volt /\ numbers[c] = c
    BY <1>6, <1>7, <1>14
  <2>2. \E k \in 1..Len(cols.volt) : cols.volt[k] = numbers[c]
    BY <1>9, <2>1 DEF KeptFrom
  <2> QED
    BY <2>1, <2>2
<1> QED
  BY <1>4, <1>5, <1>9, <1>10, <1>12, <1>13, <1>14 DEF ColumnsFound, n

\* What a layout shows, by the columns found in it.
LEMMA ShownCells ==
    ASSUME NEW table \in Table, NEW layout, NEW cols, ColumnsFound(cols, layout),
           NEW shown, shown = Shown(table, layout)
    PROVE  /\ shown \in Table
           /\ \A t \in Times :
                /\ shown[t].freq = IF cols.ts # 0 /\ cols.freq # 0 THEN table[t].freq ELSE NoValue
                /\ \A k \in 1..Len(cols.volt) : cols.ts # 0 =>
                     shown[t].volt[layout[cols.volt[k]].of] = table[t].volt[layout[cols.volt[k]].of]
                /\ \A q \in Phases : shown[t].volt[q] # NoValue =>
                     cols.ts # 0 /\ \E k \in 1..Len(cols.volt) : layout[cols.volt[k]].of = q
<1> DEFINE columns == IF "time" \in Columns(layout) THEN Columns(layout) ELSE {}
<1>1. \A q : q \in columns <=> cols.ts # 0 /\ \E c \in 1..Len(layout) : layout[c].of = q
  BY DEF ColumnsFound, Columns
<1>2. "freq" \in columns <=> cols.ts # 0 /\ cols.freq # 0
  BY <1>1 DEF ColumnsFound
<1>3. \A k \in 1..Len(cols.volt) : cols.ts # 0 => layout[cols.volt[k]].of \in columns
  <2>1. \A k \in 1..Len(cols.volt) : cols.volt[k] \in 1..Len(layout)
    BY ElementOfSeq DEF ColumnsFound
  <2> QED
    BY <1>1, <2>1
<1>4. \A q \in Phases : q \in columns =>
        cols.ts # 0 /\ \E k \in 1..Len(cols.volt) : layout[cols.volt[k]].of = q
  <2> TAKE q \in Phases
  <2> HAVE q \in columns
  <2>1. PICK c \in 1..Len(layout) : layout[c].of = q
    BY <1>1
  <2>2. PICK k \in 1..Len(cols.volt) : cols.volt[k] = c
    BY <2>1 DEF ColumnsFound
  <2> QED
    BY <1>1, <2>1, <2>2
<1>5. NoValue \in Cell
  BY DEF Cell
<1>6. shown = [t \in Times |->
                 [freq |-> IF "freq" \in columns THEN table[t].freq ELSE NoValue,
                  volt |-> [p \in Phases |-> IF p \in columns THEN table[t].volt[p] ELSE NoValue]]]
  BY DEF Shown
<1> HIDE DEF columns
<1>7. ASSUME NEW t \in Times
      PROVE  /\ shown[t] \in [freq : Cell, volt : [Phases -> Cell]]
             /\ shown[t].freq = IF "freq" \in columns THEN table[t].freq ELSE NoValue
             /\ \A q \in Phases : shown[t].volt[q] = IF q \in columns THEN table[t].volt[q] ELSE NoValue
  <2>1. table[t].freq \in Cell /\ \A p \in Phases : table[t].volt[p] \in Cell
    BY TableCells
  <2>2. shown[t] = [freq |-> IF "freq" \in columns THEN table[t].freq ELSE NoValue,
                    volt |-> [p \in Phases |-> IF p \in columns THEN table[t].volt[p] ELSE NoValue]]
    BY <1>6
  <2> QED
    BY <1>5, <2>1, <2>2
<1>8. shown \in Table
  BY <1>6, <1>7 DEF Table
<1>9. \A k \in 1..Len(cols.volt) : layout[cols.volt[k]].of \in Phases
  BY DEF ColumnsFound
<1> QED
  BY <1>2, <1>3, <1>4, <1>7, <1>8, <1>9

\* The rows of a record are those of its time, of what the layout shows.
LEMMA RecordIsFor ==
    ASSUME NEW table \in Table, NEW layout, NEW cols, ColumnsFound(cols, layout), Usable(cols),
           NEW shown, shown = Shown(table, layout), NEW t \in Times, NEW rec,
           \A c \in 1..Len(layout) : rec[c] = cell(table, t, layout[c].of)
    PROVE  RowsFor(record_rows(rec, Headers(layout), cols), shown, {t})
<1> DEFINE n == Len(cols.volt)
           headers == Headers(layout)
           each == [i \in 1..n |-> voltage_row(rec, headers, cols, i)]
           f == frequency_of(rec, cols)
           alone == [ts |-> rec[cols.ts], phase |-> "1p", voltage |-> NoValue, frequency |-> f]
           q(i) == layout[cols.volt[i]].of
<1>1. cols.ts \in 1..Len(layout) /\ layout[cols.ts].of = "time" /\ cols.ts # 0
  BY DEF ColumnsFound, Usable
<1>2. rec[cols.ts] = t
  BY <1>1 DEF cell
<1>3. "time" \notin Phases /\ "freq" \notin Phases
  BY TablesAssumption
<1>4. NoValue \notin VoltBand /\ NoValue \notin FreqBand /\ VoltBand \subseteq Cell
      /\ FreqBand \subseteq Cell /\ NoValue \in Cell
  BY TablesAssumption DEF Cell
<1>5. /\ shown \in Table
      /\ shown[t].freq = IF cols.freq # 0 THEN table[t].freq ELSE NoValue
      /\ \A k \in 1..n : shown[t].volt[q(k)] = table[t].volt[q(k)]
      /\ \A p \in Phases : shown[t].volt[p] # NoValue => \E k \in 1..n : q(k) = p
  <2>1. /\ shown \in Table
        /\ \A u \in Times :
             /\ shown[u].freq = IF cols.ts # 0 /\ cols.freq # 0 THEN table[u].freq ELSE NoValue
             /\ \A k \in 1..Len(cols.volt) : cols.ts # 0 =>
                  shown[u].volt[layout[cols.volt[k]].of] = table[u].volt[layout[cols.volt[k]].of]
             /\ \A p \in Phases : shown[u].volt[p] # NoValue =>
                  cols.ts # 0 /\ \E k \in 1..Len(cols.volt) : layout[cols.volt[k]].of = p
    BY ShownCells
  <2> QED
    BY <1>1, <2>1
<1>6. f = InBand(shown[t].freq, FreqBand)
  <2>1. CASE cols.freq = 0
    BY <1>4, <1>5, <2>1 DEF frequency_of, InBand
  <2>2. CASE cols.freq # 0
    <3>1. cols.freq \in 1..Len(layout) /\ layout[cols.freq].of = "freq"
      BY <2>2 DEF ColumnsFound
    <3>2. rec[cols.freq] = table[t].freq
      BY <3>1 DEF cell
    <3> QED
      BY <1>5, <2>2, <3>2 DEF frequency_of
  <2> QED
    BY <2>1, <2>2
<1>7. \A i \in 1..n : cols.volt[i] \in 1..Len(layout)
  BY ElementOfSeq DEF ColumnsFound
<1>8. \A i \in 1..n : q(i) \in Phases /\ layout[cols.volt[i]].header.phase = q(i)
  BY DEF ColumnsFound
<1>9. \A i, j \in 1..n : i < j => q(i) # q(j)
  BY DEF ColumnsFound
<1>10. n \in Nat /\ (cols.volt = <<>> <=> n = 0)
  <2>1. cols.volt \in Seq(1..Len(layout)) /\ n \in Nat
    BY DEF ColumnsFound
  <2> QED
    BY <2>1, EmptySeq
<1>11. f \in Cell /\ (f # NoValue => f \in FreqBand /\ f = shown[t].freq)
  BY <1>4, <1>6 DEF InBand
<1>12. shown[t].freq \in FreqBand => f = shown[t].freq
  BY <1>6 DEF InBand
<1> HIDE DEF f, q
<1>13. CASE cols.volt # <<>>
  <2>1. ASSUME NEW i \in 1..n
        PROVE  /\ each[i] \in ParsedRow /\ each[i].ts = t /\ each[i].phase = q(i)
               /\ each[i].voltage = InBand(table[t].volt[q(i)], VoltBand)
               /\ each[i].frequency = IF i = 1 THEN f ELSE NoValue
    <3>1. rec[cols.volt[i]] = cell(table, t, q(i))
      BY <1>7 DEF q
    <3>2. rec[cols.volt[i]] = table[t].volt[q(i)]
      BY <1>3, <1>8, <3>1 DEF cell
    <3>3. headers[cols.volt[i]].phase = q(i)
      BY <1>7, <1>8 DEF Headers
    <3>4. each[i] = [ts |-> rec[cols.ts], phase |-> headers[cols.volt[i]].phase,
                     voltage |-> InBand(rec[cols.volt[i]], VoltBand),
                     frequency |-> IF i = 1 THEN f ELSE NoValue]
      BY DEF voltage_row, f
    <3> HIDE DEF each, headers
    <3>5. each[i] = [ts |-> t, phase |-> q(i), voltage |-> InBand(table[t].volt[q(i)], VoltBand),
                     frequency |-> IF i = 1 THEN f ELSE NoValue]
      BY <1>2, <3>2, <3>3, <3>4
    <3>6. InBand(table[t].volt[q(i)], VoltBand) \in Cell
      BY <1>4 DEF InBand
    <3> QED
      BY <1>4, <1>8, <1>11, <3>5, <3>6 DEF ParsedRow
  <2>2. each = [i \in 1..n |-> each[i]]
    OBVIOUS
  <2>3. record_rows(rec, headers, cols) = Telling(each)
    BY <1>2, <1>13 DEF record_rows
  <2> HIDE DEF each
  <2>4. each \in Seq(ParsedRow) /\ Len(each) = n
    <3> HIDE DEF n
    <3>1. \A i \in 1..n : each[i] \in ParsedRow
      BY <2>1
    <3> QED
      BY <1>10, <2>2, <3>1, FunctionIsSeq
  <2> HIDE DEF n
  <2>5. KeysDiffer(each)
    BY <1>9, <2>1, <2>4 DEF KeysDiffer
  <2>6. RowsAgree(each, shown)
    <3>1. ASSUME NEW k \in 1..n
          PROVE  /\ each[k].voltage # NoValue =>
                      /\ each[k].phase \in Phases /\ each[k].voltage \in VoltBand
                      /\ each[k].voltage = shown[each[k].ts].volt[each[k].phase]
                 /\ each[k].frequency # NoValue =>
                      each[k].frequency \in FreqBand /\ each[k].frequency = shown[each[k].ts].freq
      BY <1>5, <1>8, <1>11, <2>1 DEF InBand
    <3> QED
      BY <2>4, <3>1 DEF RowsAgree
  <2>7. RowsSuffice(each, shown, {t})
    <3>1. ASSUME NEW p \in Phases, shown[t].volt[p] \in VoltBand
          PROVE  \E k \in 1..n : each[k].ts = t /\ each[k].phase = p /\ each[k].voltage = shown[t].volt[p]
      <4>1. PICK k \in 1..n : q(k) = p
        BY <1>4, <1>5, <3>1
      <4> QED
        BY <1>5, <2>1, <3>1, <4>1 DEF InBand
    <3>2. ASSUME shown[t].freq \in FreqBand
          PROVE  \E k \in 1..n : each[k].ts = t /\ each[k].frequency = shown[t].freq
      <4>1. 1 \in 1..n
        BY <1>10, <1>13
      <4> QED
        BY <1>12, <2>1, <3>2, <4>1
    <3> QED
      BY <2>4, <3>1, <3>2 DEF RowsSuffice
  <2>8. FrequencyOnce(each)
    <3>1. \A k \in 1..n : each[k].frequency # NoValue => k = 1
      BY <2>1
    <3> QED
      BY <1>10, <2>4, <3>1 DEF FrequencyOnce
  <2>9. RowsFor(each, shown, {t})
    BY <2>1, <2>4, <2>5, <2>6, <2>7, <2>8 DEF RowsFor
  <2>10. RowsFor(Telling(each), shown, {t})
    BY <1>5, <2>9, TellingIsFor
  <2> QED
    BY <2>3, <2>10
<1>14. CASE cols.volt = <<>>
  <2> DEFINE rows == <<alone>>
  <2>1. record_rows(rec, headers, cols) = Telling(rows)
    BY <1>2, <1>14 DEF record_rows, f
  <2>2. /\ alone \in ParsedRow /\ alone.ts = t /\ alone.voltage = NoValue
        /\ alone.frequency = f
    BY <1>2, <1>4, <1>11 DEF ParsedRow
  <2> HIDE DEF alone
  <2>3. rows \in Seq(ParsedRow) /\ Len(rows) = 1 /\ rows[1] = alone
    BY <2>2
  <2>4. \A k \in 1..Len(rows) : k = 1
    BY <2>3
  <2>5. 1 \in 1..Len(rows)
    BY <2>3
  <2> HIDE DEF rows
  <2>6. KeysDiffer(rows) /\ FrequencyOnce(rows)
    BY <2>4 DEF KeysDiffer, FrequencyOnce
  <2>7. RowsAgree(rows, shown)
    BY <1>11, <2>2, <2>3, <2>4 DEF RowsAgree
  <2>8. RowsSuffice(rows, shown, {t})
    <3>1. \A p \in Phases : shown[t].volt[p] = NoValue
      BY <1>5, <1>10, <1>14
    <3> QED
      BY <1>4, <1>12, <2>2, <2>3, <2>5, <3>1 DEF RowsSuffice
  <2>9. RowsFor(rows, shown, {t})
    BY <2>2, <2>3, <2>4, <2>6, <2>7, <2>8 DEF RowsFor
  <2>10. RowsFor(Telling(rows), shown, {t})
    BY <1>5, <2>9, TellingIsFor
  <2> QED
    BY <2>1, <2>10
<1> QED
  BY <1>13, <1>14

\* The rows of the records together: those of a time are never of another, and
\* the record without a time adds none.
LEMMA RecordsTogether ==
    ASSUME NEW shown \in Table, NEW n \in Nat, n = Len(TimeList), NEW seqs,
           seqs = [i \in 1..(n + 1) |-> seqs[i]], seqs[n + 1] = <<>>,
           \A i \in 1..n : RowsFor(seqs[i], shown, {TimeList[i]})
    PROVE  RowsFor(FlattenSeq(seqs), shown, Times)
<1> DEFINE flat == FlattenSeq(seqs)
<1>1. \A i \in 1..n : TimeList[i] \in Times
  BY TimesListed
<1>2. \A i, j \in 1..n : TimeList[i] = TimeList[j] => i = j
  BY TimesListed
<1>3. \A t \in Times : \E i \in 1..n : TimeList[i] = t
  BY TimesListed
<1>4. \A i \in 1..(n + 1) : i \in 1..n \/ i = n + 1
  OBVIOUS
<1>5. /\ \A i \in 1..(n + 1) : seqs[i] \in Seq(ParsedRow)
      /\ Len(seqs[n + 1]) = 0 /\ 1..n \subseteq 1..(n + 1)
  <2>1. \A i \in 1..n : seqs[i] \in Seq(ParsedRow)
    BY DEF RowsFor
  <2>2. <<>> \in Seq(ParsedRow) /\ Len(<<>>) = 0
    OBVIOUS
  <2>3. seqs[n + 1] = <<>>
    OBVIOUS
  <2>4. Len(seqs[n + 1]) = 0 /\ seqs[n + 1] \in Seq(ParsedRow)
    BY ONLY <2>2, <2>3
  <2>5. \A i \in 1..(n + 1) : seqs[i] \in Seq(ParsedRow)
    BY ONLY <1>4, <2>1, <2>4
  <2>6. 1..n \subseteq 1..(n + 1)
    BY ONLY n \in Nat
  <2> QED
    BY ONLY <2>4, <2>5, <2>6
<1>6. seqs \in Seq(Seq(ParsedRow)) /\ Len(seqs) = n + 1
  <2>1. n + 1 \in Nat
    OBVIOUS
  <2> QED
    BY <1>5, <2>1, FunctionIsSeq
<1>7. flat \in Seq(ParsedRow) /\ JoinedOf(flat, seqs, n + 1)
  BY <1>6, FlattenJoins
<1> HIDE DEF flat
<1>8. ASSUME NEW i \in 1..(n + 1), NEW a \in 1..Len(seqs[i]) PROVE i \in 1..n
  BY <1>4, <1>5
<1>9. ASSUME NEW k \in 1..Len(flat)
      PROVE  \E i \in 1..n : \E a \in 1..Len(seqs[i]) :
               flat[k] = seqs[i][a] /\ flat[k].ts = TimeList[i]
  <2>1. PICK i \in 1..(n + 1) : \E a \in 1..Len(seqs[i]) : flat[k] = seqs[i][a]
    BY <1>7 DEF JoinedOf
  <2>2. PICK a \in 1..Len(seqs[i]) : flat[k] = seqs[i][a]
    BY <2>1
  <2>3. i \in 1..n
    BY <1>8
  <2>4. seqs[i][a].ts = TimeList[i]
    BY <2>3 DEF RowsFor
  <2> QED
    BY <2>2, <2>3, <2>4
<1>10. \A k \in 1..Len(flat) : flat[k].ts \in Times
  BY <1>1, <1>9
\* Two rows of one time come from one record.
<1>11. ASSUME NEW k \in 1..Len(flat), NEW l \in 1..Len(flat), k < l, flat[k].ts = flat[l].ts
       PROVE  \E i \in 1..n : \E a, b \in 1..Len(seqs[i]) :
                a < b /\ flat[k] = seqs[i][a] /\ flat[l] = seqs[i][b]
  <2>1. PICK i \in 1..(n + 1), j \in 1..(n + 1) :
          \E a \in 1..Len(seqs[i]), b \in 1..Len(seqs[j]) :
            /\ flat[k] = seqs[i][a] /\ flat[l] = seqs[j][b]
            /\ i < j \/ (i = j /\ a < b)
    BY <1>7, <1>11 DEF JoinedOf
  <2>2. PICK a \in 1..Len(seqs[i]), b \in 1..Len(seqs[j]) :
            /\ flat[k] = seqs[i][a] /\ flat[l] = seqs[j][b]
            /\ i < j \/ (i = j /\ a < b)
    BY <2>1
  <2>3. i \in 1..n /\ j \in 1..n
    BY <1>8
  <2>4. flat[k].ts = TimeList[i] /\ flat[l].ts = TimeList[j]
    BY <2>2, <2>3 DEF RowsFor
  <2>5. i = j
    BY <1>2, <1>11, <2>3, <2>4
  <2>6. a < b /\ b \in 1..Len(seqs[i]) /\ flat[l] = seqs[i][b]
    BY <2>2, <2>3, <2>5
  <2> QED
    BY ONLY <2>2, <2>3, <2>6
<1>12. KeysDiffer(flat)
  <2>1. ASSUME NEW k \in 1..Len(flat), NEW l \in 1..Len(flat), k < l,
               flat[k].ts = flat[l].ts, flat[k].phase = flat[l].phase
        PROVE  FALSE
    <3>1. PICK i \in 1..n : \E a, b \in 1..Len(seqs[i]) :
            a < b /\ flat[k] = seqs[i][a] /\ flat[l] = seqs[i][b]
      BY <1>11, <2>1
    <3>2. KeysDiffer(seqs[i])
      BY DEF RowsFor
    <3> QED
      BY ONLY <2>1, <3>1, <3>2 DEF KeysDiffer
  <2> QED
    BY ONLY <2>1 DEF KeysDiffer
<1>13. RowsAgree(flat, shown)
  <2>1. ASSUME NEW k \in 1..Len(flat)
        PROVE  /\ flat[k].voltage # NoValue =>
                    /\ flat[k].phase \in Phases /\ flat[k].voltage \in VoltBand
                    /\ flat[k].voltage = shown[flat[k].ts].volt[flat[k].phase]
               /\ flat[k].frequency # NoValue =>
                    flat[k].frequency \in FreqBand /\ flat[k].frequency = shown[flat[k].ts].freq
    <3>1. PICK i \in 1..n : \E a \in 1..Len(seqs[i]) : flat[k] = seqs[i][a]
      BY <1>9
    <3>2. RowsAgree(seqs[i], shown)
      BY DEF RowsFor
    <3> QED
      BY ONLY <3>1, <3>2 DEF RowsAgree
  <2> QED
    BY ONLY <2>1 DEF RowsAgree
<1>14. ASSUME NEW i \in 1..n, NEW a \in 1..Len(seqs[i])
       PROVE  \E k \in 1..Len(flat) : flat[k] = seqs[i][a]
  BY <1>5, <1>7 DEF JoinedOf
<1>15. RowsSuffice(flat, shown, Times)
  <2>1. ASSUME NEW t \in Times, NEW p \in Phases, shown[t].volt[p] \in VoltBand
        PROVE  \E k \in 1..Len(flat) :
                 flat[k].ts = t /\ flat[k].phase = p /\ flat[k].voltage = shown[t].volt[p]
    <3>1. PICK i \in 1..n : TimeList[i] = t
      BY <1>3
    <3>2. RowsSuffice(seqs[i], shown, {t})
      BY <3>1 DEF RowsFor
    <3>3. PICK a \in 1..Len(seqs[i]) :
            seqs[i][a].ts = t /\ seqs[i][a].phase = p /\ seqs[i][a].voltage = shown[t].volt[p]
      BY <2>1, <3>2 DEF RowsSuffice
    <3>4. PICK k \in 1..Len(flat) : flat[k] = seqs[i][a]
      BY <1>14
    <3> QED
      BY ONLY <3>3, <3>4
  <2>2. ASSUME NEW t \in Times, shown[t].freq \in FreqBand
        PROVE  \E k \in 1..Len(flat) : flat[k].ts = t /\ flat[k].frequency = shown[t].freq
    <3>1. PICK i \in 1..n : TimeList[i] = t
      BY <1>3
    <3>2. RowsSuffice(seqs[i], shown, {t})
      BY <3>1 DEF RowsFor
    <3>3. PICK a \in 1..Len(seqs[i]) : seqs[i][a].ts = t /\ seqs[i][a].frequency = shown[t].freq
      BY <2>2, <3>2 DEF RowsSuffice
    <3>4. PICK k \in 1..Len(flat) : flat[k] = seqs[i][a]
      BY <1>14
    <3> QED
      BY ONLY <3>3, <3>4
  <2> QED
    BY <2>1, <2>2 DEF RowsSuffice
<1>16. FrequencyOnce(flat)
  <2>1. ASSUME NEW k \in 1..Len(flat), NEW l \in 1..Len(flat), k < l, flat[k].ts = flat[l].ts
        PROVE  flat[k].frequency = NoValue \/ flat[l].frequency = NoValue
    <3>1. PICK i \in 1..n : \E a, b \in 1..Len(seqs[i]) :
            a < b /\ flat[k] = seqs[i][a] /\ flat[l] = seqs[i][b]
      BY <1>11, <2>1
    <3>2. FrequencyOnce(seqs[i])
      BY DEF RowsFor
    <3> QED
      BY ONLY <2>1, <3>1, <3>2 DEF FrequencyOnce
  <2> QED
    BY ONLY <2>1 DEF FrequencyOnce
<1>17. RowsFor(flat, shown, Times)
  BY <1>7, <1>10, <1>12, <1>13, <1>15, <1>16 DEF RowsFor
<1> QED
  BY <1>17 DEF flat

\* A wide file is read in full: of any table and for any layout every value in
\* its band that the layout shows is staged once, and nothing else is.
THEOREM WideFiles == WideIsReadInFull
<1> SUFFICES ASSUME NEW table \in Table, NEW layout \in Layouts
             PROVE  /\ Staged(rows_from_records(Wide(table, layout), Headers(layout)))
                         = Readings(Shown(table, layout))
                    /\ FrequencyOnce(rows_from_records(Wide(table, layout), Headers(layout)))
  BY DEF WideIsReadInFull
<1> DEFINE n == Len(TimeList)
           records == Wide(table, layout)
           headers == Headers(layout)
           cols == classify_columns(headers)
           shown == Shown(table, layout)
           seqs == [i \in 1..Len(records) |-> record_rows(records[i], headers, cols)]
           rows == rows_from_records(records, headers)
<1>1. ColumnsFound(cols, layout)
  BY LayoutIsClear, ColumnsAreFound
<1>2. /\ shown \in Table
      /\ \A t \in Times :
           /\ shown[t].freq = IF cols.ts # 0 /\ cols.freq # 0 THEN table[t].freq ELSE NoValue
           /\ \A q \in Phases : shown[t].volt[q] # NoValue =>
                cols.ts # 0 /\ \E k \in 1..Len(cols.volt) : layout[cols.volt[k]].of = q
  <2> HIDE DEF cols
  <2> QED
    BY <1>1, ShownCells
<1>3. n \in Nat /\ \A i \in 1..n : TimeList[i] \in Times
  BY TimesListed
<1>4. /\ Len(records) = n + 1
      /\ \A i \in 1..n : \A c \in 1..Len(layout) :
           records[i][c] = cell(table, TimeList[i], layout[c].of)
      /\ \A c \in 1..Len(layout) : layout[c].of = "time" => records[n + 1][c] = NoValue
  BY <1>3 DEF Wide
<1>5. NoValue \notin Times /\ NoValue \notin VoltBand /\ NoValue \notin FreqBand
  BY TablesAssumption
<1>6. rows = IF ~Usable(cols) THEN <<>> ELSE FlattenSeq(seqs)
  BY DEF rows_from_records
<1> HIDE DEF cols, shown, records, rows
<1>7. RowsFor(rows, shown, Times)
  <2>1. CASE Usable(cols)
    <3>1. seqs = [i \in 1..(n + 1) |-> seqs[i]]
      BY <1>4
    <3>2. \A i \in 1..n : RowsFor(seqs[i], shown, {TimeList[i]})
      <4>1. \A i \in 1..n : seqs[i] = record_rows(records[i], headers, cols)
        BY <1>3, <1>4
      <4>2. \A i \in 1..n : RowsFor(record_rows(records[i], headers, cols), shown, {TimeList[i]})
        BY <1>1, <1>3, <1>4, <2>1, RecordIsFor DEF shown
      <4> QED
        BY <4>1, <4>2
    <3>3. seqs[n + 1] = <<>>
      <4>1. seqs[n + 1] = record_rows(records[n + 1], headers, cols)
        BY <1>3, <1>4
      <4>2. cols.ts \in 1..Len(layout) /\ layout[cols.ts].of = "time"
        BY <1>1, <2>1 DEF ColumnsFound, Usable
      <4>3. records[n + 1][cols.ts] \notin Times
        BY <1>4, <1>5, <4>2
      <4> QED
        BY <4>1, <4>3 DEF record_rows
    <3> HIDE DEF seqs
    <3>4. RowsFor(FlattenSeq(seqs), shown, Times)
      BY <1>2, <1>3, <3>1, <3>2, <3>3, RecordsTogether
    <3> QED
      BY <1>6, <2>1, <3>4
  <2>2. CASE ~Usable(cols)
    <3>1. rows = <<>> /\ Len(rows) = 0 /\ rows \in Seq(ParsedRow)
      BY <1>6, <2>2
    <3>2. cols.ts = 0 \/ (cols.volt = <<>> /\ Len(cols.volt) = 0 /\ cols.freq = 0)
      BY <2>2 DEF Usable
    <3>3. \A t \in Times : shown[t].freq = NoValue /\ \A q \in Phases : shown[t].volt[q] = NoValue
      BY <1>2, <3>2
    <3>4. KeysDiffer(rows) /\ FrequencyOnce(rows) /\ RowsAgree(rows, shown)
      BY <3>1 DEF KeysDiffer, FrequencyOnce, RowsAgree
    <3>5. RowsSuffice(rows, shown, Times)
      BY <1>5, <3>3 DEF RowsSuffice
    <3> QED
      BY <3>1, <3>4, <3>5 DEF RowsFor
  <2> QED
    BY <2>1, <2>2
<1>8. Staged(rows) = Readings(shown) /\ FrequencyOnce(rows)
  BY <1>2, <1>7, AgreeingIsStaged DEF RowsFor
<1> QED
  BY <1>8 DEF rows, shown, records
================================================================================
