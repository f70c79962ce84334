-------------------------------- MODULE Parsers --------------------------------
(***************************************************************************)
(* What the survey worker reads out of a file (survey_ingest/parsers.py).  *)
(* Of a column's name only matters which of the token lists it matches, of *)
(* a cell only the number in it, or None where there is none.  A file      *)
(* comes in one of two shapes: wide, with a column per quantity, or the    *)
(* long one that pqdif2csv writes, with a line per value.                  *)
(***************************************************************************)
EXTENDS Integers, Sequences, SequencesExt, Lines

CONSTANTS
    PhaseList,   \* labels of phases, "1p" for none among them
    TimeList,    \* time stamps
    Values,      \* the numbers in the cells
    FreqBand,    \* FREQ_MIN .. FREQ_MAX
    VoltBand,    \* VOLT_MIN .. VOLT_MAX
    Layouts,     \* wide files: sequences of columns, each a quantity and a header:
                 \* the token lists its name matches, and its phase
    NoValue      \* an empty or unreadable cell

Phases == ToSet(PhaseList)
Times == ToSet(TimeList)

Cell == Values \cup {NoValue}

ASSUME TablesAssumption ==
    /\ TimeList \in Seq(Times) /\ PhaseList \in Seq(Phases)
    /\ \A i, j \in DOMAIN TimeList : TimeList[i] = TimeList[j] => i = j
    /\ VoltBand \cup FreqBand \subseteq Values /\ NoValue \notin Values \cup Times
    /\ Phases \cap {"time", "freq"} = {}

InBand(value, band) == IF value \in band THEN value ELSE NoValue

\* next(h for h in headers if ...), 0 for None.
FirstColumn(found) ==
    IF found = {} THEN 0 ELSE CHOOSE i \in found : \A j \in found : i <= j

\* _classify_columns: a column that matches a frequency token is no voltage.
classify_columns(headers) ==
    LET ts_col == FirstColumn({i \in 1..Len(headers) : headers[i].ts})
    IN  [ts |-> ts_col,
         freq |-> FirstColumn({i \in 1..Len(headers) : headers[i].freq}),
         volt |-> Kept([i \in 1..Len(headers) |-> i],
                       {i \in 1..Len(headers) : /\ headers[i].volt /\ ~headers[i].freq
                                                /\ i # ts_col})]

\* ParsedRow, and when there is anything in it.
ParsedRow == [ts : Times, phase : Phases \cup {"1p"}, voltage : Cell, frequency : Cell]
Tells(row) == row.voltage # NoValue \/ row.frequency # NoValue
Telling(rows) == Kept(rows, {i \in 1..Len(rows) : Tells(rows[i])})

\* What a record says of the frequency of the node.
frequency_of(rec, cols) == IF cols.freq = 0 THEN NoValue ELSE InBand(rec[cols.freq], FreqBand)

\* Mutant: the frequency goes with each phase that has a voltage.
voltage_row_each(rec, headers, cols, i) ==
    [ts |-> rec[cols.ts], phase |-> headers[cols.volt[i]].phase,
     voltage |-> InBand(rec[cols.volt[i]], VoltBand), frequency |-> frequency_of(rec, cols)]

\* The row of a voltage column; the frequency goes with the first of them.
voltage_row(rec, headers, cols, i) ==
    [ts |-> rec[cols.ts], phase |-> headers[cols.volt[i]].phase,
     voltage |-> InBand(rec[cols.volt[i]], VoltBand),
     frequency |-> IF i = 1 THEN frequency_of(rec, cols) ELSE NoValue]

\* One record of _rows_from_records: where there is no voltage column the
\* frequency is a row by itself.
record_rows(rec, headers, cols) ==
    IF rec[cols.ts] \notin Times THEN <<>>
    ELSE Telling(IF cols.volt # <<>>
                 THEN [i \in 1..Len(cols.volt) |-> voltage_row(rec, headers, cols, i)]
                 ELSE <<[ts |-> rec[cols.ts], phase |-> "1p", voltage |-> NoValue,
                         frequency |-> frequency_of(rec, cols)]>>)

Usable(cols) == cols.ts # 0 /\ (cols.volt # <<>> \/ cols.freq # 0)

\* _rows_from_records.
rows_from_records(records, headers) ==
    LET cols == classify_columns(headers) IN
    IF ~Usable(cols) THEN <<>>
    ELSE FlattenSeq([i \in 1..Len(records) |-> record_rows(records[i], headers, cols)])

\* Mutant: one row for all phases.
group_of_time(l) == <<l.ts>>

\* The key of a group of lines, or of the dedupe window.
group(l) == <<l.ts, l.phase>>

\* The last value in band that the lines have for a channel of l's group.
last_value(lines, l, channel, band) ==
    LET hits == {i \in 1..Len(lines) : /\ group(lines[i]) = group(l)
                                       /\ lines[i].channel = channel /\ lines[i].value \in band}
    IN  IF hits = {} THEN NoValue
        ELSE lines[CHOOSE i \in hits : \A j \in hits : j <= i].value

\* The row of a group.
grouped(lines, l) ==
    [ts |-> l.ts, phase |-> l.phase,
     voltage |-> last_value(lines, l, "volt", VoltBand),
     frequency |-> last_value(lines, l, "freq", FreqBand)]

\* _rows_from_long: the lines of one time and phase come to one row, at the
\* place of the first of them.
rows_from_long(lines) ==
    LET read == Kept(lines, {i \in 1..Len(lines) : /\ lines[i].ts \in Times
                                                   /\ lines[i].value # NoValue})
        firsts == Kept(read, {i \in 1..Len(read) :
                                \A j \in 1..(i - 1) : group(read[j]) # group(read[i])})
    IN  Telling([i \in 1..Len(firsts) |-> grouped(read, firsts[i])])

--------------------------------------------------------------------------------
(* Both shapes against one reference: the readings of a table, which has a *)
(* value or none for the frequency and for the voltage of each phase.      *)

Table == [Times -> [freq : Cell, volt : [Phases -> Cell]]]

\* What of a table may leave the electrician: what is in its band.
Readings(table) ==
    [volt |-> {<<t, p, table[t].volt[p]>> : t \in Times, p \in Phases}
                \cap (Times \X Phases \X VoltBand),
     freq |-> {<<t, table[t].freq>> : t \in Times} \cap (Times \X FreqBand)]

\* What write_electrical stages of the rows of a survey: of each time and
\* phase the first.
Staged(rows) ==
    LET new == {i \in 1..Len(rows) :
                  \A j \in 1..(i - 1) : <<rows[j].ts, rows[j].phase>> # <<rows[i].ts, rows[i].phase>>}
        volt == {i \in new : rows[i].voltage # NoValue}
        freq == {i \in new : rows[i].frequency # NoValue}
    IN  [volt |-> {<<rows[i].ts, rows[i].phase, rows[i].voltage>> : i \in volt},
         freq |-> {<<rows[i].ts, rows[i].frequency>> : i \in freq}]

\* "So it isn't duplicated per phase": of the rows of a time one at most has
\* the frequency.
FrequencyOnce(rows) ==
    \A j, k \in 1..Len(rows) : j < k /\ rows[j].ts = rows[k].ts =>
      rows[j].frequency = NoValue \/ rows[k].frequency = NoValue

Anything == CHOOSE v \in VoltBand : TRUE

\* What a column of a wide file shows of the table at a time.
cell(table, t, of) == IF of = "time" THEN t
                      ELSE IF of = "freq" THEN table[t].freq
                      ELSE IF of \in Phases THEN table[t].volt[of]
                      ELSE Anything

\* The table as a wide file, and one more line whose time cannot be read.
Wide(table, layout) ==
    [i \in 1..(Len(TimeList) + 1) |->
       [c \in 1..Len(layout) |->
          IF i <= Len(TimeList) THEN cell(table, TimeList[i], layout[c].of)
          ELSE IF layout[c].of = "time" THEN NoValue ELSE Anything]]

Headers(layout) == [c \in 1..Len(layout) |-> layout[c].header]

\* The quantities a layout has columns for.
Columns(layout) == {layout[c].of : c \in 1..Len(layout)}

\* The first column that looks like the time is the time, the first that looks
\* like a frequency the frequency; what looks like a voltage beside these is
\* the voltage of its phase.  No quantity comes twice.
ASSUME LayoutsAreClear ==
    \A layout \in Layouts :
        /\ layout \in Seq([of : Columns(layout),
                           header : [ts : BOOLEAN, freq : BOOLEAN, volt : BOOLEAN,
                                     phase : Phases \cup {"1p"}]])
        /\ \A c, d \in 1..Len(layout) :
             layout[c].of = layout[d].of /\ layout[c].of \in {"time", "freq"} \cup Phases => c = d
        /\ \A c \in 1..Len(layout) :
             LET of == layout[c].of  header == layout[c].header IN
             /\ of = "time" => header.ts /\ \A d \in 1..(c - 1) : ~layout[d].header.ts
             /\ header.ts => "time" \in Columns(layout)
             /\ of = "freq" => header.freq /\ \A d \in 1..(c - 1) : ~layout[d].header.freq
             /\ header.freq => "freq" \in Columns(layout)
             /\ of \in Phases => header.volt /\ ~header.freq /\ header.phase = of
             /\ header.volt /\ ~header.freq => of \in Phases \cup {"time"}

\* What a layout shows of the table: nothing without a time.
Shown(table, layout) ==
    LET columns == IF "time" \in Columns(layout) THEN Columns(layout) ELSE {} IN
    [t \in Times |->
       [freq |-> IF "freq" \in columns THEN table[t].freq ELSE NoValue,
        volt |-> [p \in Phases |-> IF p \in columns THEN table[t].volt[p] ELSE NoValue]]]

\* The lines of one channel, in the order of their times.
series(phase, channel, values) ==
    [i \in 1..Len(TimeList) |-> [ts |-> TimeList[i], phase |-> phase, channel |-> channel,
                                 value |-> values[TimeList[i]]]]

\* The table in the long format, channel by channel as pqdif2csv goes through
\* them; the frequency comes with the phase the device gives it.
Long(table, freq_phase) ==
    FlattenSeq([i \in 1..Len(PhaseList) |->
                  series(PhaseList[i], "volt", [t \in Times |-> table[t].volt[PhaseList[i]]])])
    \o series(freq_phase, "freq", [t \in Times |-> table[t].freq])
    \o series(freq_phase, "thd", [t \in Times |-> Anything])

\* Of a wide file "only frequency and voltage leave", and all of it: whatever
\* the order and the names of the columns, every value in its band is staged
\* once, with its time and phase, by the rows the parser makes and the first of
\* a key that the dedupe window lets pass; nothing else is.
WideIsReadInFull ==
    \A table \in Table, layout \in Layouts :
        LET rows == rows_from_records(Wide(table, layout), Headers(layout))
        IN  Staged(rows) = Readings(Shown(table, layout)) /\ FrequencyOnce(rows)

\* "A converted PQDIF re-uploaded as CSV": what pqdif2csv writes comes to the
\* same readings, whatever phase the frequency is given.
LongIsReadInFull ==
    \A table \in Table, p \in Phases :
        LET rows == rows_from_long(Long(table, p))
        IN  Staged(rows) = Readings(table) /\ FrequencyOnce(rows)
================================================================================
