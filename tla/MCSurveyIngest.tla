---------------------------- MODULE MCSurveyIngest ----------------------------
(* Small instances of SurveyIngest for TLC. *)
EXTENDS SurveyFiles, TLC

CONSTANTS s1, s2

\* One survey has a file for the converter, the other has not.
TwoAndOne == s1 :> 2 @@ s2 :> 1

Two == s1 :> 2

\* The second file has a row of the same time and phase as the first, and one more.
SharedRows(c) == 1..c[2]

\* Files for the parsers: two times, two phases, and numbers in both bands, in
\* that of voltages only and in none.
MCTimeList == <<1, 2>>
MCPhaseList == <<"L1", "L2">>
MCPhasesOne == <<"1p">>

col(of, ts, freq, volt, phase) ==
    [of |-> of, header |-> [ts |-> ts, freq |-> freq, volt |-> volt, phase |-> phase]]
time == col("time", TRUE, FALSE, FALSE, "1p")      \* Timestamp
v1 == col("L1", FALSE, FALSE, TRUE, "L1")          \* V1
v2 == col("L2", FALSE, FALSE, TRUE, "L2")          \* Voltage L2
freq == col("freq", FALSE, TRUE, FALSE, "1p")      \* Frequency
freq_v1 == col("freq", FALSE, TRUE, TRUE, "L1")    \* Frequency (V1)
time_v1 == col("time", TRUE, FALSE, TRUE, "L1")    \* Time V1
amps == col("current", FALSE, FALSE, FALSE, "L1")  \* I L1

MCLayouts == {<<time, v1, v2, freq>>, <<freq, amps, v2, time, v1>>, <<time, freq>>,
              <<freq_v1, v2, time_v1>>, <<time, amps, v1>>, <<v2, v1, time>>,
              <<amps, v1, freq>>}
================================================================================
