------------------------------ MODULE MCAcquirer ------------------------------
(* Small instances of Acquirer for TLC: two partitions of the lake. *)
EXTENDS Acquirer, TLC

CONSTANTS n1, n2, freq, volt

mcWeekOf == [h \in 1..MaxHour |-> IF h = 1 THEN 1 ELSE 2]

One == {{freq}}
Two == {{freq}, {volt}}
================================================================================
