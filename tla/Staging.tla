-------------------------------- MODULE Staging --------------------------------
(***************************************************************************)
(* Deduper and StagingWriter (server/.../staging.py): the in-memory window *)
(* of keys seen recently and the append-only hourly CSV files.             *)
(*                                                                         *)
(* The files are the set `staged' of rows written so far: the hour file of *)
(* a row follows from its key and no part of the server reads them back.   *)
(* The window is the OrderedDict as the sequence of its keys, oldest       *)
(* first.  filter_new holds the deduper's lock over a loop, modelled row   *)
(* by row with the lock as a variable; _append holds the writer's lock     *)
(* over all its files and is one step.                                     *)
(***************************************************************************)
EXTENDS Naturals, Sequences

CONSTANTS
    Threads,     \* the server's threadpool workers
    NoThread,    \* the lock's holder when it is free
    MaxSize      \* Deduper.maxsize

ASSUME StagingAssumption == MaxSize \in Nat \ {0} /\ NoThread \notin Threads

VARIABLES
    seen,        \* Deduper._seen, oldest key first
    lock,        \* the thread inside filter_new, or NoThread
    staged,      \* rows on disk
    \* History, read by properties only:
    forgotten    \* keys that have left the window, by eviction or restart

stagingVars == <<seen, lock, staged, forgotten>>

--------------------------------------------------------------------------------
Kinds == {"electrical", "weather"}

\* ELECTRICAL_KEY = (node_id, ts_utc, phase), WEATHER_KEY = (node_id, time):
\* `at' stands for the fields after node_id.  The two kinds share one window,
\* their tuples differ in length.
Key(r) == <<r.node, r.kind, r.at>>

Window == {seen[i] : i \in 1..Len(seen)}

StagedKeys == {Key(r) : r \in staged}

StagingInit == seen = <<>> /\ lock = NoThread /\ staged = {} /\ forgotten = {}

\* Mutant: nothing is evicted.
remember_all(k) == seen' = Append(seen, k) /\ UNCHANGED forgotten

\* Remember a key, dropping the oldest one when the window is over its size.
remember(k) ==
    LET longer == Append(seen, k)
    IN  IF Len(longer) > MaxSize
        THEN seen' = Tail(longer) /\ forgotten' = forgotten \cup {Head(longer)}
        ELSE seen' = longer /\ UNCHANGED forgotten

\* Mutants: new keys are not remembered; the lock is not released.
filter_row_forgets(t, r, isLast) ==
    /\ lock \in {NoThread, t}
    /\ lock' = IF isLast THEN NoThread ELSE t
    /\ UNCHANGED <<seen, forgotten, staged>>

filter_row_holds(t, r, isLast) ==
    /\ lock \in {NoThread, t}
    /\ IF Key(r) \in Window THEN UNCHANGED <<seen, forgotten>> ELSE remember(Key(r))
    /\ lock' = t
    /\ UNCHANGED staged

\* One iteration of filter_new's loop, by thread t on row r.  The lock is
\* taken on the first row and released after the last one.
filter_row(t, r, isLast) ==
    /\ lock \in {NoThread, t}
    /\ IF Key(r) \in Window THEN UNCHANGED <<seen, forgotten>> ELSE remember(Key(r))
    /\ lock' = IF isLast THEN NoThread ELSE t
    /\ UNCHANGED staged

\* _append: rows reach their files.
append_rows(rows) ==
    /\ staged' = staged \cup rows
    /\ UNCHANGED <<seen, lock, forgotten>>

\* The process restarts: the window is memory, the files are not.
lose_window ==
    /\ seen' = <<>>
    /\ lock' = NoThread
    /\ forgotten' = forgotten \cup Window
    /\ UNCHANGED staged

================================================================================
