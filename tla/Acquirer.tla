-------------------------------- MODULE Acquirer --------------------------------
(***************************************************************************)
(* The acquirer (gda_acquirer/gridwitness_acquire.py): a scheduled, single *)
(* instance run that lands the staged hour files of the ingest server in   *)
(* the weekly partitions of the lake and remembers, per kind of row, the   *)
(* newest hour file it has seen.                                           *)
(*                                                                         *)
(* The server goes on appending while a run reads, writes and looks for    *)
(* the newest hour.  A line is numbered in the order of staging; it has    *)
(* one instant, the hour of its file, so a node and an hour are its key    *)
(* (at one phase).  A line's readings are the columns that are not NULL.   *)
(***************************************************************************)
EXTENDS Naturals, FiniteSets, FiniteSetsExt

CONSTANTS
    Nodes,
    Payloads,      \* what a line carries: sets of columns that are not NULL
    MaxHour,       \* hours are 1..MaxHour
    WeekOf,        \* the year/week partition of an hour
    Lag,           \* Scripts.horizon.ingest_cutoff holds the lake back by this much
    Resend,        \* may a key be staged twice (a retry after a server restart)?
    Conflict,      \* may the two carry different columns?
    MaxLines,      \* bound: lines staged
    MaxCrashes,    \* bound: runs that die
    MaxUnreadable  \* bound: times a partition cannot be read

Kinds == {"electrical", "weather"}
Hours == 1..MaxHour

ASSUME AcquirerAssumption ==
    /\ MaxHour \in Nat \ {0} /\ {Lag, MaxLines, MaxCrashes, MaxUnreadable} \subseteq Nat
    /\ WeekOf \in [Hours -> Nat]
    /\ {Resend, Conflict} \subseteq BOOLEAN

VARIABLES
    now,          \* wall clock, in hours
    staged,       \* lines in the hour files of each kind
    lake,         \* rows in the parquet files; a partition without rows has no file
    covered,      \* state.json: the covered hour of each kind, 0 when there is none
    pc, kind,     \* the run: where it is and the kind it is at
    frame,        \* the rows it has read and not yet written
    state,        \* its copy of state.json
    \* History, read by properties only, and counters of the bounds:
    passed,       \* numbers of lines staged behind a run, or bound for an unreadable file
    held,         \* numbers of lines the horizon held back
    crashes, unreadable

runVars == <<pc, kind, frame, state>>
counters == <<crashes, unreadable>>
history == <<passed, held, counters>>
vars == <<now, staged, lake, covered, runVars, history>>

Row == [node : Nodes, at : Hours, cols : SUBSET UNION Payloads, no : 1..MaxLines]

Key(r) == <<r.node, r.at>>
Week(r) == WeekOf[r.at]

Lines == UNION {staged[k] : k \in Kinds}

--------------------------------------------------------------------------------
Init ==
    /\ now = 1
    /\ staged = [k \in Kinds |-> {}]
    /\ lake = [k \in Kinds |-> {}]
    /\ covered = [k \in Kinds |-> 0]
    /\ pc = "idle" /\ kind = "electrical" /\ frame = {}
    /\ state = [k \in Kinds |-> 0]
    /\ passed = {} /\ held = {} /\ crashes = 0 /\ unreadable = 0

--------------------------------------------------------------------------------
(* The ingest server, as far as the acquirer sees it.                      *)

tick ==
    /\ now < MaxHour
    /\ now' = now + 1
    /\ UNCHANGED <<staged, lake, covered, runVars, history>>

\* A line reaches its hour file.  Lines of one key carry the same columns
\* when they are one reading sent twice.
stage(k, r) ==
    /\ r.no = Cardinality(Lines) + 1
    /\ r.at <= now /\ r.cols \in Payloads
    /\ \A s \in staged[k] : Key(s) = Key(r) => Resend /\ (Conflict \/ s.cols = r.cols)
    /\ staged' = [staged EXCEPT ![k] = @ \cup {r}]
    /\ passed' = IF pc = "idle" /\ r.at > covered[k] THEN passed ELSE passed \cup {r.no}
    /\ UNCHANGED <<now, lake, covered, runVars, held, counters>>

--------------------------------------------------------------------------------
(* A run.                                                                  *)

\* main takes the port, run loads the state.
load_state ==
    /\ pc = "idle"
    /\ pc' = "read" /\ kind' = "electrical"
    /\ state' = covered
    /\ UNCHANGED <<now, staged, lake, covered, frame, history>>

\* Mutant: one hour too young.
cutoff_late == IF now + 1 > Lag THEN now + 1 - Lag ELSE 0

cutoff == IF now > Lag THEN now - Lag ELSE 0

\* History: what this read has seen is neither passed nor held any longer.
Remember ==
    /\ passed' = passed \ {r.no : r \in frame'}
    /\ held' = (held \ {r.no : r \in frame'})
               \cup {r.no : r \in {q \in staged[kind] : q.at > state[kind] /\ q.at > cutoff}}

\* Mutant: the covered hour is saved before the rows are written.
read_staging_saves ==
    /\ pc = "read"
    /\ frame' = {r \in staged[kind] : r.at > state[kind] /\ r.at <= cutoff}
    /\ covered' = [covered EXCEPT
                     ![kind] = IF staged[kind] = {} THEN @ ELSE Max({r.at : r \in staged[kind]})]
    /\ pc' = "write"
    /\ Remember
    /\ UNCHANGED <<now, staged, lake, kind, state, counters>>

\* read_staging and _clamp_horizon: rows of the hour files newer than the
\* covered hour, without those the horizon holds back.
read_staging ==
    /\ pc = "read"
    /\ frame' = {r \in staged[kind] : r.at > state[kind] /\ r.at <= cutoff}
    /\ pc' = "write"
    /\ Remember
    /\ UNCHANGED <<now, staged, lake, covered, kind, state, counters>>

\* drop_duplicates(keep="last")
last(rows) == {r \in rows : \A s \in rows : Key(s) = Key(r) => s.no <= r.no}

\* new.combine_first(old): the new row, with old readings where it has none.
combine_first(new, old) ==
    {[r EXCEPT !.cols = @ \cup UNION {o.cols : o \in {q \in old : Key(q) = Key(r)}}] : r \in new}
    \cup {o \in old : \A r \in new : Key(r) # Key(o)}

\* Mutants: the file is overwritten; rows are appended without a MERGE.
written_over(prev, payload) == payload
written_after(prev, payload) == prev \cup payload

\* What a partition holds after payload is written to it.  A partition
\* written for the first time takes the payload as it is.
written_to(prev, payload) ==
    IF prev = {} THEN payload ELSE combine_first(last(payload), last(prev))

\* write_dataset, one partition, weeks in order: the file is replaced
\* atomically; one that cannot be read is left alone.
write_dataset ==
    /\ pc = "write" /\ frame # {}
    /\ \E w \in {Week(r) : r \in frame} :
         /\ \A r \in frame : w <= Week(r)
         /\ LET payload == {r \in frame : Week(r) = w}
                prev    == {r \in lake[kind] : Week(r) = w}
            IN  /\ frame' = frame \ payload
                /\ \/ /\ lake' = [lake EXCEPT ![kind] =
                                    (@ \ prev) \cup written_to(prev, payload)]
                      /\ UNCHANGED <<unreadable, passed>>
                   \/ /\ prev # {} /\ unreadable < MaxUnreadable
                      /\ unreadable' = unreadable + 1
                      /\ passed' = passed \cup {r.no : r \in payload}
                      /\ UNCHANGED lake
    /\ UNCHANGED <<now, staged, covered, pc, kind, state, held, crashes>>

\* Mutant: the hour after the newest one.
latest_hour_next ==
    /\ pc = "write" /\ frame = {}
    /\ state' = [state EXCEPT ![kind] =
                   IF staged[kind] = {} THEN @ ELSE Max({r.at : r \in staged[kind]}) + 1]
    /\ \/ kind = "electrical" /\ kind' = "weather" /\ pc' = "read"
       \/ kind = "weather" /\ pc' = "save" /\ UNCHANGED kind
    /\ UNCHANGED <<now, staged, lake, covered, frame, history>>

\* latest_hour: the directory is listed again; then the next kind.
latest_hour ==
    /\ pc = "write" /\ frame = {}
    /\ state' = [state EXCEPT ![kind] =
                   IF staged[kind] = {} THEN @ ELSE Max({r.at : r \in staged[kind]})]
    /\ \/ kind = "electrical" /\ kind' = "weather" /\ pc' = "read"
       \/ kind = "weather" /\ pc' = "save" /\ UNCHANGED kind
    /\ UNCHANGED <<now, staged, lake, covered, frame, history>>

\* save_state, the last thing a run does.
save_state ==
    /\ pc = "save"
    /\ covered' = state
    /\ pc' = "idle"
    /\ UNCHANGED <<now, staged, lake, kind, frame, state, history>>

\* A run is killed, or an exception ends it.
crash ==
    /\ pc # "idle" /\ crashes < MaxCrashes
    /\ pc' = "idle" /\ frame' = {}
    /\ crashes' = crashes + 1
    /\ UNCHANGED <<now, staged, lake, covered, kind, state, passed, held, unreadable>>

run == load_state \/ read_staging \/ write_dataset \/ latest_hour \/ save_state

Next ==
    \/ tick \/ run \/ crash
    \/ \E k \in Kinds, r \in Row : stage(k, r)

Spec == Init /\ [][Next]_vars

--------------------------------------------------------------------------------
(* Properties.                                                             *)

\* Every variable has a value the code can give it; what a run holds in
\* memory is gone between runs.
TypeOK ==
    /\ now \in Hours
    /\ staged \in [Kinds -> SUBSET Row] /\ lake \in [Kinds -> SUBSET Row]
    /\ covered \in [Kinds -> 0..MaxHour] /\ state \in [Kinds -> 0..MaxHour]
    /\ pc \in {"idle", "read", "write", "save"} /\ kind \in Kinds
    /\ frame \subseteq staged[kind] /\ (pc \in {"idle", "read", "save"} => frame = {})
    /\ passed \cup held \subseteq {r.no : r \in Lines}
    /\ crashes \in 0..MaxCrashes /\ unreadable \in 0..MaxUnreadable

\* The readings that rows give for a key.
Readings(rows, key) == UNION {r.cols : r \in {q \in rows : Key(q) = key}}

Keys == Nodes \X Hours

\* "MERGE prefers non-null": a reading that is in the lake stays there,
\* whatever is merged into its partition later, by whichever run - the one
\* that repeats the work of a run that died included.
KeepsReadings ==
    \A k \in Kinds, key \in Keys : Readings(lake[k], key) \subseteq Readings(lake'[k], key)

LakeKeepsReadings == [][KeepsReadings]_vars

\* What the lake says of a key was staged for that key, and the lake stays
\* behind real time: nothing younger than the horizon has landed.
LakeIsOldStaging ==
    \A k \in Kinds : \A r \in lake[k] :
        /\ r.cols \subseteq Readings(staged[k], Key(r))
        /\ r.at + Lag <= now

\* A line is in the lake or still ahead of the covered hour, so that the next
\* run reads it: excused are the lines staged too late for that, of an
\* unreadable partition, or held back by the horizon, so that no run that dies,
\* and no line that arrives while one goes on, costs another line its place.
Skipped(k) == {r \in staged[k] : r.at <= covered[k]
                                 /\ ~(r.cols \subseteq Readings(lake[k], Key(r)))}

NothingIsSkipped == \A k \in Kinds : \A r \in Skipped(k) : r.no \in passed \cup held

\* "Newer rows stay in staging", for a later run to land them: the horizon
\* alone costs no line its place.
HeldBackIsRead == \A k \in Kinds : \A r \in Skipped(k) : r.no \in passed

\* "the real idempotent MERGE": once a partition has been merged into, it has
\* one row for a key, although a run that died is repeated and a reading is
\* staged twice (a first write may leave duplicates, the next one ends them).
Deduplicates ==
    \A k \in Kinds, h \in Hours :
        LET part   == {r \in lake[k] : Week(r) = WeekOf[h]}
            merged == {r \in lake'[k] : Week(r) = WeekOf[h]}
        IN  part # {} /\ merged # part => \A r, s \in merged : Key(r) = Key(s) => r = s

MergeDeduplicates == [][Deduplicates]_vars

================================================================================
