-------------------------------- MODULE EdgeNode --------------------------------
(***************************************************************************)
(* The Home Assistant side: the coordinator that captures readings and     *)
(* pushes them (coordinator.py), its disk buffer (buffer.py), and the      *)
(* errors its HTTP client turns answers into (api_client.py).              *)
(*                                                                         *)
(* Rows are numbered in the order of capture.  A push every 30 s runs as a *)
(* task of its own: the timer does not wait for the previous one, and each *)
(* await - a job in the executor, a request - lets everything else run.    *)
(* Buffer jobs that rewrite the file do it in two steps, the copy to a     *)
(* temporary file and the os.replace; all of them use one temporary name.  *)
(***************************************************************************)
EXTENDS Naturals, Sequences, FiniteSets, SequencesExt, Lines

CONSTANTS
    Flushes,      \* the _on_flush tasks that may run at once
    Chunk,        \* _DRAIN_CHUNK
    BufferRows,   \* MAX_BUFFER_ROWS
    MaxAge,       \* MAX_BUFFER_AGE_H, in ticks of the clock
    Outcomes,     \* what a push may end in, a subset of AllOutcomes
    Overlap,      \* may a timer or an unload find a flush still running?
    MaxCaptured,  \* bound: rows captured
    MaxTime,      \* bound: ticks of the clock
    MaxCrashes,   \* bound: Home Assistant stops without unloading
    MaxReloads,   \* bound: reloads of the config entry
    Nobody        \* no temporary file / no line

(* How a push ends, as _request and GridWitnessApiError.retryable tell:    *)
(*   ok        2xx                                                         *)
(*   refused   4xx except 429: not retryable, the rows are given up        *)
(*   busy      429, 5xx or a transport error before the server acted       *)
(*   lost      the server acted but the answer was lost: a transport error *)
(*   escaped   an exception that is no GridWitnessApiError: a body that is *)
(*             not JSON (the HTML page of a proxy), a total timeout        *)
AllOutcomes == {"ok", "refused", "busy", "lost", "escaped"}

ASSUME EdgeAssumption ==
    /\ Chunk \in Nat \ {0} /\ BufferRows \in Nat \ {0} /\ MaxAge \in Nat
    /\ Outcomes \subseteq AllOutcomes /\ Overlap \in BOOLEAN
    /\ {MaxCaptured, MaxTime, MaxCrashes, MaxReloads} \subseteq Nat

VARIABLES
    life,       \* the entry: "running", in the steps of async_stop, or "failed" in one
    pending,    \* coordinator._pending
    online,     \* coordinator.online
    file,       \* the buffer: its lines, and whether the last one lacks its newline
    tmp,        \* the temporary file, or Nobody
    pc, batch, chunk,  \* each flush: where it is, the batch it took, the chunk it peeked
    stale,      \* flushes that belong to an unloaded coordinator
    now,        \* wall clock
    \* History, read by properties only, and counters of the bounds:
    captured, delivered, dropped, lost, crashes, reloads

flushVars == <<pc, batch, chunk, stale>>
history == <<captured, delivered, dropped, lost, crashes, reloads>>
vars == <<life, pending, online, file, tmp, flushVars, now, history>>

--------------------------------------------------------------------------------
(* DiskBuffer.                                                             *)

Rows == 1..MaxCaptured
Line == [row : Rows, ts : 0..MaxTime, ok : BOOLEAN]  \* ok: the line parses
File == [lines : Seq(Line), open : BOOLEAN]
Empty == [lines |-> <<>>, open |-> FALSE]

ASSUME NobodyIsNoFile == Nobody \notin File

Intact(lines) == {i \in 1..Len(lines) : lines[i].ok}
Readable(lines) == Kept(lines, Intact(lines))
RowsOf(lines) == {lines[i].row : i \in Intact(lines)}
rowsOf(lines) == [i \in 1..Len(lines) |-> lines[i].row]

Buffered(rows) == [i \in 1..Len(rows) |-> [row |-> rows[i], ts |-> now, ok |-> TRUE]]

\* Mutant: the file is opened to write, not to append.
appended_over(f, rows) == [lines |-> Buffered(rows), open |-> FALSE]

\* append: to a last line without newline the first new line is glued, and
\* what comes of the two does not parse.
appended(f, rows) ==
    IF f.open /\ rows # <<>>
    THEN [lines |-> Front(f.lines) \o <<[Last(f.lines) EXCEPT !.ok = FALSE]>>
                                   \o Buffered(Tail(rows)),
          open |-> FALSE]
    ELSE [lines |-> f.lines \o Buffered(rows), open |-> f.open /\ rows = <<>>]

\* The rows of the two lines glued together.
Glued(f, rows) ==
    IF f.open /\ rows # <<>> THEN RowsOf(<<Last(f.lines)>>) \cup {Head(rows)} ELSE {}

\* Mutant: the limit is tested before the row is added, not after.
peeked_more == LET rows == rowsOf(Readable(file.lines))
               IN  SubSeq(rows, 1, IF Len(rows) <= Chunk THEN Len(rows) ELSE Chunk + 1)

\* peek: the first rows that parse.
peeked == LET rows == rowsOf(Readable(file.lines))
          IN  SubSeq(rows, 1, IF Len(rows) < Chunk THEN Len(rows) ELSE Chunk)

\* Mutants: one line too many, one too few.
committed_more(n) ==
    [lines |-> SubSeq(file.lines, n + 2, Len(file.lines)),
     open |-> file.open /\ n + 1 < Len(file.lines)]
committed_less(n) ==
    [lines |-> SubSeq(file.lines, n, Len(file.lines)),
     open |-> file.open /\ n - 1 < Len(file.lines)]

\* commit: all lines but the first n, whether they parse or not.
committed(n) ==
    [lines |-> SubSeq(file.lines, n + 1, Len(file.lines)),
     open |-> file.open /\ n < Len(file.lines)]

\* The lines that parse and are young enough.
Young == {i \in Intact(file.lines) : file.lines[i].ts + MaxAge >= now}

\* Mutant: the cap keeps the oldest rows.
pruned_newest ==
    LET young == Kept(file.lines, Young)
    IN  [lines |-> SubSeq(young, 1, IF Len(young) > BufferRows THEN BufferRows ELSE Len(young)),
         open |-> file.open /\ Len(file.lines) \in Young]

\* prune: of these the newest BufferRows.
pruned ==
    LET young == Kept(file.lines, Young)
        first == IF Len(young) > BufferRows THEN Len(young) - BufferRows + 1 ELSE 1
    IN  [lines |-> SubSeq(young, first, Len(young)),
         open |-> file.open /\ Len(file.lines) \in Young]

--------------------------------------------------------------------------------
Init ==
    /\ life = "running" /\ pending = <<>> /\ online = TRUE
    /\ file = Empty /\ tmp = Nobody
    /\ pc = [f \in Flushes |-> "idle"]
    /\ batch = [f \in Flushes |-> <<>>]
    /\ chunk = [f \in Flushes |-> <<>>]
    /\ stale = {}
    /\ now = 0
    /\ captured = 0 /\ delivered = {} /\ dropped = {} /\ lost = {}
    /\ crashes = 0 /\ reloads = 0

\* _on_state_event: a numeric reading of a mapped entity.
capture ==
    /\ life = "running" /\ captured < MaxCaptured
    /\ captured' = captured + 1
    /\ pending' = Append(pending, captured + 1)
    /\ UNCHANGED <<life, online, file, tmp, flushVars, now, delivered, dropped, lost,
                   crashes, reloads>>

tick ==
    /\ now < MaxTime
    /\ now' = now + 1
    /\ UNCHANGED <<life, pending, online, file, tmp, flushVars, history>>

Busy == {f \in Flushes : pc[f] # "idle"}

\* Flush f goes on at label.
At(f, label) == pc' = [pc EXCEPT ![f] = label]

\* The task of flush f is over: its batch and chunk are garbage.
Finish(f) ==
    /\ At(f, "idle")
    /\ batch' = [batch EXCEPT ![f] = <<>>]
    /\ chunk' = [chunk EXCEPT ![f] = <<>>]
    /\ stale' = stale \ {f}

\* Only the coordinator that is loaded shows its flag.
set_online(f, value) == online' = IF f \in stale THEN online ELSE value

\* Mutant: nothing pending, nothing to do.
flush_pending(f) ==
    /\ life = "running" /\ pc[f] = "idle"
    /\ Overlap \/ Busy = {}
    /\ pending # <<>>
    /\ batch' = [batch EXCEPT ![f] = pending]
    /\ pending' = <<>>
    /\ At(f, "peek")
    /\ UNCHANGED <<life, online, file, tmp, chunk, stale, now, history>>

\* _on_flush: the timer fires, the batch is taken.
flush(f) ==
    /\ life = "running" /\ pc[f] = "idle"
    /\ Overlap \/ Busy = {}
    /\ batch' = [batch EXCEPT ![f] = pending]
    /\ pending' = <<>>
    /\ At(f, "peek")
    /\ UNCHANGED <<life, online, file, tmp, chunk, stale, now, history>>

\* _drain_disk peeks; with nothing there the batch is pushed, if there is one.
peek(f) ==
    /\ pc[f] = "peek"
    /\ \/ /\ peeked # <<>>
          /\ chunk' = [chunk EXCEPT ![f] = peeked]
          /\ At(f, "push_chunk")
          /\ UNCHANGED <<batch, stale>>
       \/ /\ peeked = <<>> /\ batch[f] # <<>>
          /\ At(f, "push_batch")
          /\ UNCHANGED <<batch, chunk, stale>>
       \/ peeked = <<>> /\ batch[f] = <<>> /\ Finish(f)
    /\ UNCHANGED <<life, pending, online, file, tmp, now, history>>

\* The server's part of a push of rows, and what the client gives up.
Pushed(rows, outcome) ==
    /\ delivered' = IF outcome \in {"ok", "lost"} THEN delivered \cup ToSet(rows) ELSE delivered
    /\ dropped' = IF outcome = "refused" THEN dropped \cup ToSet(rows) ELSE dropped
    /\ UNCHANGED <<captured, lost, crashes, reloads>>

\* Mutant: a drain that fails without a batch says nothing.
push_chunk_quiet(f) ==
    /\ pc[f] = "push_chunk"
    /\ \E outcome \in Outcomes :
         /\ Pushed(chunk[f], outcome)
         /\ \/ /\ outcome \in {"ok", "refused"}
               /\ At(f, "commit")
               /\ UNCHANGED <<batch, chunk, stale>>
            \/ /\ outcome \in {"busy", "lost"} /\ batch[f] # <<>>
               /\ At(f, "append")
               /\ UNCHANGED <<batch, chunk, stale>>
            \/ outcome \in {"busy", "lost"} /\ batch[f] = <<>> /\ Finish(f)
            \/ outcome = "escaped" /\ Finish(f)
    /\ UNCHANGED <<life, pending, online, file, tmp, now>>

\* A chunk of the backlog is pushed.  Unreachable: the batch joins the backlog.
push_chunk(f) ==
    /\ pc[f] = "push_chunk"
    /\ \E outcome \in Outcomes :
         /\ Pushed(chunk[f], outcome)
         /\ \/ /\ outcome \in {"ok", "refused"}
               /\ At(f, "commit")
               /\ UNCHANGED <<online, batch, chunk, stale>>
            \/ /\ outcome \in {"busy", "lost"} /\ batch[f] # <<>>
               /\ At(f, "append")
               /\ UNCHANGED <<online, batch, chunk, stale>>
            \/ /\ outcome \in {"busy", "lost"} /\ batch[f] = <<>>
               /\ set_online(f, FALSE)
               /\ Finish(f)
            \/ outcome = "escaped" /\ Finish(f) /\ UNCHANGED online
    /\ UNCHANGED <<life, pending, file, tmp, now>>

\* commit copies what stays ...
commit(f) ==
    /\ pc[f] = "commit"
    /\ tmp' = committed(Len(chunk[f]))
    /\ At(f, "commit_replace")
    /\ UNCHANGED <<life, pending, online, file, batch, chunk, stale, now, history>>

\* ... and puts it in place; a missing temporary file is an exception that
\* ends the flush.  Then the next chunk.
commit_replace(f) ==
    /\ pc[f] = "commit_replace"
    /\ \/ /\ tmp # Nobody
          /\ file' = tmp /\ tmp' = Nobody
          /\ At(f, "peek")
          /\ chunk' = [chunk EXCEPT ![f] = <<>>]
          /\ UNCHANGED <<batch, stale>>
       \/ tmp = Nobody /\ Finish(f) /\ UNCHANGED <<file, tmp>>
    /\ UNCHANGED <<life, pending, online, now, history>>

\* The new batch is pushed after the backlog.
push_batch(f) ==
    /\ pc[f] = "push_batch"
    /\ \E outcome \in Outcomes :
         /\ Pushed(batch[f], outcome)
         /\ \/ outcome = "ok" /\ set_online(f, TRUE) /\ Finish(f)
            \/ outcome \in {"refused", "escaped"} /\ Finish(f) /\ UNCHANGED online
            \/ /\ outcome \in {"busy", "lost"}
               /\ At(f, "append")
               /\ UNCHANGED <<online, batch, chunk, stale>>
    /\ UNCHANGED <<life, pending, file, tmp, now>>

\* _append_buffer, first job: the batch goes to the end of the file.
append(f) ==
    /\ pc[f] = "append"
    /\ file' = appended(file, batch[f])
    /\ lost' = lost \cup Glued(file, batch[f])
    /\ batch' = [batch EXCEPT ![f] = <<>>]
    /\ At(f, "prune")
    /\ UNCHANGED <<life, pending, online, tmp, chunk, stale, now,
                   captured, delivered, dropped, crashes, reloads>>

\* Its second job, prune: nothing to drop, nothing written.  The flush ends
\* in the same breath, marking the node offline.
prune(f) ==
    /\ pc[f] = "prune"
    /\ \/ /\ Len(pruned.lines) # Len(file.lines)
          /\ tmp' = pruned
          /\ dropped' = dropped \cup (RowsOf(file.lines) \ RowsOf(pruned.lines))
          /\ At(f, "prune_replace")
          /\ UNCHANGED <<online, batch, chunk, stale>>
       \/ /\ Len(pruned.lines) = Len(file.lines)
          /\ set_online(f, FALSE)
          /\ Finish(f)
          /\ UNCHANGED <<tmp, dropped>>
    /\ UNCHANGED <<life, pending, file, now, captured, delivered, lost, crashes, reloads>>

prune_replace(f) ==
    /\ pc[f] = "prune_replace"
    /\ \/ tmp # Nobody /\ file' = tmp /\ tmp' = Nobody /\ set_online(f, FALSE)
       \/ tmp = Nobody /\ UNCHANGED <<file, tmp, online>>
    /\ Finish(f)
    /\ UNCHANGED <<life, pending, now, history>>

--------------------------------------------------------------------------------
(* Unload, reload, crash.                                                  *)

\* async_stop unsubscribes, then spills what is pending.  A flush that is
\* running goes on.
async_stop ==
    /\ life = "running" /\ reloads < MaxReloads
    /\ Overlap \/ Busy = {}
    /\ life' = IF pending = <<>> THEN "stopped" ELSE "append"
    /\ stale' = Busy
    /\ reloads' = reloads + 1
    /\ UNCHANGED <<pending, online, file, tmp, pc, batch, chunk, now,
                   captured, delivered, dropped, lost, crashes>>

stop_append ==
    /\ life = "append"
    /\ file' = appended(file, pending)
    /\ lost' = lost \cup Glued(file, pending)
    /\ life' = "prune"
    /\ UNCHANGED <<pending, online, tmp, flushVars, now,
                   captured, delivered, dropped, crashes, reloads>>

stop_prune ==
    /\ life = "prune"
    /\ \/ /\ Len(pruned.lines) # Len(file.lines)
          /\ tmp' = pruned
          /\ dropped' = dropped \cup (RowsOf(file.lines) \ RowsOf(pruned.lines))
          /\ life' = "prune_replace"
          /\ UNCHANGED pending
       \/ /\ Len(pruned.lines) = Len(file.lines)
          /\ pending' = <<>> /\ life' = "stopped"
          /\ UNCHANGED <<tmp, dropped>>
    /\ UNCHANGED <<online, file, flushVars, now, captured, delivered, lost, crashes, reloads>>

\* With its temporary file gone the unload has failed, and the entry stays
\* unloaded until Home Assistant starts again.
stop_replace ==
    /\ life = "prune_replace"
    /\ \/ /\ tmp # Nobody
          /\ file' = tmp /\ tmp' = Nobody
          /\ pending' = <<>> /\ life' = "stopped"
       \/ tmp = Nobody /\ life' = "failed" /\ UNCHANGED <<file, tmp, pending>>
    /\ UNCHANGED <<online, flushVars, now, history>>

\* async_setup_entry: a new coordinator on the same file.
setup ==
    /\ life = "stopped"
    /\ life' = "running" /\ pending' = <<>> /\ online' = TRUE
    /\ UNCHANGED <<file, tmp, flushVars, now, history>>

\* What is only in memory.
InBatches == UNION {ToSet(batch[f]) : f \in Flushes}
InMemory == ToSet(pending) \cup InBatches

\* What a job in the executor may be writing.
Written == {batch[f] : f \in {g \in Flushes : pc[g] = "append"}}
           \cup IF life = "append" THEN {pending} ELSE {}

\* Home Assistant stops or crashes: nothing is spilled.  A write under way
\* leaves the lines it has flushed, the last of them cut short or complete
\* but without its newline.
crash ==
    /\ crashes < MaxCrashes
    /\ \/ file' = file
       \/ \E rows \in Written : \E k \in 1..Len(rows), whole \in BOOLEAN :
               LET g == appended(file, SubSeq(rows, 1, k))
               IN  file' = [lines |-> [g.lines EXCEPT ![Len(g.lines)].ok = @ /\ whole],
                            open |-> TRUE]
    /\ lost' = lost \cup ((RowsOf(file.lines) \cup InMemory) \ RowsOf(file'.lines))
    /\ life' = "running" /\ pending' = <<>> /\ online' = TRUE
    /\ pc' = [f \in Flushes |-> "idle"]
    /\ batch' = [f \in Flushes |-> <<>>]
    /\ chunk' = [f \in Flushes |-> <<>>]
    /\ stale' = {}
    /\ crashes' = crashes + 1
    /\ UNCHANGED <<tmp, now, captured, delivered, dropped, reloads>>

step(f) == peek(f) \/ push_chunk(f) \/ commit(f) \/ commit_replace(f)
           \/ push_batch(f) \/ append(f) \/ prune(f) \/ prune_replace(f)

unload == stop_append \/ stop_prune \/ stop_replace \/ setup

Next == \/ capture \/ tick \/ async_stop \/ unload \/ crash
        \/ \E f \in Flushes : flush(f) \/ step(f)

Spec == Init /\ [][Next]_vars

\* The executor and the event loop run what is due; the timer fires; a server
\* that is asked again and again takes a push in the end.
FairSpec ==
    /\ Spec /\ WF_vars(unload)
    /\ \A f \in Flushes :
         /\ WF_vars(step(f)) /\ WF_vars(flush(f))
         /\ SF_vars(push_chunk(f) /\ pc'[f] = "commit")
         /\ SF_vars(push_batch(f) /\ delivered' # delivered /\ pc'[f] = "idle")

--------------------------------------------------------------------------------
(* Properties.                                                             *)

Unsent(rows) == ToSet(rows) \subseteq 1..captured

\* Everything has the shape its part of the code gives it; a flush that is
\* over holds nothing, and only running flushes are stale.
TypeOK ==
    /\ life \in {"running", "append", "prune", "prune_replace", "stopped", "failed"}
    /\ Unsent(pending) /\ online \in BOOLEAN
    /\ \A f \in {file} \cup ({tmp} \ {Nobody}) :
         f \in File /\ (f.open => f.lines # <<>>)
    /\ \A f \in Flushes : /\ Unsent(batch[f]) /\ Unsent(chunk[f])
                          /\ Len(chunk[f]) <= Chunk
                          /\ pc[f] = "idle" => batch[f] = <<>> /\ chunk[f] = <<>>
    /\ stale \subseteq Busy /\ now \in 0..MaxTime /\ captured \in 0..MaxCaptured
    /\ delivered \cup dropped \cup lost \subseteq 1..captured
    /\ crashes \in 0..MaxCrashes /\ reloads \in 0..MaxReloads

\* Rows that reached the server, were given up on purpose (a 4xx, an age or
\* size cap) or went down with a crash.
Settled == delivered \cup dropped \cup lost

\* "When a push fails, rows are appended here": a captured row is always in
\* memory, readable in the buffer, or settled; no failure of a push loses it.
RowsAreAccountedFor ==
    1..captured \subseteq InMemory \cup RowsOf(file.lines) \cup Settled

\* "Remove the first n lines (the ones just successfully pushed)": what
\* leaves the buffer was pushed, pruned, or destroyed by a crash.
OnlySettledLeaves ==
    [][RowsOf(file.lines) \ RowsOf(file'.lines) \subseteq Settled']_vars

\* Every captured row is settled in the end, without new readings having to
\* arrive to trigger it.
EveryRowIsSettled == \A r \in Rows : (r <= captured) ~> (r \in Settled)

\* A flush ends: the drain loop makes progress on every buffer, corrupt lines
\* and concurrent rewrites included, and a missing temporary file ends it.
FlushesEnd == \A f \in Flushes : (pc[f] # "idle") ~> (pc[f] = "idle")

\* A flush that leaves rows in the buffer leaves the node shown as offline,
\* whichever of its steps ended it; one that ends with the delivery of its new
\* rows leaves it online, and nothing else shows it online again.
FlushShowsTheLink ==
    \A f \in Flushes : pc[f] # "idle" /\ pc'[f] = "idle" /\ crashes' = crashes =>
        /\ RowsOf(file'.lines) # {} => ~online'
        /\ pc[f] = "push_batch" /\ delivered' # delivered => online'
        /\ online' => online \/ (pc[f] = "push_batch" /\ delivered' # delivered)

OnlineIsTrue == [][FlushShowsTheLink]_vars

--------------------------------------------------------------------------------
(* The queue a node promises, Outbox.tla, if its flushes do not overlap.   *)

\* While async_stop spills, what is pending is in the file already before it
\* leaves the memory.
waiting ==
    LET unsent == IF Busy = {} THEN <<>> ELSE batch[CHOOSE f \in Busy : TRUE]
    IN  rowsOf(Readable(file.lines)) \o unsent
            \o (IF life \in {"prune", "prune_replace"} THEN <<>> ELSE pending)

Queue == INSTANCE Outbox WITH Capacity <- MaxCaptured, queue <- waiting

\* The backlog is "drained oldest-first": list, batch and file are one queue
\* together.  What moves between them, in and after failed pushes, reloads and
\* crashes, keeps its order; rows leave at the front, sent or given up, and
\* elsewhere only by a crash.
IsAnOutbox == Queue!Spec

================================================================================
