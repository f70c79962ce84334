------------------------------- MODULE Delivery -------------------------------
(***************************************************************************)
(* A node and the server together: a reading on its way from the stamp it  *)
(* gets (coordinator.py, ntp.py) through the node's queue, the network and *)
(* a server thread - rate limiter, dedupe window - into the hour files.    *)
(*                                                                         *)
(* The node appears as the queue that EdgeNode implements (Outbox), one    *)
(* push at a time.  The server is Staging and RateLimiter as they are; what *)
(* its other calls do to the node's record is IngestServer's subject, here *)
(* it may refuse a push.  A node that gives a push up, after an error of   *)
(* the transport or a timeout, does not stop the thread that serves it:    *)
(* that one goes on beside the next push, or was never reached.            *)
(*                                                                         *)
(* Rows leave the node without having been stored in three ways, which the *)
(* properties name: refused or pruned (dropped), or in the hands of a      *)
(* flush that an exception ends (lost).                                    *)
(***************************************************************************)
EXTENDS Staging, RateLimiter, Lines, FiniteSets, SequencesExt

CONSTANTS
    Chunk,        \* _DRAIN_CHUNK
    Servers,      \* NTP_SERVERS
    Drift,        \* true time minus the host's clock
    Paths,        \* how long the packets to and from an NTP server may take
    Wrong,        \* what the one NTP server that errs may add to the truth
    MaxDelay,     \* ntp._MAX_DELAY_S
    MaxPlausible, \* NTP_MAX_PLAUSIBLE_S
    TickLength,   \* a tick in the unit of offsets
    None,         \* no reply, no offset
    MaxCaptured,  \* bound: readings
    MaxClock,     \* bound: ticks of the node's clock in which it captures
    MaxWait,      \* bound: ticks from the reading of the time to the lock
    MaxFaults,    \* bound: pushes given up or refused, failing writes, restarts
    MaxSyncs      \* bound: refreshes of the offset

\* A full bucket covers a chunk of the backlog: 6000 and 2000 in the code's
\* defaults.  A bucket whose age has reached Horizon is full.
ASSUME DeliveryAssumption ==
    /\ Chunk \in 1..Capacity
    /\ Horizon * Refill >= Capacity + 2 * MaxWait * Refill

\* The unit of times leaves no rounding in the offset of an honest exchange.
ASSUME ClockAssumption ==
    /\ IsFiniteSet(Servers) /\ MaxDelay \in Nat /\ Drift \in Int /\ Wrong \subseteq Int
    /\ \A path \in Paths : /\ {path.out, path.back} \subseteq Nat
                           /\ (path.out - path.back) % 2 = 0

VARIABLES
    captured, queue,              \* the node's queue, as in Outbox, and its
    delivered, dropped, lost,     \* history
    buffered,     \* rows of the queue that stand in the disk buffer
    readings,     \* the rows as stamped
    clock,        \* the host's clock
    offset,       \* _ntp_offset_s
    asked,        \* the thread whose answer the node awaits, or NoThread
    pc, job,      \* each thread: where it is, the rows of its request,
    rest, unique, \* those filter_new has still to look at, those it found new
    delay,        \* the age of its reading of the time
    \* History and counters of the bounds:
    caught,       \* keys remembered whose rows never reached a file
    sure,         \* was the offset made of three answers or more?
    faults, syncs

nodeVars == <<captured, queue, buffered, readings, dropped, lost>>
clockVars == <<clock, offset, sure, syncs>>
threadVars == <<pc, job, rest, unique>>
vars == <<nodeVars, clockVars, threadVars, delivered, asked, delay, caught, faults,
          stagingVars, limiterVars>>

NTP == INSTANCE Ntp WITH MaxDelay <- MaxDelay, NoReply <- None
Node == INSTANCE Outbox WITH Capacity <- MaxCaptured,
                             crashes <- IF lost = {} THEN 0 ELSE 1

--------------------------------------------------------------------------------
Init ==
    /\ captured = 0 /\ queue = <<>> /\ buffered = 0 /\ readings = <<>>
    /\ delivered = {} /\ dropped = {} /\ lost = {}
    /\ clock = 0 /\ offset = 0 /\ sure = FALSE
    /\ asked = NoThread
    /\ pc = [t \in Threads |-> "idle"] /\ job = [t \in Threads |-> <<>>]
    /\ rest = [t \in Threads |-> <<>>] /\ unique = [t \in Threads |-> {}]
    /\ delay = [t \in Threads |-> 0]
    /\ caught = {} /\ faults = 0 /\ syncs = 0
    /\ StagingInit /\ LimiterInit

\* The clock.  An exchange with a server whose clock is wrong by an error.
Exchange(path, error) ==
    [t1 |-> 0, t2 |-> Drift + error + path.out, t3 |-> Drift + error + path.out,
     t4 |-> path.out + path.back]
Honest == {Exchange(path, 0) : path \in Paths}
Erring == {Exchange(path, error) : path \in Paths, error \in Wrong}

\* What a refresh may come to: at most one server errs, any may be silent.
Syncs ==
    LET Seen(bad) == {x \in [Servers -> Honest \cup Erring \cup {None}] :
                        \A s \in Servers \ {bad} : x[s] \in Honest \cup {None}}
    IN  {[offset |-> NTP!authoritative_offset(x),
          sure |-> Cardinality(NTP!usable(x)) >= 3] :
           x \in UNION {Seen(bad) : bad \in Servers}}

\* _refresh_ntp: too few answers or an implausible offset change nothing.
refresh_ntp ==
    /\ syncs < MaxSyncs
    /\ syncs' = syncs + 1
    /\ \E s \in Syncs :
         IF s.offset = None \/ s.offset > MaxPlausible \/ -s.offset > MaxPlausible
         THEN UNCHANGED <<offset, sure>>
         ELSE offset' = s.offset /\ sure' = s.sure
    /\ UNCHANGED <<nodeVars, clock, threadVars, delivered, asked, delay, caught, faults,
                   stagingVars, limiterVars>>

tick ==
    /\ clock' = IF clock < MaxClock THEN clock + 1 ELSE clock
    /\ pass
    /\ \A t \in Threads : pc[t] = "allow" => delay[t] < MaxWait
    /\ delay' = [t \in Threads |-> IF pc[t] = "allow" THEN delay[t] + 1 ELSE 0]
    /\ UNCHANGED <<nodeVars, offset, sure, syncs, threadVars, delivered, asked, caught,
                   faults, stagingVars>>

--------------------------------------------------------------------------------
\* The node.  _on_state_event: the corrected clock stamps the reading.
capture ==
    /\ clock < MaxClock
    /\ Node!Capture
    /\ readings' = Append(readings, [node |-> "node", kind |-> "electrical",
                                     at |-> clock * TickLength + offset,
                                     id |-> captured + 1])
    /\ UNCHANGED <<buffered, clockVars, threadVars, asked, delay, caught, faults,
                   stagingVars, limiterVars>>

\* How many rows a push takes: a chunk of the backlog or, behind none, the
\* batch, which is what was pending when the flush began.
Sizes == IF buffered = 0 THEN 1..Len(queue)
         ELSE {IF buffered < Chunk THEN buffered ELSE Chunk}

\* Mutant: the newest rows of the queue.
push_newest ==
    /\ asked = NoThread /\ queue # <<>>
    /\ \E t \in Threads, n \in Sizes :
         /\ pc[t] = "idle"
         /\ job' = [job EXCEPT ![t] = SubSeq(queue, Len(queue) - n + 1, Len(queue))]
         /\ pc' = [pc EXCEPT ![t] = "post_samples"]
         /\ asked' = t
    /\ UNCHANGED <<nodeVars, clockVars, rest, unique, delivered, delay, caught, faults,
                   stagingVars, limiterVars>>

\* _push_items: the oldest rows.
push ==
    /\ asked = NoThread /\ queue # <<>>
    /\ \E t \in Threads, n \in Sizes :
         /\ pc[t] = "idle"
         /\ job' = [job EXCEPT ![t] = SubSeq(queue, 1, n)]
         /\ pc' = [pc EXCEPT ![t] = "post_samples"]
         /\ asked' = t
    /\ UNCHANGED <<nodeVars, clockVars, rest, unique, delivered, delay, caught, faults,
                   stagingVars, limiterVars>>

\* Where the batch of the flush ends that pushed n rows: behind a backlog it
\* stands behind that, and may be empty.
BatchEnds(n) == IF buffered = 0 THEN {n} ELSE buffered..Len(queue)

\* A retryable error: the batch, if there is one, joins the backlog, which is
\* then pruned of the rows that are too old or too many.
KeepRows(n) ==
    /\ asked' = NoThread
    /\ \E b \in BatchEnds(n) : \E k \in 0..(IF b > buffered THEN b ELSE 0) :
         /\ queue' = Node!Rest(k) /\ buffered' = b - k
         /\ dropped' = dropped \cup Node!First(k)
    /\ UNCHANGED <<captured, readings, lost>>

\* An error nobody catches ends the flush, and its batch is gone.
LoseBatch(n) ==
    /\ asked' = NoThread
    /\ \E b \in BatchEnds(n) :
         LET batch == (buffered + 1)..b
         IN  /\ queue' = Kept(queue, (1..Len(queue)) \ batch)
             /\ lost' = lost \cup {queue[i] : i \in batch}
    /\ UNCHANGED <<captured, readings, buffered, dropped>>

\* The n rows pushed are done with.
DropRows(n) ==
    /\ asked' = NoThread
    /\ queue' = Node!Rest(n)
    /\ buffered' = IF buffered > n THEN buffered - n ELSE 0
    /\ UNCHANGED <<captured, readings, lost>>

\* Mutant: 429 counts as an acknowledgement of the rows.
answered_any(t, status) ==
    IF asked # t THEN UNCHANGED <<nodeVars, asked>>
    ELSE LET n == Len(job[t])
         IN  \/ status \in {200, 429} /\ DropRows(n) /\ UNCHANGED dropped
             \/ status = 400 /\ DropRows(n) /\ dropped' = dropped \cup Node!First(n)
             \/ status = 500 /\ LoseBatch(n)

\* The answer of thread t reaches the node, if it still waits for it.  A 4xx
\* other than 429 is final.  The body of a 500 is no JSON, and the error of
\* its decoding is not one that _request turns into its own.
answered(t, status) ==
    IF asked # t THEN UNCHANGED <<nodeVars, asked>>
    ELSE LET n == Len(job[t])
         IN  \/ status = 200 /\ DropRows(n) /\ UNCHANGED dropped
             \/ status = 429 /\ KeepRows(n)
             \/ status = 400 /\ DropRows(n) /\ dropped' = dropped \cup Node!First(n)
             \/ status = 500 /\ LoseBatch(n)

\* The node no longer waits.  Its request goes on, or never got to a thread.
Abandon ==
    /\ asked # NoThread /\ faults < MaxFaults
    /\ faults' = faults + 1
    /\ \/ UNCHANGED <<pc, job>>
       \/ /\ pc[asked] = "post_samples"
          /\ pc' = [pc EXCEPT ![asked] = "idle"] /\ job' = [job EXCEPT ![asked] = <<>>]
    /\ UNCHANGED <<clockVars, rest, unique, delivered, delay, caught, stagingVars,
                   limiterVars>>

\* An error of the transport: aiohttp's ClientError.
give_up == Abandon /\ KeepRows(Len(job[asked]))

\* The total timeout of the session, which is no ClientError.
time_out == Abandon /\ LoseBatch(Len(job[asked]))

--------------------------------------------------------------------------------
\* The server's thread t.  The request is over.
Leave(t) ==
    /\ pc' = [pc EXCEPT ![t] = "idle"] /\ job' = [job EXCEPT ![t] = <<>>]
    /\ rest' = [rest EXCEPT ![t] = <<>>] /\ unique' = [unique EXCEPT ![t] = {}]

\* The batch is not valid, or its node or token is unknown.
refuse(t) ==
    /\ pc[t] = "post_samples" /\ faults < MaxFaults
    /\ faults' = faults + 1
    /\ Leave(t) /\ answered(t, 400)
    /\ UNCHANGED <<clockVars, delivered, delay, caught, stagingVars, limiterVars>>

\* allow reads the time ...
read_time(t) ==
    /\ pc[t] = "post_samples"
    /\ pc' = [pc EXCEPT ![t] = "allow"]
    /\ UNCHANGED <<nodeVars, clockVars, job, rest, unique, delivered, asked, delay, caught,
                   faults, stagingVars, limiterVars>>

\* ... and asks the bucket, under its lock.
limit(t) ==
    /\ pc[t] = "allow"
    /\ \E granted \in BOOLEAN :
         /\ allow(Len(job[t]), delay[t], granted)
         /\ \/ /\ granted
               /\ pc' = [pc EXCEPT ![t] = "filter_new"]
               /\ rest' = [rest EXCEPT ![t] = job[t]]
               /\ delivered' = delivered \cup ToSet(job[t])
               /\ UNCHANGED <<nodeVars, job, unique, asked>>
            \/ ~granted /\ Leave(t) /\ answered(t, 429) /\ UNCHANGED delivered
    /\ delay' = [delay EXCEPT ![t] = 0]
    /\ UNCHANGED <<clockVars, caught, faults, stagingVars>>

\* One row of the batch passes the dedupe window.
filter_new(t) ==
    /\ pc[t] = "filter_new" /\ rest[t] # <<>>
    /\ LET r == readings[Head(rest[t])]
       IN  /\ filter_row(t, r, Len(rest[t]) = 1)
           /\ unique' = [unique EXCEPT ![t] = IF Key(r) \in Window THEN @ ELSE @ \cup {r}]
    /\ rest' = [rest EXCEPT ![t] = Tail(@)]
    /\ UNCHANGED <<nodeVars, clockVars, pc, job, delivered, asked, delay, caught, faults,
                   limiterVars>>

\* The new rows reach their files and the batch is answered.
append(t) ==
    /\ pc[t] = "filter_new" /\ rest[t] = <<>>
    /\ append_rows(unique[t])
    /\ Leave(t) /\ answered(t, 200)
    /\ UNCHANGED <<clockVars, delivered, delay, caught, faults, limiterVars>>

\* A write fails, after some of the rows: a 500.
append_fails(t) ==
    /\ pc[t] = "filter_new" /\ rest[t] = <<>> /\ unique[t] # {} /\ faults < MaxFaults
    /\ \E written \in SUBSET unique[t] :
         /\ append_rows(written)
         /\ caught' = caught \cup {Key(r) : r \in unique[t] \ written}
    /\ faults' = faults + 1
    /\ Leave(t) /\ answered(t, 500)
    /\ UNCHANGED <<clockVars, delivered, delay, limiterVars>>

\* The server restarts: threads, window and bucket are memory.
restart ==
    /\ faults < MaxFaults
    /\ faults' = faults + 1
    /\ caught' = caught \cup {Key(r) : r \in UNION {unique[t] : t \in Threads}}
    /\ pc' = [t \in Threads |-> "idle"] /\ job' = [t \in Threads |-> <<>>]
    /\ rest' = [t \in Threads |-> <<>>] /\ unique' = [t \in Threads |-> {}]
    /\ delay' = [t \in Threads |-> 0]
    /\ lose_window
    /\ tokens' = Capacity /\ age' = Horizon /\ window' = NoWindow
    /\ IF asked = NoThread THEN UNCHANGED <<nodeVars, asked>> ELSE KeepRows(Len(job[asked]))
    /\ UNCHANGED <<clockVars, delivered>>

serve(t) == read_time(t) \/ limit(t) \/ filter_new(t) \/ append(t)

Next == \/ capture \/ push \/ give_up \/ time_out \/ tick \/ refresh_ntp \/ restart
        \/ \E t \in Threads : serve(t) \/ refuse(t) \/ append_fails(t)

Spec == Init /\ [][Next]_vars

\* The node's timer fires, the threads are scheduled, time passes.
FairSpec == Spec /\ WF_vars(push) /\ WF_vars(tick) /\ \A t \in Threads : WF_vars(serve(t))

--------------------------------------------------------------------------------
(* Properties.                                                             *)

\* Readings that were refused or pruned, or that an error took with it.
GivenUp == dropped \cup lost

\* "What makes retries and backfill safe": a reading that has left the node's
\* queue is in a file or in the hands of a thread that will write it, or one
\* with its node, phase and time is, unless the node has given it up.  Only a
\* key that was remembered before a write that failed, or a restart, is lost.
ReadingsAreStaged ==
    \A i \in (1..captured) \ GivenUp :
        \/ i \in ToSet(queue)
        \/ \E r \in staged \cup UNION {unique[t] : t \in Threads} : Key(r) = Key(readings[i])
        \/ Key(readings[i]) \in caught

\* "Push buffered backlog oldest-first": with pushes that are given up and
\* served all the same, beside the next ones, the server still gets the
\* readings in order.  None leaves the node before the server had it or
\* refused it, unless it was pruned or an error took it; and what is pruned
\* or refused is what was the oldest then.
InOrder == Node!Spec

\* The drain ends: whatever is refused for its rate or given up, a reading
\* reaches its file in the end, but for the losses ReadingsAreStaged names.
EveryReadingArrives ==
    \A i \in 1..MaxCaptured :
        i <= captured ~> /\ i <= captured
                         /\ \/ Key(readings[i]) \in StagedKeys \cup caught
                            \/ i \in GivenUp

\* "Median makes it robust to a single bad server": when three servers or
\* more answered, the offset is wrong by half the longest delay accepted at
\* most, whatever one of them says and however uneven the paths are.
ClockIsTrue == sure => 2 * (offset - Drift) \in -MaxDelay..MaxDelay
================================================================================
