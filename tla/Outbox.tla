-------------------------------- MODULE Outbox --------------------------------
(***************************************************************************)
(* What a node promises of its readings: they stand in one queue, in the   *)
(* order of their capture, from which the server gets them from the front, *)
(* each at least once; from the front too they are given up, when the      *)
(* server refuses them or the queue is too old or too long.  Only a crash  *)
(* of the process or an error that ends a flush loses rows elsewhere in    *)
(* the queue.  EdgeNode implements the queue with a list in memory, the    *)
(* batch of a flush and a file.                                            *)
(***************************************************************************)
EXTENDS Naturals, Sequences, SequencesExt, Lines

CONSTANT Capacity   \* bound: rows captured

VARIABLES
    captured,     \* rows so far, numbered in the order of capture
    queue,        \* rows that may still have to be sent
    delivered, dropped, lost,
    crashes

outboxVars == <<captured, queue, delivered, dropped, lost, crashes>>

Init ==
    /\ captured = 0 /\ queue = <<>> /\ crashes = 0
    /\ delivered = {} /\ dropped = {} /\ lost = {}

First(k) == {queue[i] : i \in 1..k}
Rest(k) == SubSeq(queue, k + 1, Len(queue))

Capture ==
    /\ captured < Capacity
    /\ captured' = captured + 1
    /\ queue' = Append(queue, captured + 1)
    /\ UNCHANGED <<delivered, dropped, lost, crashes>>

\* The server gets the first k rows; they leave the queue if it says so.  A
\* push that was under way for long brings rows too that have left meanwhile.
Send(k) ==
    /\ delivered \cup First(k) \subseteq delivered'
    /\ delivered' \subseteq delivered \cup First(k) \cup dropped \cup lost
    /\ queue' \in {queue, Rest(k)}
    /\ UNCHANGED <<captured, dropped, lost, crashes>>

GiveUp(k) ==
    /\ dropped' = dropped \cup First(k)
    /\ queue' \in {queue, Rest(k)}
    /\ UNCHANGED <<captured, delivered, lost, crashes>>

\* Rows that were sent or given up leave the queue later.
Release(k) ==
    /\ First(k) \subseteq delivered \cup dropped
    /\ queue' = Rest(k)
    /\ UNCHANGED <<captured, delivered, dropped, lost, crashes>>

\* A crash, what it left of the file when more is written to it, or an error
\* nobody catches loses some rows; the others keep their order.
Lose ==
    /\ crashes' \in {crashes, crashes + 1}
    /\ \E rows \in SUBSET ToSet(queue) :
         /\ rows # {} => crashes' > 0
         /\ queue' = Kept(queue, {i \in 1..Len(queue) : queue[i] \notin rows})
         /\ lost' = lost \cup rows
    /\ UNCHANGED <<captured, delivered, dropped>>

Next == \/ Capture \/ Lose
        \/ \E k \in 0..Len(queue) : Send(k) \/ GiveUp(k) \/ Release(k)

Spec == Init /\ [][Next]_outboxVars
================================================================================
