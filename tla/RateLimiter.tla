------------------------------ MODULE RateLimiter ------------------------------
(***************************************************************************)
(* The bucket RateLimiter keeps for one node (server/.../ratelimit.py).    *)
(*                                                                         *)
(* Only differences of monotonic times enter the code, so times are ages:  *)
(* how long ago they were read.  A request reads the time before it takes  *)
(* the lock; when it holds the lock that reading is `delay' ticks old, and *)
(* another request may have stored a later one.  A tick is long enough to  *)
(* refill whole tokens.                                                    *)
(***************************************************************************)
EXTENDS Integers

CONSTANTS
    Capacity,   \* self.capacity
    Refill,     \* tokens refilled in a tick
    Horizon     \* bound: ages are counted up to it; by then a bucket is full

ASSUME LimiterAssumption ==
    Capacity \in Nat \ {0} /\ Refill \in Nat \ {0} /\ Horizon \in Nat \ {0}

VARIABLES
    tokens, age,  \* the entry of _buckets: tokens, and the age of last_ts
    window        \* history: rows granted to readings of the time that are
                  \* not older than a moment the observer chose

limiterVars == <<tokens, age, window>>

NoWindow == [age |-> 0, rows |-> 0]

\* A node that has no entry has a full bucket.
LimiterInit == tokens = Capacity /\ age = Horizon /\ window = NoWindow

\* Mutant: a bucket has no brim.
refilled_above(delay) == tokens + (age - delay) * Refill

\* The tokens at a reading of the time `delay' ago: fewer than before when
\* the reading is older than last_ts.
refilled(delay) ==
    LET level == tokens + (age - delay) * Refill
    IN  IF level > Capacity THEN Capacity ELSE level

\* Mutant: a refused request is charged too.
allow_charges(rows, delay, granted) ==
    /\ granted = (refilled(delay) >= rows)
    /\ tokens' = refilled(delay) - rows
    /\ age' = delay
    /\ window' = IF granted /\ delay <= window.age
                 THEN [window EXCEPT !.rows = @ + rows] ELSE window

\* allow: a refused request takes no tokens, and leaves its time.
allow(rows, delay, granted) ==
    /\ granted = (refilled(delay) >= rows)
    /\ tokens' = IF granted THEN refilled(delay) - rows ELSE refilled(delay)
    /\ age' = delay
    /\ window' = IF granted /\ delay <= window.age
                 THEN [window EXCEPT !.rows = @ + rows] ELSE window

\* Time passes; the observer may choose a new moment.
pass ==
    /\ age' = IF age < Horizon THEN age + 1 ELSE age
    /\ \/ window.age < Horizon /\ window' = [window EXCEPT !.age = @ + 1]
       \/ window' = NoWindow
    /\ UNCHANGED tokens

\* "Consume rows tokens; return False if the bucket can't cover them": from
\* any moment on, a node is granted no more than one full bucket and what
\* was refilled since, however its requests overtake each other between
\* their reading of the time and the lock.
RateIsBounded == window.rows <= Capacity + window.age * Refill
================================================================================
