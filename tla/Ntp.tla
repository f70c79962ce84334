--------------------------------- MODULE Ntp ----------------------------------
(***************************************************************************)
(* The offset of the host's clock (custom_components/.../ntp.py).  Times   *)
(* are integers in a unit that makes every halved number even, so no       *)
(* division rounds.                                                        *)
(***************************************************************************)
EXTENDS Integers, FiniteSets

CONSTANTS
    MaxDelay,    \* _MAX_DELAY_S
    NoReply      \* no reply, an unusable one, no offset

\* parse_offset: t1 and t4 are the client's clock, t2 and t3 the server's.
parse_offset(t1, t2, t3, t4) ==
    [offset |-> ((t2 - t1) + (t3 - t4)) \div 2, delay |-> (t4 - t1) - (t3 - t2)]

\* query_one: an exchange is the four times.
query_one(x) ==
    IF x = NoReply THEN NoReply
    ELSE LET p == parse_offset(x.t1, x.t2, x.t3, x.t4)
         IN  IF p.delay > MaxDelay \/ p.delay < 0 THEN NoReply ELSE p.offset

\* statistics.median of the numbers x[s], s \in S: the k-th of them in order
\* has fewer than k below it and at least k up to it.
median(x, S) ==
    LET kth(k) == x[CHOOSE s \in S : /\ Cardinality({r \in S : x[r] < x[s]}) < k
                                     /\ Cardinality({r \in S : x[r] <= x[s]}) >= k]
        n == Cardinality(S)
    IN  (kth((n + 1) \div 2) + kth(n \div 2 + 1)) \div 2

\* The servers of which an offset came back.
usable(exchanges) == {s \in DOMAIN exchanges : query_one(exchanges[s]) # NoReply}

\* Mutant: the mean.
authoritative_offset_mean(exchanges) ==
    LET S == usable(exchanges)
        x == [s \in S |-> query_one(exchanges[s])]
        sum[T \in SUBSET S] == IF T = {} THEN 0
                               ELSE LET s == CHOOSE s \in T : TRUE IN x[s] + sum[T \ {s}]
    IN  IF Cardinality(S) < 2 THEN NoReply ELSE sum[S] \div Cardinality(S)

\* authoritative_offset, with min_responses = 2.
authoritative_offset(exchanges) ==
    LET S == usable(exchanges)
    IN  IF Cardinality(S) < 2 THEN NoReply
        ELSE median([s \in S |-> query_one(exchanges[s])], S)
================================================================================
