----------------------------- MODULE MCIngestServer -----------------------------
(* Small instances of IngestServer for TLC: the sets of requests clients send. *)
EXTENDS IngestServer, TLC

CONSTANTS n1, n2, a1, a2, freq, power, p1, p2, r1, g1, g2, i1, i2, t1, t2

mcAreaOf == p1 :> g1 @@ p2 :> g2

Perms == Permutations(Threads)

\* A request with every field at its default.
Blank == [op |-> "samples", node |-> None, token |-> None, internal |-> FALSE,
          account |-> None, channels |-> None, loc |-> None, rows |-> {}]

Anon == [tier |-> "anon", region |-> None, postcode |-> None]
InRegion(r) == [tier |-> "region", region |-> r, postcode |-> None]
AtPostcode(p) == [tier |-> "data_share", region |-> None, postcode |-> p]

Register(chans, loc, acct, internal) ==
    [Blank EXCEPT !.op = "register", !.channels = chans, !.loc = loc,
                  !.account = acct, !.internal = internal]
Patch(n, tok, chans, loc) ==
    [Blank EXCEPT !.op = "patch", !.node = n, !.token = tok, !.channels = chans, !.loc = loc]
AdminPatch(n, acct, chans, loc) ==
    [Blank EXCEPT !.op = "admin_patch", !.node = n, !.account = acct, !.internal = TRUE,
                  !.channels = chans, !.loc = loc]
Delete(n, tok) == [Blank EXCEPT !.op = "delete", !.node = n, !.token = tok]
AdminDelete(n, acct) ==
    [Blank EXCEPT !.op = "admin_delete", !.node = n, !.account = acct, !.internal = TRUE]
Samples(n, tok, rows) ==
    [Blank EXCEPT !.op = "samples", !.node = n, !.token = tok, !.rows = rows]

El(at, chans) == [kind |-> "electrical", at |-> at, channels |-> chans]
We(at, chans) == [kind |-> "weather", at |-> at, channels |-> chans]

\* Lifecycle: two nodes of two accounts, every route, and credentials that
\* belong to the other node or account.
LifecycleRequests ==
    {Register({freq, power}, AtPostcode(p1), a1, TRUE), Register({freq}, Anon, a2, TRUE),
     Register({freq}, AtPostcode(None), None, FALSE), Register({freq}, Anon, a1, FALSE),
     Patch(n1, n1, {}, None), Patch(n1, n1, None, AtPostcode(p2)),
     Patch(n1, n1, None, InRegion(None)),
     Patch(n1, n2, {power}, None),
     AdminPatch(n1, a1, {}, InRegion(r1)),
     Delete(n1, n1), AdminDelete(n1, a1), AdminDelete(n1, a2),
     Samples(n1, n1, {El(i1, {power})})}

\* Staging: one node, batches that overlap in their keys, two channels at one
\* instant, a row outside the consent, both kinds.
StagingRequests ==
    {Register({freq}, Anon, None, FALSE),
     Samples(n1, n1, {El(i1, {freq}), El(i2, {freq})}),
     Samples(n1, n1, {El(i2, {freq}), El(i2, {}), El(i1, {power}), We(i1, {})})}

================================================================================
