------------------------------ MODULE IngestServer ------------------------------
(***************************************************************************)
(* The ingest server's request handlers (routes_register, routes_ingest,   *)
(* routes_admin, auth) over the private store and the staging writer.      *)
(*                                                                         *)
(* Handlers are plain `def' functions: FastAPI runs each in a threadpool   *)
(* thread, so they interleave between any two calls that take a lock.  A   *)
(* thread keeps what it read (the node record that get_node returned) and  *)
(* acts on it later.  Actions are named after the call they make:          *)
(*                                                                         *)
(*   begin -> get_node -> get_token_hash | get_contributor_ref -> ...      *)
(*     samples:  limiter + consent filter -> filter_new -> _append, first  *)
(*               for the electrical rows, then for the weather rows        *)
(*     patch:    update_consent                                            *)
(*     delete:   delete_node                                               *)
(*     register: create_node                                               *)
(***************************************************************************)
EXTENDS NodeStore, Staging

CONSTANTS
    Instants,      \* what follows node_id in a row's key: (ts_utc, phase) or time
    Requests,      \* the HTTP requests clients may send
    MaxFaults      \* bound: failed appends and server restarts, together

\* One row of a batch body.  A batch is a set of rows, handled in any order:
\* the order within a body is the client's, and a repeated row only counts
\* as one more duplicate.
RowBody == [kind : Kinds, at : Instants, channels : SUBSET Channels]

(* A request as its handler sees it after body validation.  `token' is the *)
(* bearer token (the node it was issued to), `internal' whether the        *)
(* X-GW-Internal header matches, `account' the contributor_ref presented.  *)
RequestType ==
    [op : {"register", "samples", "patch", "delete", "admin_patch", "admin_delete"},
     node : Nodes \cup {None}, token : Nodes \cup {None},
     internal : BOOLEAN, account : Accounts \cup {None},
     channels : {None} \cup SUBSET Channels, loc : {None} \cup LocBody,
     rows : SUBSET RowBody]

\* Every operation but register names a node, the admin routes an account,
\* and register carries channels and a location (its fields have defaults).
ASSUME RequestsAssumption ==
    /\ Requests \subseteq RequestType
    /\ None \notin Requests
    /\ \A loc \in LocBody : loc # None
    /\ \A q \in Requests :
         /\ q.op # "register" => q.node \in Nodes
         /\ q.op \in {"admin_patch", "admin_delete"} => q.account \in Accounts
         /\ q.op = "register" => q.channels \in SUBSET Channels /\ q.loc \in LocBody

ASSUME BoundsAssumption == MaxFaults \in Nat

\* A row as projected for staging: it carries the node's location.
Row == [node : Nodes, kind : Kinds, at : Instants, channels : SUBSET Channels,
        loc_tier : LocTier, loc_ref : {None} \cup LocRef]

VARIABLES
    pc,        \* where each thread is
    req,       \* the request it serves
    node,      \* the record get_node returned to it
    kind,      \* samples: the pass it is in
    todo,      \* samples: accepted rows filter_new has still to look at
    unique,    \* samples: rows filter_new found new
    \* History, read by properties only:
    inForce,   \* records the request's node had while the request was being served
    acked,     \* keys a 200 answered as accepted or duplicate
    faults     \* failed appends and restarts so far

threadVars == <<pc, req, node, kind, todo, unique>>
vars == <<storeVars, stagingVars, threadVars, inForce, acked, faults>>

--------------------------------------------------------------------------------
Init ==
    /\ StoreInit
    /\ StagingInit
    /\ pc = [t \in Threads |-> "idle"]
    /\ req = [t \in Threads |-> None]
    /\ node = [t \in Threads |-> None]
    /\ kind = [t \in Threads |-> "electrical"]
    /\ todo = [t \in Threads |-> {}]
    /\ unique = [t \in Threads |-> {}]
    /\ inForce = [t \in Threads |-> {}]
    /\ acked = {}
    /\ faults = 0

\* Thread t has answered (whatever the status) and is back in the pool.
Leave(t) ==
    /\ pc' = [pc EXCEPT ![t] = "idle"]
    /\ req' = [req EXCEPT ![t] = None]
    /\ node' = [node EXCEPT ![t] = None]
    /\ kind' = [kind EXCEPT ![t] = "electrical"]
    /\ todo' = [todo EXCEPT ![t] = {}]
    /\ unique' = [unique EXCEPT ![t] = {}]

\* What the requests other than t's see of a step that may change the store.
Witness(t) ==
    inForce' = [u \in Threads |->
        IF u = t THEN {}
        ELSE inForce[u] \cup {nodes'[n] : n \in {m \in Nodes :
                 req[u] # None /\ req[u].node = m /\ nodes'[m].status = "live"}}]

Answer(t) == Leave(t) /\ Witness(t) /\ UNCHANGED <<acked, faults>>

Goto(t, label) == pc' = [pc EXCEPT ![t] = label]

--------------------------------------------------------------------------------
(* Authentication.                                                         *)

\* Bound: Nodes is finite, uuid4 is not; a registration starts only if there
\* is an id left for it.
IdLeft == Cardinality({u \in Threads : pc[u] = "create_node"})
            < Cardinality({n \in Nodes : nodes[n].status = "absent"})

\* A request reaches a free thread.  Credentials are looked for before the
\* handler runs: require_bearer wants some token, require_internal the right
\* header; a request without them is refused there and leaves no trace.
begin(t) ==
    /\ pc[t] = "idle"
    /\ \E q \in Requests :
         /\ q.op \in {"samples", "patch", "delete"} => q.token # None
         /\ q.op \in {"admin_patch", "admin_delete"} => q.internal
         /\ q.op = "register" => IdLeft
         /\ req' = [req EXCEPT ![t] = q]
         /\ inForce' = [inForce EXCEPT ![t] =
                          {nodes[n] : n \in {m \in Nodes : m = q.node /\ Live(m)}}]
         /\ Goto(t, IF q.op = "register" THEN "create_node" ELSE "get_node")
    /\ UNCHANGED <<storeVars, stagingVars, node, kind, todo, unique, acked, faults>>

\* authenticate_node and _owned_node begin alike: a node that is not live is a 404.
get_node(t) ==
    /\ pc[t] = "get_node"
    /\ UNCHANGED <<storeVars, stagingVars>>
    /\ \/ /\ Live(req[t].node)
          /\ node' = [node EXCEPT ![t] = nodes[req[t].node]]
          /\ Goto(t, IF req[t].op \in {"admin_patch", "admin_delete"}
                     THEN "get_contributor_ref" ELSE "get_token_hash")
          /\ UNCHANGED <<req, kind, todo, unique, inForce, acked, faults>>
       \/ ~Live(req[t].node) /\ Answer(t)

\* The step that follows a successful check of credentials.
AfterAuth(op) == CASE op = "samples" -> "consent_filter"
                   [] op \in {"patch", "admin_patch"} -> "update_consent"
                   [] op \in {"delete", "admin_delete"} -> "delete_node"

Authorised(t, ok) ==
    /\ UNCHANGED <<storeVars, stagingVars>>
    /\ \/ /\ ok
          /\ Goto(t, AfterAuth(req[t].op))
          /\ UNCHANGED <<req, node, kind, todo, unique, inForce, acked, faults>>
       \/ ~ok /\ Answer(t)

\* 401 unless the stored token is the one presented.
get_token_hash(t) ==
    /\ pc[t] = "get_token_hash"
    /\ Authorised(t, req[t].node \in tokens /\ req[t].token = req[t].node)

\* Mutant: any account will do.
get_contributor_ref_unchecked(t) == pc[t] = "get_contributor_ref" /\ Authorised(t, TRUE)

\* 404 unless the node belongs to the account presented.
get_contributor_ref(t) ==
    /\ pc[t] = "get_contributor_ref"
    /\ Authorised(t, contributor_of(req[t].node) = req[t].account)

--------------------------------------------------------------------------------
(* Node lifecycle.                                                         *)

\* register: 400 on an incomplete location, 401 when an account is named
\* without the internal credential, else a node with a fresh id.
register(t) ==
    /\ pc[t] = "create_node"
    /\ LET q == req[t]
           refused == location_incomplete(q.loc) \/ (q.account # None /\ ~q.internal)
       IN  \/ refused /\ UNCHANGED storeVars
           \/ ~refused /\ \E n \in Nodes : create_node(n, q.channels, q.loc, q.account)
    /\ Answer(t)
    /\ UNCHANGED stagingVars

\* Mutant: a field the body leaves out is written back as get_node read it.
update_node_rewrites(t) ==
    /\ pc[t] = "update_consent"
    /\ LET q == req[t]
           channels == IF q.channels = None THEN node[t].channels ELSE q.channels
       IN
         \/ /\ q.loc # None /\ location_incomplete(q.loc)
            /\ UNCHANGED storeVars
         \/ /\ q.loc # None /\ ~location_incomplete(q.loc)
            /\ update_consent(q.node, channels, q.loc.tier,
                              resolved_loc_ref(q.loc), stored_postcode(q.loc))
         \/ /\ q.loc = None
            /\ update_consent(q.node, channels, None, node[t].loc_ref, None)
    /\ Answer(t)
    /\ UNCHANGED stagingVars

\* Both PATCH handlers: 400 on an incomplete location.  A body without a
\* loc_tier passes on the loc_ref that get_node read, stale by now perhaps.
update_node(t) ==
    /\ pc[t] = "update_consent"
    /\ LET q == req[t] IN
         \/ /\ q.loc # None /\ location_incomplete(q.loc)
            /\ UNCHANGED storeVars
         \/ /\ q.loc # None /\ ~location_incomplete(q.loc)
            /\ update_consent(q.node, q.channels, q.loc.tier,
                              resolved_loc_ref(q.loc), stored_postcode(q.loc))
         \/ /\ q.loc = None
            /\ update_consent(q.node, q.channels, None, node[t].loc_ref, None)
    /\ Answer(t)
    /\ UNCHANGED stagingVars

\* Both DELETE handlers.
erase_node(t) ==
    /\ pc[t] = "delete_node"
    /\ delete_node(req[t].node)
    /\ Answer(t)
    /\ UNCHANGED stagingVars

--------------------------------------------------------------------------------
(* post_samples.                                                           *)

\* project_electrical, project_weather: the row with its node's location.
project(t, r) == [node |-> req[t].node, kind |-> r.kind, at |-> r.at,
                  channels |-> r.channels, loc_tier |-> node[t].loc_tier,
                  loc_ref |-> node[t].loc_ref]

\* Mutant: no consent filter.
accepted_all(t) == {project(t, r) : r \in req[t].rows}

\* The rows that carry only channels the node consented to.
accepted(t) ==
    {project(t, r) : r \in {b \in req[t].rows : b.channels \subseteq node[t].channels}}

of_kind(k, rows) == {r \in rows : r.kind = k}

\* The rate limiter may refuse the batch (429); otherwise the electrical
\* rows that pass the consent filter go to filter_new.
consent_filter(t) ==
    /\ pc[t] = "consent_filter"
    /\ UNCHANGED <<storeVars, stagingVars>>
    /\ \/ /\ Goto(t, "filter_new")
          /\ todo' = [todo EXCEPT ![t] = of_kind("electrical", accepted(t))]
          /\ UNCHANGED <<req, node, kind, unique, inForce, acked, faults>>
       \/ Answer(t)

\* filter_new on one row.
filter_new(t) ==
    /\ pc[t] = "filter_new"
    /\ \E r \in todo[t] :
         /\ filter_row(t, r, todo[t] = {r})
         /\ todo' = [todo EXCEPT ![t] = @ \ {r}]
         /\ unique' = [unique EXCEPT ![t] = IF Key(r) \in Window THEN @ ELSE @ \cup {r}]
    /\ UNCHANGED <<storeVars, pc, req, node, kind, inForce, acked, faults>>

\* Mutant: the weather rows are counted but not written.
append_electrical(t) ==
    /\ pc[t] = "filter_new" /\ todo[t] = {}
    /\ append_rows(of_kind("electrical", unique[t]))
    /\ UNCHANGED <<storeVars, faults>>
    /\ \/ /\ kind[t] = "electrical"
          /\ kind' = [kind EXCEPT ![t] = "weather"]
          /\ todo' = [todo EXCEPT ![t] = of_kind("weather", accepted(t))]
          /\ unique' = [unique EXCEPT ![t] = {}]
          /\ UNCHANGED <<pc, req, node, inForce, acked>>
       \/ /\ kind[t] = "weather"
          /\ acked' = acked \cup {Key(r) : r \in accepted(t)}
          /\ Leave(t)
          /\ Witness(t)

\* filter_new has been through the rows; the new ones are written.  After the
\* electrical rows come the weather rows, after those the answer.
append(t) ==
    /\ pc[t] = "filter_new" /\ todo[t] = {}
    /\ append_rows(unique[t])
    /\ UNCHANGED <<storeVars, faults>>
    /\ \/ /\ kind[t] = "electrical"
          /\ kind' = [kind EXCEPT ![t] = "weather"]
          /\ todo' = [todo EXCEPT ![t] = of_kind("weather", accepted(t))]
          /\ unique' = [unique EXCEPT ![t] = {}]
          /\ UNCHANGED <<pc, req, node, inForce, acked>>
       \/ /\ kind[t] = "weather"
          /\ acked' = acked \cup {Key(r) : r \in accepted(t)}
          /\ Leave(t)
          /\ Witness(t)

\* A write to the staging volume raises (disk full, I/O error): some rows may
\* have reached their files, the client gets a 500.
append_fails(t) ==
    /\ pc[t] = "filter_new" /\ todo[t] = {} /\ unique[t] # {}
    /\ faults < MaxFaults
    /\ \E written \in SUBSET unique[t] : append_rows(written)
    /\ faults' = faults + 1
    /\ UNCHANGED <<storeVars, acked>>
    /\ Leave(t)
    /\ Witness(t)

\* The container restarts: requests in flight and the dedupe window are gone,
\* the database and the files stay.
restart ==
    /\ faults < MaxFaults
    /\ lose_window
    /\ pc' = [t \in Threads |-> "idle"]
    /\ req' = [t \in Threads |-> None]
    /\ node' = [t \in Threads |-> None]
    /\ kind' = [t \in Threads |-> "electrical"]
    /\ todo' = [t \in Threads |-> {}]
    /\ unique' = [t \in Threads |-> {}]
    /\ inForce' = [t \in Threads |-> {}]
    /\ faults' = faults + 1
    /\ UNCHANGED <<storeVars, acked>>

--------------------------------------------------------------------------------
\* One step of the request thread t is serving.
serve(t) ==
    \/ get_node(t) \/ get_token_hash(t) \/ get_contributor_ref(t)
    \/ register(t) \/ update_node(t) \/ erase_node(t)
    \/ consent_filter(t) \/ filter_new(t) \/ append(t)

Next == \/ \E t \in Threads : begin(t) \/ serve(t) \/ append_fails(t)
        \/ restart

Spec == Init /\ [][Next]_vars

\* Threads are scheduled by the operating system: one that can step does.
FairSpec == Spec /\ \A t \in Threads : WF_vars(serve(t))

--------------------------------------------------------------------------------
(* Properties.                                                             *)

Keys == Nodes \X Kinds \X Instants

Labels == {"idle", "create_node", "get_node", "get_token_hash", "get_contributor_ref",
           "consent_filter", "update_consent", "delete_node", "filter_new"}

StagingTypeOK ==
    /\ seen \in Seq(Keys) /\ Len(seen) <= MaxSize
    /\ lock \in Threads \cup {NoThread}
    /\ staged \in SUBSET Row
    /\ forgotten \in SUBSET Keys

ThreadTypeOK ==
    /\ pc \in [Threads -> Labels]
    /\ req \in [Threads -> {None} \cup Requests]
    /\ node \in [Threads -> {None} \cup NodeRec]
    /\ kind \in [Threads -> Kinds]
    /\ todo \in [Threads -> SUBSET Row]
    /\ unique \in [Threads -> SUBSET Row]
    /\ inForce \in [Threads -> SUBSET NodeRec]

\* Every variable holds a value its part of the code can produce, and the
\* dedupe window never exceeds its size.
TypeOK == /\ StoreTypeOK /\ StagingTypeOK /\ ThreadTypeOK
          /\ acked \in SUBSET Keys /\ faults \in 0..MaxFaults

\* Erasure (db.py delete_node) is complete and survives requests that passed
\* their checks before it: a node has a tombstone exactly when it is erased,
\* and then neither a token nor private data, whatever PATCH was in flight.
\* A live node keeps both, so its owner can always manage and erase it.
ErasureIsComplete ==
    \A n \in Nodes :
        /\ n \in tombstones <=> nodes[n].status = "erased"
        /\ n \in tokens <=> Live(n)
        /\ node_private[n] # None <=> Live(n)

\* The published location and the private postcode of a live node always
\* belong together (privacy.py resolve_location), although a PATCH handler
\* writes with a loc_ref it read before another PATCH went by: a postcode is
\* kept only while the node shares data, and loc_ref is derived from it.
Coherent(tier, ref, postcode) ==
    /\ tier = "anon" => ref = None /\ postcode = None
    /\ tier = "region" => ref \in {"DNO"} \X Regions /\ postcode = None
    /\ tier = "data_share" => postcode \in Postcodes /\ ref = <<"GSP", AreaOf[postcode]>>

LocationIsCoherent ==
    \A n \in Nodes : Live(n) =>
        Coherent(nodes[n].loc_tier, nodes[n].loc_ref, node_private[n].postcode)

\* "A token can only ever act on its own node", and the portal only on nodes
\* of the account it names: a live node's record changes only by a request
\* that holds its token or, with the internal credential, names its owner at
\* the moment of the write - not merely at the moment of the check.
OwnerWrites ==
    \A n \in Nodes : Live(n) /\ nodes'[n] # nodes[n] =>
        \E t \in Threads :
           /\ req[t] # None /\ req[t].node = n
           /\ \/ req[t].token = n
              \/ req[t].internal /\ req[t].account = contributor_of(n)

OnlyTheOwnerWrites == [][OwnerWrites]_vars

\* Consent "takes effect immediately": what a row publishes (its channels and
\* the location it is tagged with) was all allowed by one single record the
\* node had while the request was being served.  In particular a request that
\* arrives after a revocation or an erasure stages nothing it covers.
StagesUnderConsent ==
    \A r \in staged' \ staged :
        \E t \in Threads :
           /\ req[t] # None /\ req[t].node = r.node
           /\ \E c \in inForce[t] : /\ r.channels \subseteq c.channels
                                    /\ r.loc_tier = c.loc_tier /\ r.loc_ref = c.loc_ref

StagedUnderConsent == [][StagesUnderConsent]_vars

\* The dedupe window at work under concurrency: a row on its way to disk has a
\* key that is neither on disk nor on its way there with another row, unless
\* that key had left the window by eviction or restart.
NoDoubleStaging ==
    \A t \in Threads : \A r \in unique[t] : Key(r) \notin forgotten =>
        /\ Key(r) \notin StagedKeys
        /\ \A u \in Threads : \A s \in unique[u] : Key(s) = Key(r) => u = t /\ s = r

\* Keys a thread has marked as seen and is about to write.
InFlight == {Key(r) : r \in UNION {unique[t] : t \in Threads}}

\* As long as no write fails and the server does not restart, a key that was
\* answered as accepted or as a duplicate is on disk or about to be.
AcknowledgedIsStored == faults = 0 => acked \subseteq StagedKeys \cup InFlight

\* The same without the proviso, which is what "re-sending the same row is
\* safe" asks of the server: an answer of 200 means the row was kept.
RetriesAreSafe == acked \subseteq StagedKeys \cup InFlight

\* What was acknowledged reaches the disk: a duplicate answer may overtake the
\* write of the row it duplicates, but that write follows.
AcknowledgedReachesDisk ==
    \A k \in Keys : (k \in acked) ~> (k \in StagedKeys \/ faults > 0)

\* A request is answered, or its thread waits for another inside filter_new;
\* nobody stays inside filter_new.
RequestsAreAnswered ==
    /\ \A t \in Threads :
          (pc[t] # "idle") ~> (pc[t] = "idle" \/ lock \notin {NoThread, t})
    /\ (lock # NoThread) ~> (lock = NoThread)

--------------------------------------------------------------------------------
(* The registry that clients see, NodeRegistry.tla.                        *)

completeBodies == {loc \in LocBody : ~location_incomplete(loc)}

\* What a location body comes to, in the published record and the private row.
homes == [loc \in completeBodies |->
            [tier |-> loc.tier, ref |-> resolved_loc_ref(loc),
             postcode |-> stored_postcode(loc)]]

\* The live nodes, put together from their rows in both tables.
liveNodes == [n \in {m \in Nodes : Live(m)} |->
                [owner |-> contributor_of(n), channels |-> nodes[n].channels,
                 home |-> [tier |-> nodes[n].loc_tier, ref |-> nodes[n].loc_ref,
                           postcode |-> node_private[n].postcode]]]

Registry == INSTANCE NodeRegistry
              WITH Complete <- completeBodies, HomeOf <- homes,
                   registry <- liveNodes, erased <- tombstones, asked <- req

\* Requests are linearizable: although a handler looks its node up, checks the
\* credential and writes under three separate acquisitions of the database
\* lock, and passes on what it read at the first, each request takes effect at
\* one moment between its arrival and its answer, as NodeRegistry defines it.
RequestsAreAtomic == Registry!Spec
================================================================================
