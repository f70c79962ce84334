--------------------------- MODULE IngestServerProofs ---------------------------
(***************************************************************************)
(* What the ingest server guarantees for any number of nodes, accounts,    *)
(* threads and requests: erasure is complete, the private postcode and the *)
(* published location belong together, only the owner writes, rows are     *)
(* staged under a consent that was in force, the dedupe window works       *)
(* between threads, and each request takes effect at one moment.           *)
(***************************************************************************)
EXTENDS IngestServer, SequenceTheorems, FiniteSetTheorems, TLAPS

--------------------------------------------------------------------------------
(* The store by itself: each Database method keeps it consistent.          *)

StoreInv == StoreTypeOK /\ ErasureIsComplete /\ LocationIsCoherent

\* A complete location body resolves to a published reference and a private
\* postcode that belong together (resolve_location).
LEMMA LocationResolves ==
    ASSUME NEW loc \in LocBody, ~location_incomplete(loc)
    PROVE  /\ resolved_loc_ref(loc) \in {None} \cup LocRef
           /\ stored_postcode(loc) \in Postcodes \cup {None}
           /\ Coherent(loc.tier, resolved_loc_ref(loc), stored_postcode(loc))
<1>1. loc.tier \in LocTier /\ loc.region \in Regions \cup {None}
      /\ loc.postcode \in Postcodes \cup {None}
  BY DEF LocBody
<1>2. CASE loc.tier = "anon"
  BY <1>2 DEF resolved_loc_ref, stored_postcode, Coherent
<1>3. CASE loc.tier = "region"
  <2>1. loc.region \in Regions
    BY <1>1, <1>3 DEF location_incomplete
  <2>2. resolved_loc_ref(loc) = <<"DNO", loc.region>> /\ stored_postcode(loc) = None
    BY <1>3 DEF resolved_loc_ref, stored_postcode
  <2> QED
    BY <1>3, <2>1, <2>2 DEF LocRef, Coherent
<1>4. CASE loc.tier = "data_share"
  <2>1. loc.postcode \in Postcodes
    BY <1>1, <1>4 DEF location_incomplete
  <2>2. /\ resolved_loc_ref(loc) = <<"GSP", AreaOf[loc.postcode]>>
        /\ stored_postcode(loc) = loc.postcode
    BY <1>4 DEF resolved_loc_ref, stored_postcode
  <2>3. AreaOf[loc.postcode] \in Areas
    BY <2>1, NodeStoreAssumption
  <2> QED
    BY <1>4, <2>1, <2>2, <2>3 DEF LocRef, Coherent
<1> QED
  BY <1>1, <1>2, <1>3, <1>4 DEF LocTier

\* create_node keeps the store consistent.
LEMMA CreateKeepsStore ==
    ASSUME StoreInv, NEW n \in Nodes, NEW channels \in SUBSET Channels,
           NEW loc \in LocBody, ~location_incomplete(loc),
           NEW account \in Accounts \cup {None},
           create_node(n, channels, loc, account)
    PROVE  StoreInv'
<1>1. loc.tier \in LocTier
  BY DEF LocBody
<1> DEFINE rec == [status |-> "live", channels |-> channels, loc_tier |-> loc.tier,
                   loc_ref |-> resolved_loc_ref(loc)]
           prv == [postcode |-> stored_postcode(loc), contributor_ref |-> account]
<1>2. rec \in NodeRec /\ prv \in PrivateRec
  BY <1>1, LocationResolves DEF NodeRec, PrivateRec
<1>3. /\ nodes' = [nodes EXCEPT ![n] = rec]
      /\ node_private' = [node_private EXCEPT ![n] = prv]
      /\ tokens' = tokens \cup {n} /\ tombstones' = tombstones
      /\ nodes[n].status = "absent"
  BY DEF create_node
<1>4. StoreTypeOK'
  BY <1>2, <1>3 DEF StoreInv, StoreTypeOK
<1>5. ErasureIsComplete'
  <2> SUFFICES ASSUME NEW m \in Nodes
               PROVE  /\ m \in tombstones' <=> nodes'[m].status = "erased"
                      /\ m \in tokens' <=> nodes'[m].status = "live"
                      /\ node_private'[m] # None <=> nodes'[m].status = "live"
    BY DEF ErasureIsComplete, Live
  <2>1. prv # None
    BY <1>2, NullIsNoRow
  <2>2. CASE m = n
    BY <2>1, <2>2, <1>3 DEF StoreInv, StoreTypeOK, ErasureIsComplete, Live
  <2>3. CASE m # n
    BY <2>3, <1>3 DEF StoreInv, StoreTypeOK, ErasureIsComplete, Live
  <2> QED
    BY <2>2, <2>3
<1>6. LocationIsCoherent'
  <2> SUFFICES ASSUME NEW m \in Nodes, nodes'[m].status = "live"
               PROVE  Coherent(nodes'[m].loc_tier, nodes'[m].loc_ref, node_private'[m].postcode)
    BY DEF LocationIsCoherent, Live
  <2>1. CASE m = n
    BY <2>1, <1>1, <1>3, LocationResolves DEF StoreInv, StoreTypeOK, LocTier
  <2>2. CASE m # n
    BY <2>2, <1>3 DEF StoreInv, StoreTypeOK, LocationIsCoherent, Live
  <2> QED
    BY <2>1, <2>2
<1> QED
  BY <1>4, <1>5, <1>6 DEF StoreInv

\* update_consent keeps the store consistent, even on a node erased since
\* the caller's checks: the UPDATE of a missing private row does nothing.
LEMMA UpdateKeepsStore ==
    ASSUME StoreInv, NEW n \in Nodes, nodes[n].status # "absent",
           NEW channels \in {None} \cup SUBSET Channels,
           NEW tier \in {None} \cup LocTier, NEW ref, NEW postcode,
           tier # None => /\ ref \in {None} \cup LocRef
                          /\ postcode \in Postcodes \cup {None}
                          /\ Coherent(tier, ref, postcode),
           update_consent(n, channels, tier, ref, postcode)
    PROVE  /\ StoreInv'
           /\ nodes'[n].status = nodes[n].status
           /\ \A m \in Nodes \ {n} : nodes'[m] = nodes[m]
           /\ \A m \in Nodes : Live(m) => contributor_of(m)' = contributor_of(m)
<1> DEFINE rec == [nodes[n] EXCEPT !.channels = IF channels = None THEN @ ELSE channels,
                                   !.loc_tier = IF tier = None THEN @ ELSE tier,
                                   !.loc_ref = IF tier = None THEN @ ELSE ref]
           prv == IF tier = None \/ node_private[n] = None THEN node_private[n]
                  ELSE [node_private[n] EXCEPT !.postcode = postcode]
<1>1. /\ nodes' = [nodes EXCEPT ![n] = rec]
      /\ node_private' = [node_private EXCEPT ![n] = prv]
      /\ tokens' = tokens /\ tombstones' = tombstones
  BY DEF update_consent, StoreInv, StoreTypeOK, NodeRec
<1>2. nodes[n] \in NodeRec /\ node_private[n] \in {None} \cup PrivateRec
  BY DEF StoreInv, StoreTypeOK
<1>3. rec \in NodeRec /\ rec.status = nodes[n].status
  BY <1>2 DEF NodeRec
<1>4. /\ prv \in {None} \cup PrivateRec
      /\ prv = None <=> node_private[n] = None
      /\ prv # None => prv.contributor_ref = node_private[n].contributor_ref
  BY <1>2, NullIsNoRow DEF PrivateRec
<1>5. StoreTypeOK'
  BY <1>1, <1>3, <1>4 DEF StoreInv, StoreTypeOK
<1>6. ErasureIsComplete'
  BY <1>1, <1>3, <1>4 DEF StoreInv, StoreTypeOK, ErasureIsComplete, Live
<1>7. LocationIsCoherent'
  <2> SUFFICES ASSUME NEW m \in Nodes, nodes'[m].status = "live"
               PROVE  Coherent(nodes'[m].loc_tier, nodes'[m].loc_ref, node_private'[m].postcode)
    BY DEF LocationIsCoherent, Live
  <2>1. CASE m # n
    BY <2>1, <1>1 DEF StoreInv, StoreTypeOK, LocationIsCoherent, Live
  <2>2. CASE m = n /\ tier = None
    <3>1. /\ nodes'[m].loc_tier = nodes[m].loc_tier /\ nodes'[m].loc_ref = nodes[m].loc_ref
          /\ node_private'[m] = node_private[m] /\ nodes[m].status = "live"
      BY <2>2, <1>1, <1>2, <1>3 DEF StoreInv, StoreTypeOK, NodeRec
    <3> QED
      BY <3>1 DEF StoreInv, LocationIsCoherent, Live
  <2>3. CASE m = n /\ tier # None
    <3>1. node_private[n] # None
      BY <2>3, <1>1, <1>3 DEF StoreInv, StoreTypeOK, ErasureIsComplete, Live
    <3>2. nodes'[m].loc_tier = tier /\ nodes'[m].loc_ref = ref
      BY <2>3, <1>1, <1>2 DEF StoreInv, StoreTypeOK, NodeRec
    <3>3. node_private'[m].postcode = postcode
      BY <2>3, <3>1, <1>1, <1>2 DEF StoreInv, StoreTypeOK, PrivateRec
    <3> QED
      BY <2>3, <3>2, <3>3
  <2> QED
    BY <2>1, <2>2, <2>3
<1>8. \A m \in Nodes : Live(m) => contributor_of(m)' = contributor_of(m)
  <2> SUFFICES ASSUME NEW m \in Nodes, Live(m)
               PROVE  contributor_of(m)' = contributor_of(m)
    OBVIOUS
  <2>1. node_private'[m] = IF m = n THEN prv ELSE node_private[m]
    BY <1>1 DEF StoreInv, StoreTypeOK
  <2> QED
    BY <2>1, <1>4 DEF contributor_of
<1> QED
  BY <1>1, <1>3, <1>5, <1>6, <1>7, <1>8 DEF StoreInv, StoreTypeOK

\* delete_node keeps the store consistent and brings nothing back to life.
LEMMA DeleteKeepsStore ==
    ASSUME StoreInv, NEW n \in Nodes, nodes[n].status # "absent", delete_node(n)
    PROVE  /\ StoreInv'
           /\ nodes'[n].status = "erased"
           /\ \A m \in Nodes \ {n} : nodes'[m] = nodes[m]
                                     /\ contributor_of(m)' = contributor_of(m)
<1>1. CASE ~Live(n)
  <2>1. UNCHANGED storeVars /\ nodes[n].status = "erased"
    BY <1>1 DEF delete_node, Live, StoreInv, StoreTypeOK, NodeRec
  <2> QED
    BY <2>1 DEF StoreInv, StoreTypeOK, ErasureIsComplete, LocationIsCoherent, Live,
                storeVars, contributor_of
<1>2. CASE Live(n)
  <2>1. /\ nodes' = [nodes EXCEPT ![n].status = "erased"]
        /\ tokens' = tokens \ {n}
        /\ node_private' = [node_private EXCEPT ![n] = None]
        /\ tombstones' = tombstones \cup {n}
    BY <1>2 DEF delete_node
  <2>2. nodes'[n] \in NodeRec /\ nodes'[n].status = "erased"
    BY <2>1 DEF StoreInv, StoreTypeOK, NodeRec
  <2>3. \A m \in Nodes \ {n} : nodes'[m] = nodes[m] /\ node_private'[m] = node_private[m]
    BY <2>1 DEF StoreInv, StoreTypeOK
  <2>4. StoreTypeOK'
    BY <2>1, <2>2 DEF StoreInv, StoreTypeOK
  <2>5. ErasureIsComplete'
    BY <2>1, <2>2, <2>3 DEF StoreInv, StoreTypeOK, ErasureIsComplete, Live
  <2>6. LocationIsCoherent'
    BY <2>2, <2>3 DEF StoreInv, StoreTypeOK, LocationIsCoherent, Live
  <2> QED
    BY <2>2, <2>3, <2>4, <2>5, <2>6 DEF StoreInv, contributor_of
<1> QED
  BY <1>1, <1>2

--------------------------------------------------------------------------------
(* The threads.                                                            *)

\* Where a thread has the record that get_node returned, and where its
\* credentials have been checked.
Granted == {"consent_filter", "update_consent", "delete_node", "filter_new"}
Checked == {"get_token_hash", "get_contributor_ref"} \cup Granted
OnNode == {"get_node"} \cup Checked

\* The credentials that were checked are still those of the node's owner.
Authority(t) ==
    \/ req[t].token = req[t].node
    \/ /\ req[t].internal
       /\ Live(req[t].node) => req[t].account = contributor_of(req[t].node)

\* What thread t may rely on between its steps.
ThreadOK(t) ==
    /\ pc[t] = "idle" <=> req[t] = None
    /\ pc[t] = "create_node" => req[t].op = "register"
    /\ pc[t] \in OnNode => /\ req[t].op # "register"
                           /\ Live(req[t].node) => nodes[req[t].node] \in inForce[t]
                           /\ req[t].op \in {"admin_patch", "admin_delete"} => req[t].internal
    /\ pc[t] = "get_contributor_ref" => req[t].internal
    /\ pc[t] \in Checked => /\ nodes[req[t].node].status # "absent"
                            /\ node[t] \in inForce[t]
    /\ pc[t] \in Granted => Authority(t)
    /\ todo[t] \cup unique[t] \subseteq IF pc[t] = "filter_new" THEN accepted(t) ELSE {}

\* The invariant that makes the five properties provable: the two about the
\* store alone, and what every thread relies on.
IInv == TypeOK /\ ErasureIsComplete /\ LocationIsCoherent /\ (\A t \in Threads : ThreadOK(t))

\* What any step may do to the store as far as the threads care: nodes do not
\* disappear, are not revived, and keep their owner.
StoreStep ==
    \A m \in Nodes : nodes[m].status # "absent" =>
        /\ nodes'[m].status # "absent"
        /\ nodes'[m].status = "live" => Live(m) /\ contributor_of(m)' = contributor_of(m)

\* A request on a node names one, and its body is well formed.
LEMMA RequestFacts ==
    ASSUME NEW q \in Requests
    PROVE  /\ q.op # "register" => q.node \in Nodes
           /\ q.op = "register" => q.channels \in SUBSET Channels /\ q.loc \in LocBody
           /\ q.channels \in {None} \cup SUBSET Channels /\ q.loc \in {None} \cup LocBody
           /\ q.account \in Accounts \cup {None} /\ q.rows \in SUBSET RowBody
           /\ q # None
<1>1. q \in RequestType
  BY RequestsAssumption
<1> QED
  BY <1>1, RequestsAssumption DEF RequestType

\* Rows accepted for staging are well formed and were allowed by the record
\* the thread holds.
LEMMA AcceptedRows ==
    ASSUME IInv, NEW t \in Threads, pc[t] \in Checked
    PROVE  \A r \in accepted(t) :
             /\ r \in Row /\ r.node = req[t].node
             /\ r.channels \subseteq node[t].channels
             /\ r.loc_tier = node[t].loc_tier /\ r.loc_ref = node[t].loc_ref
<1>1. req[t] \in Requests /\ req[t].op # "register" /\ node[t] \in NodeRec
  BY DEF IInv, ThreadOK, TypeOK, ThreadTypeOK, Checked, Granted, OnNode
<1>2. req[t].node \in Nodes /\ req[t].rows \in SUBSET RowBody
  BY <1>1, RequestFacts
<1>3. \A b \in req[t].rows : project(t, b) \in Row
  BY <1>1, <1>2 DEF project, Row, RowBody, NodeRec
<1> QED
  BY <1>3 DEF accepted, project

\* A step of another thread leaves thread u with what it relies on.
LEMMA Bystander ==
    ASSUME IInv, StoreStep, NEW u \in Threads,
           pc'[u] = pc[u], req'[u] = req[u], node'[u] = node[u],
           todo'[u] = todo[u], unique'[u] = unique[u],
           inForce[u] \subseteq inForce'[u],
           pc[u] \in OnNode /\ nodes'[req[u].node].status = "live"
              => nodes'[req[u].node] \in inForce'[u]
    PROVE  ThreadOK(u)'
<1>1. ThreadOK(u)
  BY DEF IInv
<1>2. accepted(u)' = accepted(u)
  BY DEF accepted, project
<1>3. pc[u] \in OnNode => req[u] # None /\ req[u].node \in Nodes
  BY <1>1, RequestFacts DEF IInv, TypeOK, ThreadTypeOK, ThreadOK, OnNode, Checked, Granted
<1>4. pc[u] \in Granted => Authority(u)'
  BY <1>1, <1>3 DEF ThreadOK, Authority, StoreStep, Live, Granted, Checked, OnNode
<1> QED
  BY <1>1, <1>2, <1>3, <1>4 DEF ThreadOK, StoreStep, Live, Granted, Checked, OnNode

\* A thread that answers, whatever its step did to the store.
LEMMA AnswerKeepsThreads ==
    ASSUME IInv, StoreTypeOK', StoreStep, NEW t \in Threads, Leave(t), Witness(t)
    PROVE  ThreadTypeOK' /\ \A u \in Threads : ThreadOK(u)'
<1>1. ThreadTypeOK'
  BY DEF IInv, TypeOK, ThreadTypeOK, StoreTypeOK, Leave, Witness, Labels, Kinds
<1>2. ThreadOK(t)'
  BY DEF IInv, TypeOK, ThreadTypeOK, Leave, ThreadOK, OnNode, Checked, Granted
<1>3. ASSUME NEW u \in Threads, u # t
      PROVE  ThreadOK(u)'
  <2>1. /\ pc'[u] = pc[u] /\ req'[u] = req[u] /\ node'[u] = node[u]
        /\ todo'[u] = todo[u] /\ unique'[u] = unique[u]
    BY <1>3 DEF IInv, TypeOK, ThreadTypeOK, Leave
  <2>2. inForce'[u] = inForce[u] \cup {nodes'[n] : n \in {m \in Nodes :
                 req[u] # None /\ req[u].node = m /\ nodes'[m].status = "live"}}
    BY <1>3 DEF Witness
  <2>3. pc[u] \in OnNode => req[u] # None /\ req[u].node \in Nodes
    BY RequestFacts DEF IInv, TypeOK, ThreadTypeOK, ThreadOK, OnNode, Checked, Granted
  <2> QED
    BY <2>1, <2>2, <2>3, Bystander
<1> QED
  BY <1>1, <1>2, <1>3

--------------------------------------------------------------------------------
(* The steps.                                                              *)

\* A step that leaves the store alone.
LEMMA QuietStore ==
    ASSUME IInv, UNCHANGED storeVars
    PROVE  StoreInv' /\ StoreStep
BY DEF IInv, TypeOK, StoreInv, StoreTypeOK, ErasureIsComplete, LocationIsCoherent, Live,
       storeVars, StoreStep, contributor_of

\* A step of thread t that leaves the store and the other threads alone.
LEMMA QuietStep ==
    ASSUME IInv, NEW t \in Threads, UNCHANGED storeVars, ThreadTypeOK', ThreadOK(t)',
           \A u \in Threads \ {t} :
              /\ pc'[u] = pc[u] /\ req'[u] = req[u] /\ node'[u] = node[u]
              /\ todo'[u] = todo[u] /\ unique'[u] = unique[u] /\ inForce'[u] = inForce[u]
    PROVE  StoreInv' /\ ThreadTypeOK' /\ \A u \in Threads : ThreadOK(u)'
<1>1. StoreInv' /\ StoreStep
  BY QuietStore
<1>2. ASSUME NEW u \in Threads, u # t
      PROVE  ThreadOK(u)'
  <2>1. ThreadOK(u)
    BY DEF IInv
  <2>2. pc[u] \in OnNode /\ nodes'[req[u].node].status = "live"
          => nodes'[req[u].node] \in inForce'[u]
    BY <1>2, <2>1 DEF ThreadOK, Live, storeVars
  <2> QED
    BY <1>1, <1>2, <2>2, Bystander
<1> QED
  BY <1>1, <1>2

\* A request arrives.
LEMMA BeginStep ==
    ASSUME IInv, NEW t \in Threads, begin(t)
    PROVE  IInv'
<1>1. PICK q \in Requests :
         /\ q.op \in {"admin_patch", "admin_delete"} => q.internal
         /\ req' = [req EXCEPT ![t] = q]
         /\ inForce' = [inForce EXCEPT ![t] =
                          {nodes[n] : n \in {m \in Nodes : m = q.node /\ Live(m)}}]
         /\ pc' = [pc EXCEPT ![t] = IF q.op = "register" THEN "create_node" ELSE "get_node"]
  BY DEF begin, Goto
<1>2. /\ pc[t] = "idle"
      /\ UNCHANGED <<storeVars, stagingVars, node, kind, todo, unique, acked, faults>>
  BY DEF begin
<1>3. ThreadTypeOK'
  BY <1>1, <1>2 DEF IInv, TypeOK, StoreTypeOK, ThreadTypeOK, Labels
<1>4. ThreadOK(t)'
  <2>1. todo[t] = {} /\ unique[t] = {}
    BY <1>2 DEF IInv, ThreadOK
  <2>2. pc'[t] = IF q.op = "register" THEN "create_node" ELSE "get_node"
    BY <1>1 DEF IInv, TypeOK, ThreadTypeOK
  <2>3. req'[t] = q /\ q # None
    BY <1>1, RequestFacts DEF IInv, TypeOK, ThreadTypeOK
  <2>4. q.op # "register" /\ Live(q.node) => nodes[q.node] \in inForce'[t]
    BY <1>1, RequestFacts DEF IInv, TypeOK, ThreadTypeOK
  <2> QED
    BY <1>1, <1>2, <2>1, <2>2, <2>3, <2>4
    DEF ThreadOK, OnNode, Checked, Granted, Live, storeVars
<1>5. StoreInv' /\ \A u \in Threads : ThreadOK(u)'
  BY <1>1, <1>2, <1>3, <1>4, QuietStep DEF IInv, TypeOK, ThreadTypeOK
<1> QED
  BY <1>2, <1>3, <1>5 DEF IInv, TypeOK, StagingTypeOK, stagingVars, StoreInv

\* A thread that answers in a step that touches neither store nor staging.
LEMMA RefusalStep ==
    ASSUME IInv, NEW t \in Threads, Answer(t), UNCHANGED <<storeVars, stagingVars>>
    PROVE  IInv'
<1>1. StoreInv' /\ StoreStep
  BY QuietStore
<1>2. ThreadTypeOK' /\ \A u \in Threads : ThreadOK(u)'
  BY <1>1, AnswerKeepsThreads DEF Answer, StoreInv
<1> QED
  BY <1>1, <1>2 DEF IInv, TypeOK, StagingTypeOK, stagingVars, StoreInv, Answer

\* get_node: the record the thread keeps is in force now.
LEMMA GetNodeStep ==
    ASSUME IInv, NEW t \in Threads, get_node(t)
    PROVE  IInv'
<1>1. CASE ~Live(req[t].node)
  BY <1>1, RefusalStep DEF get_node
<1>2. CASE Live(req[t].node)
  <2> DEFINE next == IF req[t].op \in {"admin_patch", "admin_delete"}
                     THEN "get_contributor_ref" ELSE "get_token_hash"
  <2>1. /\ pc[t] = "get_node" /\ UNCHANGED <<storeVars, stagingVars>>
        /\ node' = [node EXCEPT ![t] = nodes[req[t].node]]
        /\ pc' = [pc EXCEPT ![t] = next]
        /\ UNCHANGED <<req, kind, todo, unique, inForce, acked, faults>>
    BY <1>2 DEF get_node, Goto
  <2>2. req[t] \in Requests /\ req[t].node \in Nodes /\ ThreadOK(t)
    BY <2>1, RequestFacts
    DEF IInv, TypeOK, ThreadTypeOK, ThreadOK, OnNode, Checked, Granted
  <2>3. ThreadTypeOK'
    BY <2>1, <2>2 DEF IInv, TypeOK, StoreTypeOK, ThreadTypeOK, Labels
  <2>4. ThreadOK(t)'
    <3>1. pc'[t] = next /\ node'[t] = nodes[req[t].node]
      BY <2>1 DEF IInv, TypeOK, ThreadTypeOK
    <3> QED
      BY <1>2, <2>1, <2>2, <3>1
      DEF ThreadOK, OnNode, Checked, Granted, Live, storeVars
  <2>5. StoreInv' /\ \A u \in Threads : ThreadOK(u)'
    BY <2>1, <2>3, <2>4, QuietStep DEF IInv, TypeOK, ThreadTypeOK
  <2> QED
    BY <2>1, <2>3, <2>5 DEF IInv, TypeOK, StagingTypeOK, stagingVars, StoreInv
<1> QED
  BY <1>1, <1>2 DEF get_node

\* A check of credentials that passes records who may act.
LEMMA AuthorisedStep ==
    ASSUME IInv, NEW t \in Threads, NEW ok \in BOOLEAN, Authorised(t, ok),
           pc[t] \in {"get_token_hash", "get_contributor_ref"},
           ok => Authority(t)
    PROVE  IInv'
<1>1. CASE ~ok
  BY <1>1, RefusalStep DEF Authorised
<1>2. CASE ok
  <2>1. /\ UNCHANGED <<storeVars, stagingVars>>
        /\ pc' = [pc EXCEPT ![t] = AfterAuth(req[t].op)]
        /\ UNCHANGED <<req, node, kind, todo, unique, inForce, acked, faults>>
    BY <1>2 DEF Authorised, Goto
  <2>2. req[t] \in Requests /\ req[t].op # "register" /\ ThreadOK(t)
    BY DEF IInv, TypeOK, ThreadTypeOK, ThreadOK, OnNode, Checked, Granted
  <2>3. AfterAuth(req[t].op) \in {"consent_filter", "update_consent", "delete_node"}
    <3>1. req[t].op \in {"samples", "patch", "delete", "admin_patch", "admin_delete"}
      BY <2>2, RequestsAssumption DEF RequestType
    <3> QED
      BY <3>1 DEF AfterAuth
  <2>4. ThreadTypeOK'
    BY <2>1, <2>3 DEF IInv, TypeOK, ThreadTypeOK, Labels
  <2>5. ThreadOK(t)'
    <3>1. pc'[t] = AfterAuth(req[t].op)
      BY <2>1 DEF IInv, TypeOK, ThreadTypeOK
    <3>2. Authority(t)'
      BY <1>2, <2>1 DEF Authority, Live, storeVars, contributor_of
    <3> QED
      BY <2>1, <2>2, <2>3, <3>1, <3>2
      DEF ThreadOK, OnNode, Checked, Granted, Live, storeVars
  <2>6. StoreInv' /\ \A u \in Threads : ThreadOK(u)'
    BY <2>1, <2>4, <2>5, QuietStep DEF IInv, TypeOK, ThreadTypeOK
  <2> QED
    BY <2>1, <2>4, <2>6 DEF IInv, TypeOK, StagingTypeOK, stagingVars, StoreInv
<1> QED
  BY <1>1, <1>2 DEF Authorised

--------------------------------------------------------------------------------
\* An answer that comes with a change of the store.
LEMMA StoreChangeStep ==
    ASSUME IInv, NEW t \in Threads, StoreInv', StoreStep, Answer(t), UNCHANGED stagingVars
    PROVE  IInv'
<1>1. ThreadTypeOK' /\ \A u \in Threads : ThreadOK(u)'
  BY AnswerKeepsThreads DEF Answer, StoreInv
<1> QED
  BY <1>1 DEF IInv, TypeOK, StagingTypeOK, stagingVars, StoreInv, Answer

\* register: a fresh node, or a refusal.
LEMMA RegisterStep ==
    ASSUME IInv, NEW t \in Threads, register(t)
    PROVE  IInv' /\ StoreStep
<1> DEFINE q == req[t]
           refused == location_incomplete(q.loc) \/ (q.account # None /\ ~q.internal)
<1>1. q \in Requests /\ q.op = "register"
  BY DEF register, IInv, TypeOK, ThreadTypeOK, ThreadOK
<1>2. Answer(t) /\ UNCHANGED stagingVars
  BY DEF register
<1>3. CASE refused
  BY <1>2, <1>3, RefusalStep, QuietStore DEF register
<1>4. CASE ~refused
  <2>1. PICK n \in Nodes : create_node(n, q.channels, q.loc, q.account)
    BY <1>4 DEF register
  <2>2. StoreInv'
    BY <1>1, <1>4, <2>1, RequestFacts, CreateKeepsStore DEF IInv, TypeOK, StoreInv
  <2>3. StoreStep
    BY <2>1 DEF create_node, IInv, TypeOK, StoreTypeOK, StoreStep, Live, contributor_of
  <2> QED
    BY <1>2, <2>2, <2>3, StoreChangeStep
<1> QED
  BY <1>3, <1>4

\* What a thread about to write to the store knows.
LEMMA WriterFacts ==
    ASSUME IInv, NEW t \in Threads, pc[t] \in {"update_consent", "delete_node"}
    PROVE  /\ req[t] \in Requests /\ req[t].node \in Nodes
           /\ nodes[req[t].node].status # "absent" /\ Authority(t)
BY RequestFacts DEF IInv, TypeOK, ThreadTypeOK, ThreadOK, OnNode, Checked, Granted

\* update_node, by either route: the three shapes of a body.
LEMMA UpdateStep ==
    ASSUME IInv, NEW t \in Threads, update_node(t)
    PROVE  /\ IInv' /\ StoreStep
           /\ \A n \in Nodes \ {req[t].node} : nodes'[n] = nodes[n]
<1> DEFINE q == req[t]
<1>1. /\ q \in Requests /\ q.node \in Nodes /\ nodes[q.node].status # "absent"
      /\ Answer(t) /\ UNCHANGED stagingVars
  BY WriterFacts DEF update_node
<1>2. q.channels \in {None} \cup SUBSET Channels /\ q.loc \in {None} \cup LocBody
  BY <1>1, RequestFacts
<1>3. CASE q.loc # None /\ location_incomplete(q.loc)
  BY <1>1, <1>3, RefusalStep, QuietStore DEF update_node, storeVars
<1>4. CASE q.loc # None /\ ~location_incomplete(q.loc)
  <2>1. update_consent(q.node, q.channels, q.loc.tier, resolved_loc_ref(q.loc),
                       stored_postcode(q.loc))
    BY <1>4 DEF update_node
  <2>2. q.loc.tier \in LocTier
    BY <1>2, <1>4 DEF LocBody
  <2>3. /\ StoreInv' /\ nodes'[q.node].status = nodes[q.node].status
        /\ \A m \in Nodes \ {q.node} : nodes'[m] = nodes[m]
        /\ \A m \in Nodes : Live(m) => contributor_of(m)' = contributor_of(m)
    BY <1>1, <1>2, <1>4, <2>1, <2>2, LocationResolves, UpdateKeepsStore
    DEF IInv, TypeOK, StoreInv
  <2>4. StoreStep
    BY <2>3 DEF StoreStep, Live
  <2> QED
    BY <1>1, <2>3, <2>4, StoreChangeStep
<1>5. CASE q.loc = None
  <2>1. update_consent(q.node, q.channels, None, node[t].loc_ref, None)
    BY <1>5 DEF update_node
  <2>2. /\ StoreInv' /\ nodes'[q.node].status = nodes[q.node].status
        /\ \A m \in Nodes \ {q.node} : nodes'[m] = nodes[m]
        /\ \A m \in Nodes : Live(m) => contributor_of(m)' = contributor_of(m)
    BY <1>1, <1>2, <2>1, UpdateKeepsStore DEF IInv, TypeOK, StoreInv
  <2>3. StoreStep
    BY <2>2 DEF StoreStep, Live
  <2> QED
    BY <1>1, <2>2, <2>3, StoreChangeStep
<1> QED
  BY <1>3, <1>4, <1>5

\* erase_node, by either route.
LEMMA EraseStep ==
    ASSUME IInv, NEW t \in Threads, erase_node(t)
    PROVE  /\ IInv' /\ StoreStep
           /\ \A n \in Nodes \ {req[t].node} : nodes'[n] = nodes[n]
<1> DEFINE n == req[t].node
<1>1. /\ n \in Nodes /\ nodes[n].status # "absent" /\ delete_node(n)
      /\ Answer(t) /\ UNCHANGED stagingVars
  BY WriterFacts DEF erase_node
<1>2. /\ StoreInv' /\ nodes'[n].status = "erased"
      /\ \A m \in Nodes \ {n} : nodes'[m] = nodes[m] /\ contributor_of(m)' = contributor_of(m)
  BY <1>1, DeleteKeepsStore DEF IInv, TypeOK, StoreInv
<1>3. StoreStep
  BY <1>2 DEF StoreStep, Live
<1> QED
  BY <1>1, <1>2, <1>3, StoreChangeStep

--------------------------------------------------------------------------------
\* The consent filter lets rows through or the limiter refuses the batch.
LEMMA FilterStep ==
    ASSUME IInv, NEW t \in Threads, consent_filter(t)
    PROVE  IInv'
<1>1. CASE Answer(t)
  BY <1>1, RefusalStep DEF consent_filter
<1>2. ASSUME pc' = [pc EXCEPT ![t] = "filter_new"],
             todo' = [todo EXCEPT ![t] = of_kind("electrical", accepted(t))],
             UNCHANGED <<req, node, kind, unique, inForce, acked, faults>>
      PROVE  IInv'
  <2>1. pc[t] = "consent_filter" /\ UNCHANGED <<storeVars, stagingVars>>
    BY DEF consent_filter
  <2>2. of_kind("electrical", accepted(t)) \subseteq accepted(t)
    BY DEF of_kind
  <2>3. accepted(t) \in SUBSET Row
    BY <2>1, AcceptedRows DEF Checked, Granted
  <2>4. ThreadTypeOK'
    BY <1>2, <2>2, <2>3 DEF IInv, TypeOK, ThreadTypeOK, Labels
  <2>5. ThreadOK(t)'
    <3>1. pc'[t] = "filter_new" /\ todo'[t] \subseteq accepted(t) /\ unique'[t] = {}
      BY <1>2, <2>1, <2>2 DEF IInv, TypeOK, ThreadTypeOK, ThreadOK
    <3>2. accepted(t)' = accepted(t)
      BY <1>2 DEF accepted, project
    <3>3. Authority(t)'
      BY <1>2, <2>1 DEF IInv, ThreadOK, Authority, Live, storeVars, contributor_of, Granted
    <3> QED
      BY <1>2, <2>1, <3>1, <3>2, <3>3
      DEF IInv, ThreadOK, OnNode, Checked, Granted, Live, storeVars
  <2>6. StoreInv' /\ \A u \in Threads : ThreadOK(u)'
    BY <1>2, <2>1, <2>4, <2>5, QuietStep DEF IInv, TypeOK, ThreadTypeOK
  <2> QED
    BY <1>2, <2>1, <2>4, <2>6 DEF IInv, TypeOK, StagingTypeOK, stagingVars, StoreInv
<1> QED
  BY <1>1, <1>2 DEF consent_filter, Goto

\* The window keeps its size and its type.
LEMMA RememberKeepsWindow ==
    ASSUME StagingTypeOK, NEW k \in Keys, remember(k)
    PROVE  seen' \in Seq(Keys) /\ Len(seen') <= MaxSize /\ forgotten' \in SUBSET Keys
<1> DEFINE longer == Append(seen, k)
<1>1. longer \in Seq(Keys) /\ Len(longer) = Len(seen) + 1 /\ longer # <<>>
  BY DEF StagingTypeOK
<1>2. CASE Len(longer) > MaxSize
  <2>1. Tail(longer) \in Seq(Keys) /\ Len(Tail(longer)) = Len(seen) /\ Head(longer) \in Keys
    BY <1>1
  <2> QED
    BY <1>2, <2>1 DEF remember, StagingTypeOK
<1>3. CASE ~(Len(longer) > MaxSize)
  BY <1>1, <1>3, StagingAssumption DEF remember, StagingTypeOK
<1> QED
  BY <1>2, <1>3

\* One row goes through the deduper.
LEMMA DedupeStep ==
    ASSUME IInv, NEW t \in Threads, filter_new(t)
    PROVE  IInv'
<1>1. PICK r \in todo[t] :
         /\ filter_row(t, r, todo[t] = {r})
         /\ todo' = [todo EXCEPT ![t] = @ \ {r}]
         /\ unique' = [unique EXCEPT ![t] = IF Key(r) \in Window THEN @ ELSE @ \cup {r}]
  BY DEF filter_new
<1>2. /\ pc[t] = "filter_new"
      /\ UNCHANGED <<storeVars, pc, req, node, kind, inForce, acked, faults>>
  BY DEF filter_new
<1>3. r \in Row /\ r \in accepted(t) /\ Key(r) \in Keys
  BY <1>2 DEF IInv, TypeOK, ThreadTypeOK, ThreadOK, Row, Key, Keys
<1>4. StagingTypeOK'
  BY <1>1, <1>3, RememberKeepsWindow DEF filter_row, IInv, TypeOK, StagingTypeOK
<1>5. ThreadTypeOK'
  BY <1>1, <1>2, <1>3 DEF IInv, TypeOK, ThreadTypeOK
<1>6. ThreadOK(t)'
  <2>1. todo'[t] \subseteq todo[t] /\ unique'[t] \subseteq unique[t] \cup {r}
    BY <1>1 DEF IInv, TypeOK, ThreadTypeOK
  <2>2. accepted(t)' = accepted(t)
    BY <1>2 DEF accepted, project
  <2>3. Authority(t)'
    BY <1>2 DEF IInv, ThreadOK, Authority, Live, storeVars, contributor_of, Granted
  <2> QED
    BY <1>2, <1>3, <2>1, <2>2, <2>3
    DEF IInv, ThreadOK, OnNode, Checked, Granted, Live, storeVars
<1>7. StoreInv' /\ \A u \in Threads : ThreadOK(u)'
  BY <1>1, <1>2, <1>5, <1>6, QuietStep DEF IInv, TypeOK, ThreadTypeOK
<1> QED
  BY <1>2, <1>4, <1>5, <1>7 DEF IInv, TypeOK, StoreInv

\* The rows a thread is about to write are rows its request may stage.
LEMMA UniqueIsAccepted ==
    ASSUME IInv, NEW t \in Threads, pc[t] = "filter_new"
    PROVE  /\ unique[t] \subseteq accepted(t) /\ accepted(t) \in SUBSET Row
           /\ {Key(r) : r \in accepted(t)} \in SUBSET Keys
<1>1. unique[t] \subseteq accepted(t) /\ accepted(t) \in SUBSET Row
  BY AcceptedRows DEF IInv, ThreadOK, Checked, Granted
<1> QED
  BY <1>1 DEF Key, Keys, Row

\* Rows reach the disk; the thread turns to the weather rows or answers.
LEMMA AppendStep ==
    ASSUME IInv, NEW t \in Threads, append(t)
    PROVE  IInv'
<1>1. /\ pc[t] = "filter_new" /\ append_rows(unique[t]) /\ UNCHANGED <<storeVars, faults>>
  BY DEF append
<1>2. StagingTypeOK'
  BY <1>1, UniqueIsAccepted DEF append_rows, IInv, TypeOK, StagingTypeOK
<1>3. CASE kind[t] = "weather"
  <2>1. acked' = acked \cup {Key(r) : r \in accepted(t)} /\ Leave(t) /\ Witness(t)
    BY <1>3 DEF append
  <2>2. StoreInv' /\ StoreStep
    BY <1>1, QuietStore
  <2>3. ThreadTypeOK' /\ \A u \in Threads : ThreadOK(u)'
    BY <2>1, <2>2, AnswerKeepsThreads DEF StoreInv
  <2> QED
    BY <1>1, <1>2, <2>1, <2>2, <2>3, UniqueIsAccepted DEF IInv, TypeOK, StoreInv
<1>4. CASE kind[t] = "electrical"
  <2>1. /\ kind' = [kind EXCEPT ![t] = "weather"]
        /\ todo' = [todo EXCEPT ![t] = of_kind("weather", accepted(t))]
        /\ unique' = [unique EXCEPT ![t] = {}]
        /\ UNCHANGED <<pc, req, node, inForce, acked>>
    BY <1>4 DEF append
  <2>2. of_kind("weather", accepted(t)) \subseteq accepted(t) /\ accepted(t) \in SUBSET Row
    BY <1>1, UniqueIsAccepted DEF of_kind
  <2>3. ThreadTypeOK'
    BY <2>1, <2>2 DEF IInv, TypeOK, ThreadTypeOK, Kinds
  <2>4. ThreadOK(t)'
    <3>1. todo'[t] \subseteq accepted(t) /\ unique'[t] = {}
      BY <2>1, <2>2 DEF IInv, TypeOK, ThreadTypeOK
    <3>2. accepted(t)' = accepted(t)
      BY <2>1 DEF accepted, project
    <3>3. Authority(t)'
      BY <1>1, <2>1 DEF IInv, ThreadOK, Authority, Live, storeVars, contributor_of, Granted
    <3> QED
      BY <1>1, <2>1, <3>1, <3>2, <3>3
      DEF IInv, ThreadOK, OnNode, Checked, Granted, Live, storeVars
  <2>5. StoreInv' /\ \A u \in Threads : ThreadOK(u)'
    BY <1>1, <2>1, <2>3, <2>4, QuietStep DEF IInv, TypeOK, ThreadTypeOK
  <2> QED
    BY <1>1, <1>2, <2>1, <2>3, <2>5 DEF IInv, TypeOK, StoreInv
<1> QED
  BY <1>3, <1>4 DEF IInv, TypeOK, ThreadTypeOK, Kinds

\* A failing write leaves part of the rows and an unanswered client.
LEMMA AppendFailsStep ==
    ASSUME IInv, NEW t \in Threads, append_fails(t)
    PROVE  IInv'
<1>1. /\ pc[t] = "filter_new" /\ faults < MaxFaults /\ faults' = faults + 1
      /\ UNCHANGED <<storeVars, acked>> /\ Leave(t) /\ Witness(t)
  BY DEF append_fails
<1>2. PICK written \in SUBSET unique[t] : append_rows(written)
  BY DEF append_fails
<1>3. StagingTypeOK'
  BY <1>1, <1>2, UniqueIsAccepted DEF append_rows, IInv, TypeOK, StagingTypeOK
<1>4. StoreInv' /\ StoreStep
  BY <1>1, QuietStore
<1>5. ThreadTypeOK' /\ \A u \in Threads : ThreadOK(u)'
  BY <1>1, <1>4, AnswerKeepsThreads DEF StoreInv
<1>6. faults' \in 0..MaxFaults
  BY <1>1, BoundsAssumption DEF IInv, TypeOK
<1> QED
  BY <1>1, <1>3, <1>4, <1>5, <1>6 DEF IInv, TypeOK, StoreInv

\* A restart forgets every request.
LEMMA RestartStep ==
    ASSUME IInv, restart
    PROVE  IInv'
<1>1. StoreInv'
  BY QuietStore DEF restart
<1>2. ThreadTypeOK'
  BY DEF restart, ThreadTypeOK, Labels, Kinds
<1>3. \A t \in Threads : ThreadOK(t)'
  BY DEF restart, ThreadOK, OnNode, Checked, Granted
<1>4. StagingTypeOK'
  BY StagingAssumption DEF restart, lose_window, Window, IInv, TypeOK, StagingTypeOK
<1>5. faults' \in 0..MaxFaults
  BY BoundsAssumption DEF restart, IInv, TypeOK
<1> QED
  BY <1>1, <1>2, <1>3, <1>4, <1>5 DEF IInv, TypeOK, StoreInv, restart

--------------------------------------------------------------------------------
(* The theorems.                                                           *)

LEMMA InitEstablishes == Init => IInv
<1> SUFFICES ASSUME Init PROVE IInv
  OBVIOUS
<1>1. StoreTypeOK /\ ErasureIsComplete /\ LocationIsCoherent
  BY DEF Init, StoreInit, StoreTypeOK, NodeRec, LocTier, ErasureIsComplete,
         LocationIsCoherent, Live
<1>2. StagingTypeOK
  BY StagingAssumption DEF Init, StagingInit, StagingTypeOK
<1>3. ThreadTypeOK /\ acked \in SUBSET Keys /\ faults \in 0..MaxFaults
  BY BoundsAssumption DEF Init, ThreadTypeOK, Labels, Kinds
<1>4. \A t \in Threads : ThreadOK(t)
  BY DEF Init, ThreadOK, OnNode, Checked, Granted
<1> QED
  BY <1>1, <1>2, <1>3, <1>4 DEF IInv, TypeOK

LEMMA StepPreserves == IInv /\ [Next]_vars => IInv'
<1> SUFFICES ASSUME IInv, [Next]_vars PROVE IInv'
  OBVIOUS
<1>1. ASSUME NEW t \in Threads, begin(t) PROVE IInv'
  BY <1>1, BeginStep
<1>2. ASSUME NEW t \in Threads, get_node(t) PROVE IInv'
  BY <1>2, GetNodeStep
<1>3. ASSUME NEW t \in Threads, get_token_hash(t) PROVE IInv'
  <2> DEFINE ok == req[t].node \in tokens /\ req[t].token = req[t].node
  <2>1. ok \in BOOLEAN /\ Authorised(t, ok) /\ (ok => Authority(t))
    BY <1>3 DEF get_token_hash, Authority
  <2> HIDE DEF ok
  <2> QED
    BY <1>3, <2>1, AuthorisedStep DEF get_token_hash
<1>4. ASSUME NEW t \in Threads, get_contributor_ref(t) PROVE IInv'
  <2> DEFINE ok == contributor_of(req[t].node) = req[t].account
  <2>1. ok \in BOOLEAN /\ Authorised(t, ok) /\ (ok => Authority(t))
    BY <1>4 DEF get_contributor_ref, Authority, IInv, ThreadOK
  <2> HIDE DEF ok
  <2> QED
    BY <1>4, <2>1, AuthorisedStep DEF get_contributor_ref
<1>5. ASSUME NEW t \in Threads, register(t) PROVE IInv'
  BY <1>5, RegisterStep
<1>6. ASSUME NEW t \in Threads, update_node(t) PROVE IInv'
  BY <1>6, UpdateStep
<1>7. ASSUME NEW t \in Threads, erase_node(t) PROVE IInv'
  BY <1>7, EraseStep
<1>8. ASSUME NEW t \in Threads, consent_filter(t) PROVE IInv'
  BY <1>8, FilterStep
<1>9. ASSUME NEW t \in Threads, filter_new(t) PROVE IInv'
  BY <1>9, DedupeStep
<1>10. ASSUME NEW t \in Threads, append(t) PROVE IInv'
  BY <1>10, AppendStep
<1>11. ASSUME NEW t \in Threads, append_fails(t) PROVE IInv'
  BY <1>11, AppendFailsStep
<1>12. CASE restart
  BY <1>12, RestartStep
<1>13. CASE UNCHANGED vars
  <2>1. StoreInv'
    BY <1>13, QuietStore DEF vars
  <2>2. \A t \in Threads : ThreadOK(t)'
    BY <1>13 DEF IInv, ThreadOK, Authority, Live, contributor_of, accepted, project,
                 vars, storeVars, threadVars
  <2> QED
    BY <1>13, <2>1, <2>2 DEF IInv, TypeOK, StoreInv, StagingTypeOK, ThreadTypeOK,
                             vars, stagingVars, threadVars
<1> QED
  BY <1>1, <1>2, <1>3, <1>4, <1>5, <1>6, <1>7, <1>8, <1>9, <1>10, <1>11, <1>12, <1>13
  DEF Next, serve

\* The invariant holds for every number of nodes, accounts, threads and
\* requests, every window size and every number of faults.
THEOREM InductiveInvariant == Spec => []IInv
  BY InitEstablishes, StepPreserves, PTL DEF Spec

\* The handlers, the store and the staging writer keep to their types, and
\* Deduper._seen to its maxsize.
THEOREM TypeCorrect == Spec => []TypeOK
  BY InductiveInvariant, PTL DEF IInv

\* Erasure (delete_node) leaves no token and no private data behind, and no
\* PATCH that was in flight brings any back.
THEOREM ErasureComplete == Spec => []ErasureIsComplete
  BY InductiveInvariant, PTL DEF IInv

\* The published location and the stored postcode of a live node belong
\* together, however PATCH requests interleave.
THEOREM LocationCoherent == Spec => []LocationIsCoherent
  BY InductiveInvariant, PTL DEF IInv

\* Only update_node and erase_node change a live node, and only their own.
LEMMA WritersAreOwners == IInv /\ [Next]_vars => OwnerWrites
<1> SUFFICES ASSUME IInv, [Next]_vars, NEW n \in Nodes, Live(n), nodes'[n] # nodes[n]
             PROVE  \E t \in Threads :
                       /\ req[t] # None /\ req[t].node = n
                       /\ \/ req[t].token = n
                          \/ req[t].internal /\ req[t].account = contributor_of(n)
  BY DEF OwnerWrites
<1>1. ASSUME NEW t \in Threads, update_node(t) \/ erase_node(t)
      PROVE  /\ req[t] # None /\ req[t].node = n
             /\ \/ req[t].token = n
                \/ req[t].internal /\ req[t].account = contributor_of(n)
  <2>1. /\ pc[t] \in {"update_consent", "delete_node"}
        /\ \A m \in Nodes \ {req[t].node} : nodes'[m] = nodes[m]
    BY <1>1, UpdateStep, EraseStep DEF update_node, erase_node
  <2>2. req[t].node = n
    BY <2>1
  <2> QED
    BY <2>1, <2>2, WriterFacts, RequestFacts DEF Authority
<1>2. ASSUME NEW t \in Threads, register(t)
      PROVE  FALSE
  BY <1>2 DEF register, create_node, Live, storeVars, IInv, TypeOK, StoreTypeOK
<1>3. ASSUME NEW t \in Threads,
             begin(t) \/ get_node(t) \/ get_token_hash(t) \/ get_contributor_ref(t)
             \/ consent_filter(t) \/ filter_new(t) \/ append(t) \/ append_fails(t)
      PROVE  FALSE
  BY <1>3 DEF begin, get_node, get_token_hash, get_contributor_ref, Authorised,
              consent_filter, filter_new, append, append_fails, storeVars
<1>4. CASE restart \/ UNCHANGED vars
  BY <1>4 DEF restart, vars, storeVars
<1> QED
  BY <1>1, <1>2, <1>3, <1>4 DEF Next, serve

\* Rows reach the disk in append and append_fails, with what the thread read.
LEMMA RowsAreConsented == IInv /\ [Next]_vars => StagesUnderConsent
<1> SUFFICES ASSUME IInv, [Next]_vars, NEW r \in staged' \ staged
             PROVE  \E t \in Threads :
                       /\ req[t] # None /\ req[t].node = r.node
                       /\ \E c \in inForce[t] :
                             /\ r.channels \subseteq c.channels
                             /\ r.loc_tier = c.loc_tier /\ r.loc_ref = c.loc_ref
  BY DEF StagesUnderConsent
<1>1. ASSUME NEW t \in Threads, append(t) \/ append_fails(t)
      PROVE  /\ req[t] # None /\ req[t].node = r.node
             /\ \E c \in inForce[t] : /\ r.channels \subseteq c.channels
                                      /\ r.loc_tier = c.loc_tier /\ r.loc_ref = c.loc_ref
  <2>1. pc[t] = "filter_new" /\ r \in unique[t]
    BY <1>1 DEF append, append_fails, append_rows
  <2>2. r \in accepted(t)
    BY <2>1, UniqueIsAccepted
  <2>3. req[t] # None /\ node[t] \in inForce[t]
    BY <2>1 DEF IInv, ThreadOK, Checked, Granted
  <2> QED
    BY <2>1, <2>2, <2>3, AcceptedRows DEF Checked, Granted
<1>2. ASSUME NEW t \in Threads,
             begin(t) \/ get_node(t) \/ get_token_hash(t) \/ get_contributor_ref(t)
             \/ register(t) \/ update_node(t) \/ erase_node(t)
             \/ consent_filter(t) \/ filter_new(t)
      PROVE  FALSE
  BY <1>2 DEF begin, get_node, get_token_hash, get_contributor_ref, Authorised, register,
              update_node, erase_node, consent_filter, filter_new, filter_row, stagingVars
<1>3. CASE restart \/ UNCHANGED vars
  BY <1>3 DEF restart, lose_window, vars, stagingVars
<1> QED
  BY <1>1, <1>2, <1>3 DEF Next, serve

\* A token only ever acts on its own node and the portal only on the nodes of
\* the account it names, at the moment of the write.
THEOREM OwnersWrite == Spec => OnlyTheOwnerWrites
  BY InductiveInvariant, WritersAreOwners, PTL DEF Spec, OnlyTheOwnerWrites

\* No row is staged with a channel or a location its node had not in force
\* while the request was being served.
THEOREM ConsentRespected == Spec => StagedUnderConsent
  BY InductiveInvariant, RowsAreConsented, PTL DEF Spec, StagedUnderConsent

--------------------------------------------------------------------------------
(* The dedupe window between threads, for a window of any size: no key is  *)
(* written twice while it is remembered, and what was acknowledged is      *)
(* stored, if no write fails.  First the window by itself.                 *)

\* remember takes the key in; what falls out of the window is forgotten.
LEMMA WindowRemembers ==
    ASSUME StagingTypeOK, NEW k \in Keys, remember(k)
    PROVE  /\ Window \cup {k} \subseteq Window' \cup forgotten'
           /\ Window' \subseteq Window \cup {k}
           /\ forgotten \subseteq forgotten'
<1> DEFINE longer == Append(seen, k)
<1>1. seen \in Seq(Keys) /\ Len(seen) \in Nat
  BY LenProperties DEF StagingTypeOK
<1>2. /\ longer \in Seq(Keys) /\ longer # <<>> /\ Len(longer) = Len(seen) + 1
      /\ \A i \in 1..Len(seen) : longer[i] = seen[i]
      /\ longer[Len(seen) + 1] = k
  BY <1>1, AppendProperties
<1>3. {longer[i] : i \in 1..Len(longer)} = Window \cup {k}
  <2> HIDE DEF longer
  <2>1. 1..Len(longer) = 1..Len(seen) \cup {Len(seen) + 1}
    BY <1>1, <1>2
  <2> QED
    BY <1>2, <2>1 DEF Window
<1>4. CASE Len(longer) > MaxSize
  <2>1. seen' = Tail(longer) /\ forgotten' = forgotten \cup {Head(longer)}
    BY <1>4 DEF remember
  <2> HIDE DEF longer
  <2>2. /\ Len(Tail(longer)) = Len(longer) - 1
        /\ \A i \in 1..Len(Tail(longer)) : Tail(longer)[i] = longer[i + 1]
    BY <1>2, HeadTailProperties
  <2>3. Head(longer) = longer[1]
    BY <1>2
  <2>4. ASSUME NEW i \in 1..Len(longer)
        PROVE  longer[i] \in Window' \cup forgotten'
    <3>1. CASE i = 1
      BY <2>1, <2>3, <3>1
    <3>2. CASE i # 1
      <4>1. PICK j \in 1..Len(Tail(longer)) : i = j + 1
        <5>1. i - 1 \in 1..Len(Tail(longer)) /\ i = (i - 1) + 1
          BY <1>1, <1>2, <2>2, <3>2
        <5> QED
          BY <5>1
      <4>2. longer[i] = seen'[j]
        BY <2>1, <2>2, <4>1
      <4>3. j \in 1..Len(seen')
        BY <2>1, <4>1
      <4> QED
        BY <4>2, <4>3 DEF Window
    <3> QED
      BY <3>1, <3>2
  <2>5. ASSUME NEW j \in 1..Len(seen')
        PROVE  seen'[j] \in {longer[i] : i \in 1..Len(longer)}
    <3>1. seen'[j] = longer[j + 1] /\ j + 1 \in 1..Len(longer)
      BY <1>1, <1>2, <2>1, <2>2
    <3> QED
      BY <3>1
  <2>6. Window' \subseteq Window \cup {k}
    BY <1>3, <2>5 DEF Window
  <2> QED
    BY <1>3, <2>1, <2>4, <2>6
<1>5. CASE ~(Len(longer) > MaxSize)
  <2>1. seen' = longer /\ forgotten' = forgotten
    BY <1>5 DEF remember
  <2> HIDE DEF longer
  <2>2. Window' = {longer[i] : i \in 1..Len(longer)}
    BY <2>1 DEF Window
  <2> QED
    BY <1>3, <2>1, <2>2
<1> QED
  BY <1>4, <1>5

--------------------------------------------------------------------------------
(* The invariant.                                                          *)

Stored == StagedKeys \cup InFlight

\* A key on disk, or on its way there, is remembered or was forgotten.
StoredIsKnown == Stored \subseteq Window \cup forgotten

\* The rows of the batch filter_new has been through.
LookedAt(t) == {r \in accepted(t) \ todo[t] : r.kind = "electrical" \/ kind[t] = "weather"}

\* Without faults, what the window knows, what a thread has looked at and what
\* was acknowledged is stored.
KnownIsStored ==
    /\ Window \cup acked \subseteq Stored
    /\ \A t \in Threads : pc[t] = "filter_new" => {Key(r) : r \in LookedAt(t)} \subseteq Stored

\* Only a thread in filter_new comes to the weather rows.
ElectricalFirst == \A t \in Threads : pc[t] # "filter_new" => kind[t] = "electrical"

WindowInv ==
    /\ StoredIsKnown
    /\ NoDoubleStaging
    /\ ElectricalFirst
    /\ faults = 0 => KnownIsStored

--------------------------------------------------------------------------------
(* The steps.                                                              *)

LEMMA RowKeys ==
    ASSUME NEW r \in Row
    PROVE  Key(r) \in Keys
BY DEF Row, Key, Keys

\* The rows of a batch are well formed.
LEMMA BatchRows ==
    ASSUME IInv, NEW t \in Threads, pc[t] = "filter_new"
    PROVE  \A r \in accepted(t) : r \in Row /\ r.kind \in Kinds
BY AcceptedRows DEF Checked, Granted, Row

\* The steps of a thread that has no batch in hand.
OnTheWay(t) ==
    \/ begin(t) \/ get_node(t) \/ get_token_hash(t) \/ get_contributor_ref(t)
    \/ register(t) \/ update_node(t) \/ erase_node(t) \/ consent_filter(t)

\* A check of credentials leads to the operation, not into filter_new.
LEMMA AuthorisedGoes ==
    ASSUME IInv, NEW t \in Threads, NEW ok \in BOOLEAN, Authorised(t, ok),
           pc[t] \in {"get_token_hash", "get_contributor_ref"}
    PROVE  \/ Leave(t)
           \/ /\ pc'[t] # "filter_new"
              /\ \A u \in Threads \ {t} : pc'[u] = pc[u]
              /\ UNCHANGED <<req, node, kind, todo, unique>>
<1>1. req[t] \in Requests /\ req[t].op # "register"
  BY DEF IInv, TypeOK, ThreadTypeOK, ThreadOK, OnNode, Checked, Granted
<1>2. req[t].op \in {"samples", "patch", "delete", "admin_patch", "admin_delete"}
  BY <1>1, RequestsAssumption DEF RequestType
<1>3. AfterAuth(req[t].op) # "filter_new"
  BY <1>2 DEF AfterAuth
<1> QED
  BY <1>3 DEF IInv, TypeOK, ThreadTypeOK, Authorised, Goto, Answer

\* Where such a step may lead: back to the pool, further on, or to the
\* electrical rows of its batch.
LEMMA OnTheWayGoes ==
    ASSUME IInv, NEW t \in Threads, OnTheWay(t)
    PROVE  /\ UNCHANGED <<seen, staged, forgotten, acked, faults>>
           /\ pc[t] # "filter_new"
           /\ \/ Leave(t)
              \/ /\ pc'[t] # "filter_new"
                 /\ \A u \in Threads \ {t} : /\ pc'[u] = pc[u] /\ req'[u] = req[u]
                                             /\ node'[u] = node[u]
                 /\ UNCHANGED <<kind, todo, unique>>
              \/ /\ pc' = [pc EXCEPT ![t] = "filter_new"]
                 /\ todo' = [todo EXCEPT ![t] = of_kind("electrical", accepted(t))]
                 /\ UNCHANGED <<req, node, kind, unique>>
<1> DEFINE Goal == /\ UNCHANGED <<seen, staged, forgotten, acked, faults>>
                   /\ pc[t] # "filter_new"
                   /\ \/ Leave(t)
                      \/ /\ pc'[t] # "filter_new"
                         /\ \A u \in Threads \ {t} : /\ pc'[u] = pc[u] /\ req'[u] = req[u]
                                                     /\ node'[u] = node[u]
                         /\ UNCHANGED <<kind, todo, unique>>
                      \/ /\ pc' = [pc EXCEPT ![t] = "filter_new"]
                         /\ todo' = [todo EXCEPT ![t] = of_kind("electrical", accepted(t))]
                         /\ UNCHANGED <<req, node, kind, unique>>
<1>1. CASE begin(t)
  BY <1>1 DEF begin, Goto, stagingVars, IInv, TypeOK, ThreadTypeOK
<1>2. CASE get_node(t)
  BY <1>2 DEF get_node, Goto, Answer, stagingVars, IInv, TypeOK, ThreadTypeOK
<1>3. CASE get_token_hash(t)
  <2>1. PICK ok \in BOOLEAN : Authorised(t, ok)
    BY <1>3 DEF get_token_hash
  <2>2. UNCHANGED <<seen, staged, forgotten, acked, faults>> /\ pc[t] = "get_token_hash"
    BY <1>3 DEF get_token_hash, Authorised, Answer, stagingVars
  <2> QED
    BY <2>1, <2>2, AuthorisedGoes
<1>4. CASE get_contributor_ref(t)
  <2>1. PICK ok \in BOOLEAN : Authorised(t, ok)
    BY <1>4 DEF get_contributor_ref
  <2>2. UNCHANGED <<seen, staged, forgotten, acked, faults>> /\ pc[t] = "get_contributor_ref"
    BY <1>4 DEF get_contributor_ref, Authorised, Answer, stagingVars
  <2> QED
    BY <2>1, <2>2, AuthorisedGoes
<1>5. CASE register(t) \/ update_node(t) \/ erase_node(t)
  BY <1>5 DEF register, update_node, erase_node, Answer, stagingVars
<1>6. CASE consent_filter(t)
  BY <1>6 DEF consent_filter, Answer, Goto, stagingVars
<1> QED
  BY <1>1, <1>2, <1>3, <1>4, <1>5, <1>6 DEF OnTheWay

\* Such a step leaves the window, the files and the rows in flight alone, and
\* no other thread notices.
LEMMA OnTheWayFacts ==
    ASSUME IInv, ElectricalFirst, NEW t \in Threads, OnTheWay(t)
    PROVE  /\ UNCHANGED <<seen, staged, forgotten, acked, faults, unique, kind>>
           /\ pc[t] # "filter_new"
           /\ pc'[t] = "filter_new" =>
                /\ req'[t] = req[t] /\ node'[t] = node[t]
                /\ todo'[t] = of_kind("electrical", accepted(t))
           /\ \A u \in Threads \ {t} : /\ pc'[u] = pc[u] /\ req'[u] = req[u]
                                       /\ node'[u] = node[u] /\ todo'[u] = todo[u]
<1>1. /\ pc \in [Threads -> Labels] /\ req \in [Threads -> {None} \cup Requests]
      /\ node \in [Threads -> {None} \cup NodeRec] /\ kind \in [Threads -> Kinds]
      /\ todo \in [Threads -> SUBSET Row] /\ unique \in [Threads -> SUBSET Row]
  BY DEF IInv, TypeOK, ThreadTypeOK
<1>2. UNCHANGED <<seen, staged, forgotten, acked, faults>> /\ pc[t] # "filter_new"
  BY OnTheWayGoes
<1>3. unique[t] = {} /\ kind[t] = "electrical"
  BY <1>2 DEF IInv, ThreadOK, ElectricalFirst
<1>4. CASE Leave(t)
  <2>1. unique' = [unique EXCEPT ![t] = unique[t]] /\ kind' = [kind EXCEPT ![t] = kind[t]]
    BY <1>3, <1>4 DEF Leave
  <2>2. unique' = unique /\ kind' = kind
    BY <1>1, <2>1
  <2>3. pc'[t] = "idle"
    BY <1>1, <1>4 DEF Leave
  <2>4. \A u \in Threads \ {t} : /\ pc'[u] = pc[u] /\ req'[u] = req[u]
                                 /\ node'[u] = node[u] /\ todo'[u] = todo[u]
    BY <1>1, <1>4 DEF Leave
  <2> QED
    BY <1>2, <2>2, <2>3, <2>4
<1>5. CASE ~Leave(t)
  BY <1>1, <1>2, <1>5, OnTheWayGoes
<1> QED
  BY <1>4, <1>5

\* On the way to filter_new nothing of the invariant is touched; a batch that
\* gets there has looked at nothing yet.
LEMMA OnTheWayKeepsWindow ==
    ASSUME IInv, WindowInv, NEW t \in Threads, OnTheWay(t)
    PROVE  WindowInv'
<1>1. /\ UNCHANGED <<seen, staged, forgotten, acked, faults, unique, kind>>
      /\ pc[t] # "filter_new"
      /\ pc'[t] = "filter_new" => /\ req'[t] = req[t] /\ node'[t] = node[t]
                                  /\ todo'[t] = of_kind("electrical", accepted(t))
      /\ \A u \in Threads \ {t} : /\ pc'[u] = pc[u] /\ req'[u] = req[u]
                                  /\ node'[u] = node[u] /\ todo'[u] = todo[u]
  BY OnTheWayFacts DEF WindowInv
<1>2. Stored' = Stored /\ Window' = Window /\ StagedKeys' = StagedKeys
  BY <1>1 DEF Stored, StagedKeys, InFlight, Window, Key
<1>3. StoredIsKnown' /\ NoDoubleStaging' /\ ElectricalFirst'
  BY <1>1, <1>2 DEF WindowInv, StoredIsKnown, NoDoubleStaging, ElectricalFirst, Key
<1>4. ASSUME faults' = 0
      PROVE  KnownIsStored'
  <2>1. KnownIsStored
    BY <1>1, <1>4 DEF WindowInv
  <2>2. ASSUME NEW u \in Threads, pc'[u] = "filter_new", NEW r \in LookedAt(u)'
        PROVE  Key(r) \in Stored
    <3>1. CASE u = t
      <4>1. accepted(t)' = accepted(t)
        BY <1>1, <2>2, <3>1 DEF accepted, project
      <4>2. r \in accepted(t) \ todo'[t] /\ kind'[t] = "electrical"
        BY <1>1, <2>2, <3>1, <4>1 DEF LookedAt, WindowInv, ElectricalFirst
      <4>3. r.kind = "electrical"
        BY <2>2, <3>1, <4>2 DEF LookedAt
      <4> QED
        BY <1>1, <2>2, <3>1, <4>2, <4>3 DEF of_kind
    <3>2. CASE u # t
      <4>1. LookedAt(u)' = LookedAt(u)
        BY <1>1, <3>2 DEF LookedAt, accepted, project
      <4> QED
        BY <1>1, <2>1, <2>2, <3>2, <4>1 DEF KnownIsStored
    <3> QED
      BY <3>1, <3>2
  <2> QED
    BY <1>1, <1>2, <2>1, <2>2 DEF KnownIsStored, Key
<1> QED
  BY <1>3, <1>4 DEF WindowInv

\* A row the window does not know is on its way from now on, and no other row
\* with its key is, unless the key was forgotten.
LEMMA FilterNewKeepsWindow ==
    ASSUME IInv, WindowInv, NEW t \in Threads, filter_new(t)
    PROVE  WindowInv'
<1>1. PICK r \in todo[t] :
         /\ filter_row(t, r, todo[t] = {r})
         /\ todo' = [todo EXCEPT ![t] = @ \ {r}]
         /\ unique' = [unique EXCEPT ![t] = IF Key(r) \in Window THEN @ ELSE @ \cup {r}]
  BY DEF filter_new
<1>2. /\ UNCHANGED <<pc, req, node, kind, acked, faults, staged>>
      /\ pc[t] = "filter_new"
  BY <1>1 DEF filter_new, filter_row
<1>3. /\ todo \in [Threads -> SUBSET Row] /\ unique \in [Threads -> SUBSET Row]
      /\ StagingTypeOK /\ r \in Row /\ Key(r) \in Keys
  BY <1>1, RowKeys DEF IInv, TypeOK, ThreadTypeOK
<1>4. /\ Window \cup forgotten \cup {Key(r)} \subseteq Window' \cup forgotten'
      /\ Window' \subseteq Window \cup {Key(r)}
      /\ forgotten \subseteq forgotten'
  <2>1. CASE Key(r) \in Window
    BY <1>1, <2>1 DEF filter_row, Window
  <2>2. CASE Key(r) \notin Window
    <3>1. remember(Key(r))
      BY <1>1, <2>2 DEF filter_row
    <3> QED
      BY <1>3, <3>1, WindowRemembers
  <2> QED
    BY <2>1, <2>2
<1>5. /\ \A u \in Threads \ {t} : unique'[u] = unique[u] /\ todo'[u] = todo[u]
      /\ unique'[t] = IF Key(r) \in Window THEN unique[t] ELSE unique[t] \cup {r}
      /\ todo'[t] = todo[t] \ {r}
  BY <1>1, <1>3
<1>6. StagedKeys' = StagedKeys
  BY <1>2 DEF StagedKeys, Key
<1>7. /\ Stored \subseteq Stored' /\ Stored' \subseteq Stored \cup {Key(r)}
      /\ Key(r) \notin Window => Key(r) \in Stored'
  BY <1>5, <1>6 DEF Stored, InFlight, Key
<1>8. StoredIsKnown'
  BY <1>4, <1>7 DEF WindowInv, StoredIsKnown
<1>9. Key(r) \notin Window \cup forgotten => Key(r) \notin Stored
  BY DEF WindowInv, StoredIsKnown
<1>10. NoDoubleStaging'
  <2> SUFFICES ASSUME NEW u \in Threads, NEW q \in unique'[u], Key(q) \notin forgotten'
               PROVE  /\ Key(q) \notin StagedKeys
                      /\ \A v \in Threads : \A s \in unique'[v] :
                           Key(s) = Key(q) => v = u /\ s = q
    BY <1>6 DEF NoDoubleStaging, Key
  <2>1. Key(q) \notin forgotten
    BY <1>4
  <2>2. CASE unique' = unique
    BY <2>1, <2>2 DEF WindowInv, NoDoubleStaging
  <2>3. CASE Key(r) \notin Window
    <3>1. Key(r) = Key(q) => Key(r) \notin Stored
      BY <1>9, <2>1, <2>3
    <3>2. \A v \in Threads : \A s \in unique[v] : Key(s) \in Stored
      BY DEF Stored, InFlight
    <3>3. \A v \in Threads : \A s \in unique'[v] : s \in unique[v] \/ (v = t /\ s = r)
      BY <1>5
    <3>4. CASE q \in unique[u]
      <4>1. Key(r) # Key(q)
        BY <3>1, <3>2, <3>4
      <4> QED
        BY <2>1, <3>3, <3>4, <4>1 DEF WindowInv, NoDoubleStaging
    <3>5. CASE u = t /\ q = r
      BY <3>1, <3>2, <3>3, <3>5 DEF Stored
    <3> QED
      BY <3>3, <3>4, <3>5
  <2>4. Key(r) \in Window => unique' = unique
    BY <1>1, <1>3
  <2> QED
    BY <2>2, <2>3, <2>4
<1>11. ElectricalFirst'
  BY <1>2 DEF WindowInv, ElectricalFirst
<1>12. ASSUME faults' = 0
       PROVE  KnownIsStored'
  <2>1. KnownIsStored
    BY <1>2, <1>12 DEF WindowInv
  <2>2. Key(r) \in Stored'
    BY <1>7, <2>1 DEF KnownIsStored
  <2>3. Window' \cup acked' \subseteq Stored'
    BY <1>2, <1>4, <1>7, <2>1, <2>2 DEF KnownIsStored
  <2>4. ASSUME NEW u \in Threads, pc'[u] = "filter_new", NEW q \in LookedAt(u)'
        PROVE  Key(q) \in Stored'
    <3>1. accepted(u)' = accepted(u)
      BY <1>2 DEF accepted, project
    <3>2. q \in LookedAt(u) \/ q = r
      BY <1>2, <1>5, <2>4, <3>1 DEF LookedAt
    <3>3. q \in LookedAt(u) => Key(q) \in Stored
      BY <1>2, <2>1, <2>4 DEF KnownIsStored
    <3> QED
      BY <1>7, <2>2, <3>2, <3>3
  <2> QED
    BY <2>3, <2>4 DEF KnownIsStored, Key
<1> QED
  BY <1>8, <1>10, <1>11, <1>12 DEF WindowInv

\* Rows of a thread go, some or all of them to the files.
LEMMA WrittenOnce ==
    ASSUME WindowInv, NEW t \in Threads, unique'[t] = {},
           \A u \in Threads \ {t} : unique'[u] = unique[u],
           NEW written \in SUBSET unique[t], staged' = staged \cup written,
           UNCHANGED <<seen, forgotten>>
    PROVE  /\ StoredIsKnown' /\ NoDoubleStaging'
           /\ written = unique[t] => Stored' = Stored
<1>1. StagedKeys' = StagedKeys \cup {Key(r) : r \in written}
  BY DEF StagedKeys, Key
<1>2. InFlight' = {Key(r) : r \in UNION {unique[u] : u \in Threads \ {t}}}
  BY DEF InFlight, Key
<1>3. InFlight = InFlight' \cup {Key(r) : r \in unique[t]}
  BY <1>2 DEF InFlight
<1>4. Stored' \subseteq Stored /\ (written = unique[t] => Stored' = Stored)
  BY <1>1, <1>3 DEF Stored
<1>5. StoredIsKnown'
  BY <1>4 DEF WindowInv, StoredIsKnown, Window
<1>6. NoDoubleStaging'
  <2> SUFFICES ASSUME NEW u \in Threads, NEW q \in unique'[u], Key(q) \notin forgotten
               PROVE  /\ Key(q) \notin StagedKeys'
                      /\ \A v \in Threads : \A s \in unique'[v] :
                           Key(s) = Key(q) => v = u /\ s = q
    BY DEF NoDoubleStaging, Key
  <2>1. u # t /\ q \in unique[u]
    OBVIOUS
  <2>2. /\ Key(q) \notin StagedKeys
        /\ \A v \in Threads : \A s \in unique[v] : Key(s) = Key(q) => v = u /\ s = q
    BY <2>1 DEF WindowInv, NoDoubleStaging
  <2>3. Key(q) \notin StagedKeys'
    BY <1>1, <2>1, <2>2
  <2>4. \A v \in Threads : \A s \in unique'[v] : s \in unique[v]
    OBVIOUS
  <2> QED
    BY <2>2, <2>3, <2>4
<1> QED
  BY <1>4, <1>5, <1>6

\* The rows of a pass reach their files; after the electrical ones the thread
\* has only those behind it, after the weather ones the whole batch.
LEMMA AppendKeepsWindow ==
    ASSUME IInv, WindowInv, NEW t \in Threads, append(t)
    PROVE  WindowInv'
<1>1. /\ pc \in [Threads -> Labels] /\ req \in [Threads -> {None} \cup Requests]
      /\ node \in [Threads -> {None} \cup NodeRec] /\ kind \in [Threads -> Kinds]
      /\ todo \in [Threads -> SUBSET Row] /\ unique \in [Threads -> SUBSET Row]
  BY DEF IInv, TypeOK, ThreadTypeOK
<1>2. /\ pc[t] = "filter_new" /\ todo[t] = {}
      /\ staged' = staged \cup unique[t] /\ UNCHANGED <<seen, forgotten, faults>>
  BY DEF append, append_rows
<1>3. \/ /\ kind[t] = "electrical" /\ kind' = [kind EXCEPT ![t] = "weather"]
         /\ todo' = [todo EXCEPT ![t] = of_kind("weather", accepted(t))]
         /\ unique' = [unique EXCEPT ![t] = {}]
         /\ UNCHANGED <<pc, req, node, acked>>
      \/ /\ kind[t] = "weather" /\ Leave(t)
         /\ acked' = acked \cup {Key(r) : r \in accepted(t)}
  BY DEF append
<1>4. /\ unique'[t] = {}
      /\ \A u \in Threads \ {t} : /\ pc'[u] = pc[u] /\ req'[u] = req[u]
                                  /\ node'[u] = node[u] /\ todo'[u] = todo[u]
                                  /\ kind'[u] = kind[u] /\ unique'[u] = unique[u]
  BY <1>1, <1>3 DEF Leave
<1>5. StoredIsKnown' /\ NoDoubleStaging' /\ Stored' = Stored
  BY <1>2, <1>4, WrittenOnce
<1>6. ElectricalFirst'
  <2>1. pc'[t] # "filter_new" => kind'[t] = "electrical"
    BY <1>1, <1>2, <1>3 DEF Leave
  <2> QED
    BY <1>4, <2>1 DEF WindowInv, ElectricalFirst
<1>7. ASSUME faults' = 0
      PROVE  KnownIsStored'
  <2>1. KnownIsStored
    BY <1>2, <1>7 DEF WindowInv
  <2>2. \A r \in accepted(t) : r.kind = "electrical" \/ kind[t] = "weather"
                                 => Key(r) \in Stored
    BY <1>2, <2>1 DEF KnownIsStored, LookedAt
  <2>3. Window' \cup acked' \subseteq Stored
    BY <1>2, <1>3, <2>1, <2>2 DEF KnownIsStored, Window
  <2>4. ASSUME NEW u \in Threads, pc'[u] = "filter_new", NEW r \in LookedAt(u)'
        PROVE  Key(r) \in Stored
    <3>1. CASE u = t
      <4>1. /\ kind[t] = "electrical" /\ todo'[t] = of_kind("weather", accepted(t))
            /\ UNCHANGED <<req, node>>
        BY <1>1, <1>3, <2>4, <3>1 DEF Leave
      <4>2. accepted(t)' = accepted(t)
        BY <4>1 DEF accepted, project
      <4>3. r \in accepted(t) /\ r \notin of_kind("weather", accepted(t))
        BY <2>4, <3>1, <4>1, <4>2 DEF LookedAt
      <4>4. r.kind = "electrical"
        BY <1>2, <4>3, BatchRows DEF of_kind, Kinds
      <4> QED
        BY <2>2, <4>3, <4>4
    <3>2. CASE u # t
      <4>1. LookedAt(u)' = LookedAt(u)
        BY <1>4, <3>2 DEF LookedAt, accepted, project
      <4> QED
        BY <1>4, <2>1, <2>4, <3>2, <4>1 DEF KnownIsStored
    <3> QED
      BY <3>1, <3>2
  <2> QED
    BY <1>5, <2>3, <2>4 DEF KnownIsStored, Key
<1> QED
  BY <1>5, <1>6, <1>7 DEF WindowInv

\* A write that fails may lose rows, and their keys stay remembered.
LEMMA AppendFailsKeepsWindow ==
    ASSUME IInv, WindowInv, NEW t \in Threads, append_fails(t)
    PROVE  WindowInv'
<1>1. PICK written \in SUBSET unique[t] : append_rows(written)
  BY DEF append_fails
<1>2. /\ pc \in [Threads -> Labels] /\ kind \in [Threads -> Kinds]
      /\ unique \in [Threads -> SUBSET Row] /\ faults \in Nat
  BY BoundsAssumption DEF IInv, TypeOK, ThreadTypeOK
<1>3. /\ pc'[t] = "idle" /\ kind'[t] = "electrical" /\ unique'[t] = {}
      /\ \A u \in Threads \ {t} : /\ pc'[u] = pc[u] /\ kind'[u] = kind[u]
                                  /\ unique'[u] = unique[u]
  BY <1>2 DEF append_fails, Leave
<1>4. StoredIsKnown' /\ NoDoubleStaging'
  BY <1>1, <1>3, WrittenOnce DEF append_rows
<1>5. ElectricalFirst'
  BY <1>3 DEF WindowInv, ElectricalFirst
<1>6. faults' # 0
  BY <1>2 DEF append_fails
<1> QED
  BY <1>4, <1>5, <1>6 DEF WindowInv

\* A restart forgets what the window knew.
LEMMA RestartKeepsWindow ==
    ASSUME IInv, WindowInv, restart
    PROVE  WindowInv'
<1>1. /\ unique' = [t \in Threads |-> {}] /\ kind' = [t \in Threads |-> "electrical"]
      /\ staged' = staged /\ forgotten' = forgotten \cup Window
  BY DEF restart, lose_window
<1>2. faults' # 0
  <2>1. faults \in Nat
    BY BoundsAssumption DEF IInv, TypeOK
  <2> QED
    BY <2>1 DEF restart
<1>3. Stored' \subseteq Stored
  BY <1>1 DEF Stored, StagedKeys, InFlight, Key
<1>4. StoredIsKnown' /\ NoDoubleStaging' /\ ElectricalFirst'
  BY <1>1, <1>3 DEF WindowInv, StoredIsKnown, NoDoubleStaging, ElectricalFirst
<1> QED
  BY <1>2, <1>4 DEF WindowInv

--------------------------------------------------------------------------------
(* The theorems.                                                           *)

LEMMA WindowInvInit == Init => WindowInv
<1> SUFFICES ASSUME Init PROVE WindowInv
  OBVIOUS
<1>1. /\ seen = <<>> /\ staged = {} /\ acked = {}
      /\ unique = [t \in Threads |-> {}] /\ kind = [t \in Threads |-> "electrical"]
      /\ pc = [t \in Threads |-> "idle"]
  BY DEF Init, StagingInit
<1>2. Window = {} /\ Stored = {}
  BY <1>1 DEF Window, Stored, StagedKeys, InFlight
<1> QED
  BY <1>1, <1>2 DEF WindowInv, StoredIsKnown, NoDoubleStaging, ElectricalFirst, KnownIsStored

LEMMA WindowInvStep == IInv /\ WindowInv /\ [Next]_vars => WindowInv'
<1> SUFFICES ASSUME IInv, WindowInv, [Next]_vars PROVE WindowInv'
  OBVIOUS
<1>1. ASSUME NEW t \in Threads, OnTheWay(t)
      PROVE  WindowInv'
  BY <1>1, OnTheWayKeepsWindow
<1>2. ASSUME NEW t \in Threads, filter_new(t) \/ append(t) \/ append_fails(t)
      PROVE  WindowInv'
  BY <1>2, FilterNewKeepsWindow, AppendKeepsWindow, AppendFailsKeepsWindow
<1>3. CASE restart
  BY <1>3, RestartKeepsWindow
<1>4. CASE UNCHANGED vars
  BY <1>4 DEF vars, storeVars, stagingVars, threadVars, WindowInv, StoredIsKnown,
              NoDoubleStaging, ElectricalFirst, KnownIsStored, LookedAt, Stored, StagedKeys,
              InFlight, Window, Key, accepted, project
<1> QED
  BY <1>1, <1>2, <1>3, <1>4 DEF Next, serve, OnTheWay

\* The invariant of the window: what is stored is remembered or was forgotten,
\* and without faults what is remembered, looked at or acknowledged is stored.
THEOREM WindowInvariant == Spec => []WindowInv
  BY WindowInvInit, WindowInvStep, InductiveInvariant, PTL DEF Spec

\* Two rows with one key are never on their way to the files, nor is one that
\* is there already, while the key has not left the window.
THEOREM DedupeWorks == Spec => []NoDoubleStaging
<1>1. WindowInv => NoDoubleStaging
  BY DEF WindowInv
<1> QED
  BY <1>1, WindowInvariant, PTL

\* As long as no write fails and the server does not restart, what a 200 said
\* was accepted or a duplicate is on disk or about to be, although the window
\* marks a key before its row is written.
THEOREM AcknowledgedStored == Spec => []AcknowledgedIsStored
<1>1. WindowInv => AcknowledgedIsStored
  BY DEF WindowInv, AcknowledgedIsStored, KnownIsStored, Stored
<1> QED
  BY <1>1, WindowInvariant, PTL

--------------------------------------------------------------------------------
(* The server implements the registry of NodeRegistry.tla: each request    *)
(* takes effect at one moment, the write for a request that changes        *)
(* something and the failed check for one that is refused.                 *)

ByToken == {"samples", "patch", "delete"}
ByAccount == {"admin_patch", "admin_delete"}

\* The credential of a request is good, as far as its node is still there.
Entitled(t) ==
    /\ req[t].op \in ByToken => req[t].token = req[t].node
    /\ req[t].op \in ByAccount =>
         /\ req[t].internal
         /\ Live(req[t].node) => req[t].account = contributor_of(req[t].node)

\* What the label of a thread says of the request it serves.
LabelOK(t) ==
    /\ pc[t] = "get_token_hash" => req[t].op \in ByToken
    /\ pc[t] = "get_contributor_ref" => req[t].op \in ByAccount
    /\ pc[t] = "update_consent" => req[t].op \in {"patch", "admin_patch"}
    /\ pc[t] = "delete_node" => req[t].op \in {"delete", "admin_delete"}
    /\ pc[t] \in {"consent_filter", "filter_new"} => req[t].op = "samples"
    /\ pc[t] \in Granted => Entitled(t)

\* IInv says that a request with checked credentials may act; this adds that
\* it does what it was checked for.
RInv == IInv /\ \A t \in Threads : LabelOK(t)

--------------------------------------------------------------------------------
(* RInv is inductive.                                                      *)

\* A thread that is idle, or whose request and label a step leaves alone.
LEMMA LabelStays ==
    ASSUME RInv, StoreStep, NEW u \in Threads,
           \/ pc'[u] = "idle"
           \/ pc'[u] = pc[u] /\ req'[u] = req[u]
    PROVE  LabelOK(u)'
<1>1. CASE pc'[u] = "idle"
  BY <1>1 DEF LabelOK, Granted
<1>2. CASE pc'[u] = pc[u] /\ req'[u] = req[u]
  <2>1. pc[u] \in Granted => req[u].node \in Nodes /\ nodes[req[u].node].status # "absent"
    BY RequestFacts DEF RInv, IInv, TypeOK, ThreadTypeOK, ThreadOK, OnNode, Checked, Granted
  <2>2. pc[u] \in Granted => Entitled(u)'
    BY <1>2, <2>1 DEF RInv, LabelOK, Entitled, StoreStep, Live
  <2> QED
    BY <1>2, <2>2 DEF RInv, LabelOK
<1> QED
  BY <1>1, <1>2

\* A step of thread t that leaves the store alone: only t's label matters.
LEMMA OwnLabel ==
    ASSUME RInv, NEW t \in Threads, StoreStep, LabelOK(t)',
           \A u \in Threads \ {t} : pc'[u] = pc[u] /\ req'[u] = req[u]
    PROVE  \A u \in Threads : LabelOK(u)'
BY LabelStays

\* A thread that answers.
LEMMA AnswerLabels ==
    ASSUME RInv, NEW t \in Threads, StoreStep, Leave(t)
    PROVE  \A u \in Threads : LabelOK(u)'
BY LabelStays DEF Leave, RInv, IInv, TypeOK, ThreadTypeOK

\* get_node sends a request to the check its route asks for.
LEMMA GetNodeLabels ==
    ASSUME RInv, NEW t \in Threads, get_node(t)
    PROVE  \A u \in Threads : LabelOK(u)'
<1>1. StoreStep
  BY QuietStore DEF get_node, RInv
<1>2. CASE ~Live(req[t].node)
  BY <1>1, <1>2, AnswerLabels DEF get_node, Answer
<1>3. CASE Live(req[t].node)
  <2>1. /\ pc' = [pc EXCEPT ![t] = IF req[t].op \in ByAccount
                                   THEN "get_contributor_ref" ELSE "get_token_hash"]
        /\ req' = req
    BY <1>3 DEF get_node, Goto, ByAccount
  <2>2. req[t] \in RequestType /\ req[t].op # "register"
    BY RequestsAssumption
    DEF get_node, RInv, IInv, TypeOK, ThreadTypeOK, ThreadOK, OnNode, Checked
  <2>3. req[t].op \in ByToken \cup ByAccount
    BY <2>2 DEF RequestType, ByToken, ByAccount
  <2>4. LabelOK(t)'
    BY <2>1, <2>3 DEF LabelOK, Granted, RInv, IInv, TypeOK, ThreadTypeOK
  <2> QED
    BY <1>1, <2>1, <2>4, OwnLabel DEF RInv, IInv, TypeOK, ThreadTypeOK
<1> QED
  BY <1>2, <1>3

\* A check that passes lets the request on to what its route does.
LEMMA AuthorisedLabels ==
    ASSUME RInv, NEW t \in Threads, NEW ok, Authorised(t, ok), ok => Entitled(t),
           ok \in BOOLEAN, req[t].op \in ByToken \cup ByAccount
    PROVE  \A u \in Threads : LabelOK(u)'
<1>1. StoreStep /\ UNCHANGED storeVars
  BY QuietStore DEF Authorised, RInv
<1>2. CASE ~ok
  BY <1>1, <1>2, AnswerLabels DEF Authorised, Answer
<1>3. CASE ok
  <2>1. pc' = [pc EXCEPT ![t] = AfterAuth(req[t].op)] /\ req' = req
    BY <1>3 DEF Authorised, Goto
  <2>2. Entitled(t)'
    BY <1>1, <1>3, <2>1 DEF Entitled, Live, contributor_of, storeVars
  <2>3. /\ req[t].op = "samples" => AfterAuth(req[t].op) = "consent_filter"
        /\ req[t].op \in {"patch", "admin_patch"} => AfterAuth(req[t].op) = "update_consent"
        /\ req[t].op \in {"delete", "admin_delete"} => AfterAuth(req[t].op) = "delete_node"
    BY DEF AfterAuth
  <2>4. LabelOK(t)'
    BY <2>1, <2>2, <2>3
    DEF LabelOK, Granted, RInv, IInv, TypeOK, ThreadTypeOK, ByToken, ByAccount
  <2> QED
    BY <1>1, <2>1, <2>4, OwnLabel DEF RInv, IInv, TypeOK, ThreadTypeOK
<1> QED
  BY <1>2, <1>3

LEMMA InitLabels == Init => RInv
<1> SUFFICES ASSUME Init PROVE RInv
  OBVIOUS
<1>1. \A t \in Threads : LabelOK(t)
  BY DEF Init, LabelOK, Granted
<1> QED
  BY <1>1, InitEstablishes DEF RInv

\* What every step does to the store, as far as the threads care.
LEMMA EveryStoreStep == IInv /\ [Next]_vars => StoreStep
<1> SUFFICES ASSUME IInv, [Next]_vars PROVE StoreStep
  OBVIOUS
<1>1. ASSUME NEW t \in Threads, register(t) \/ update_node(t) \/ erase_node(t)
      PROVE  StoreStep
  BY <1>1, RegisterStep, UpdateStep, EraseStep
<1>2. ASSUME NEW t \in Threads,
             begin(t) \/ get_node(t) \/ get_token_hash(t) \/ get_contributor_ref(t)
             \/ consent_filter(t) \/ filter_new(t) \/ append(t) \/ append_fails(t)
      PROVE  UNCHANGED storeVars
  BY <1>2 DEF begin, get_node, get_token_hash, get_contributor_ref, Authorised,
              consent_filter, filter_new, append, append_fails
<1>3. CASE restart \/ UNCHANGED vars
  BY <1>3, QuietStore DEF restart, vars
<1> QED
  BY <1>1, <1>2, <1>3, QuietStore DEF Next, serve

\* Labels after any step: the answers and the checks above; the other steps
\* stay within the handler of samples.
LEMMA LabelsStep == RInv /\ [Next]_vars => RInv'
<1> SUFFICES ASSUME RInv, [Next]_vars PROVE \A u \in Threads : LabelOK(u)'
  BY StepPreserves DEF RInv
<1>1. StoreStep
  BY EveryStoreStep DEF RInv
<1>2. ASSUME NEW t \in Threads, begin(t) PROVE \A u \in Threads : LabelOK(u)'
  <2>1. /\ pc'[t] \in {"create_node", "get_node"}
        /\ \A u \in Threads \ {t} : pc'[u] = pc[u] /\ req'[u] = req[u]
    BY <1>2 DEF begin, Goto, RInv, IInv, TypeOK, ThreadTypeOK
  <2> QED
    BY <1>1, <2>1, OwnLabel DEF LabelOK, Granted
<1>3. ASSUME NEW t \in Threads, get_node(t) PROVE \A u \in Threads : LabelOK(u)'
  BY <1>3, GetNodeLabels
<1>4. ASSUME NEW t \in Threads, get_token_hash(t) PROVE \A u \in Threads : LabelOK(u)'
  <2> DEFINE ok == req[t].node \in tokens /\ req[t].token = req[t].node
  <2>1. req[t].op \in ByToken
    BY <1>4 DEF get_token_hash, RInv, LabelOK
  <2>2. ok \in BOOLEAN /\ Authorised(t, ok) /\ (ok => Entitled(t))
    BY <1>4, <2>1 DEF get_token_hash, Entitled, ByToken, ByAccount
  <2> HIDE DEF ok
  <2> QED
    BY <2>1, <2>2, AuthorisedLabels
<1>5. ASSUME NEW t \in Threads, get_contributor_ref(t) PROVE \A u \in Threads : LabelOK(u)'
  <2> DEFINE ok == contributor_of(req[t].node) = req[t].account
  <2>1. req[t].op \in ByAccount /\ req[t].internal
    BY <1>5 DEF get_contributor_ref, RInv, LabelOK, IInv, ThreadOK
  <2>2. ok \in BOOLEAN /\ Authorised(t, ok) /\ (ok => Entitled(t))
    BY <1>5, <2>1 DEF get_contributor_ref, Entitled, ByToken, ByAccount
  <2> HIDE DEF ok
  <2> QED
    BY <2>1, <2>2, AuthorisedLabels
<1>6. ASSUME NEW t \in Threads,
             register(t) \/ update_node(t) \/ erase_node(t) \/ append_fails(t)
      PROVE  \A u \in Threads : LabelOK(u)'
  BY <1>1, <1>6, AnswerLabels DEF register, update_node, erase_node, append_fails, Answer
<1>7. ASSUME NEW t \in Threads, consent_filter(t) PROVE \A u \in Threads : LabelOK(u)'
  <2>1. CASE Answer(t)
    BY <1>1, <2>1, AnswerLabels DEF Answer
  <2>2. CASE Goto(t, "filter_new") /\ UNCHANGED <<req, storeVars>>
    <3>1. /\ pc'[t] = "filter_new" /\ req'[t] = req[t]
          /\ \A u \in Threads \ {t} : pc'[u] = pc[u] /\ req'[u] = req[u]
      BY <2>2 DEF Goto, RInv, IInv, TypeOK, ThreadTypeOK
    <3>2. req[t].op = "samples" /\ Entitled(t)
      BY <1>7 DEF consent_filter, RInv, LabelOK, Granted
    <3>3. LabelOK(t)'
      BY <2>2, <3>1, <3>2 DEF LabelOK, Entitled, Live, contributor_of, storeVars
    <3> QED
      BY <1>1, <3>1, <3>3, OwnLabel
  <2> QED
    BY <1>7, <2>1, <2>2 DEF consent_filter
<1>8. ASSUME NEW t \in Threads, filter_new(t) PROVE \A u \in Threads : LabelOK(u)'
  BY <1>1, <1>8, LabelStays DEF filter_new
<1>9. ASSUME NEW t \in Threads, append(t) PROVE \A u \in Threads : LabelOK(u)'
  <2>1. Leave(t) \/ UNCHANGED <<pc, req>>
    BY <1>9 DEF append
  <2> QED
    BY <1>1, <2>1, LabelStays, AnswerLabels
<1>10. CASE restart
  BY <1>1, <1>10, LabelStays DEF restart
<1>11. CASE UNCHANGED vars
  BY <1>1, <1>11, LabelStays DEF vars, threadVars
<1> QED
  BY <1>2, <1>3, <1>4, <1>5, <1>6, <1>7, <1>8, <1>9, <1>10, <1>11 DEF Next, serve

--------------------------------------------------------------------------------
(* Every step is a step of the registry, or none.                          *)

\* Steps that leave the store alone leave the registry alone.
LEMMA QuietRegistry ==
    ASSUME UNCHANGED storeVars
    PROVE  liveNodes' = liveNodes /\ tombstones' = tombstones
BY DEF liveNodes, Live, contributor_of, storeVars

\* The registry at work: whatever thread t does in the step in which it leaves,
\* the step serves its request.
LEMMA ServesOrRefuses ==
    ASSUME RInv, NEW t \in Threads, Leave(t), req[t] # None,
           \/ Registry!Allowed(req[t]) /\ Registry!Effect(req[t])
           \/ ~Registry!Allowed(req[t]) /\ UNCHANGED storeVars
    PROVE  Registry!Next
<1>1. req' = [req EXCEPT ![t] = None]
  BY DEF Leave
<1>2. Registry!Serve(t)
  BY <1>1, QuietRegistry DEF Registry!Serve
<1> QED
  BY <1>2 DEF Registry!Next

\* A request that no longer finds its node, or shows the wrong credential, is
\* one the registry would refuse at this moment.
LEMMA RefusalRefines ==
    ASSUME RInv, NEW t \in Threads, Leave(t), UNCHANGED storeVars, req[t] # None,
           \/ req[t].op # "register" /\ ~Live(req[t].node)
           \/ req[t].op \in ByToken /\ req[t].token # req[t].node
           \/ /\ req[t].op \in ByAccount
              /\ req[t].account # contributor_of(req[t].node)
           \/ /\ req[t].op \in {"register", "patch", "admin_patch"}
              /\ req[t].loc \notin completeBodies \cup {None}
           \/ req[t].op = "register" /\ req[t].account # None /\ ~req[t].internal
    PROVE  Registry!Next
<1>1. DOMAIN liveNodes = {m \in Nodes : Live(m)}
  BY DEF liveNodes
<1>2. \A m \in DOMAIN liveNodes : liveNodes[m].owner = contributor_of(m)
  BY DEF liveNodes
<1>3. ~Registry!Allowed(req[t])
  BY <1>1, <1>2 DEF Registry!Allowed, Registry!Live, ByToken, ByAccount
<1> QED
  BY <1>3, ServesOrRefuses

\* A batch of samples changes nothing in the registry, however it is answered.
LEMMA SamplesRefine ==
    ASSUME RInv, NEW t \in Threads, Leave(t), UNCHANGED storeVars,
           pc[t] \in {"consent_filter", "filter_new"}
    PROVE  Registry!Next
<1>1. req[t] # None /\ req[t].op = "samples"
  BY DEF RInv, IInv, ThreadOK, LabelOK
<1>2. CASE Registry!Allowed(req[t])
  BY <1>1, <1>2, QuietRegistry, ServesOrRefuses DEF Registry!Effect
<1>3. CASE ~Registry!Allowed(req[t])
  BY <1>1, <1>3, ServesOrRefuses
<1> QED
  BY <1>2, <1>3

\* What a request past its checks asks for is allowed, if its node is there.
LEMMA GrantedIsAllowed ==
    ASSUME RInv, NEW t \in Threads, pc[t] \in {"update_consent", "delete_node"},
           Live(req[t].node),
           req[t].op \in {"patch", "admin_patch"}
              => req[t].loc \in completeBodies \cup {None}
    PROVE  Registry!Allowed(req[t])
<1>1. /\ Entitled(t) /\ req[t].node \in Nodes
      /\ req[t].op \in {"patch", "admin_patch", "delete", "admin_delete"}
  BY WriterFacts DEF RInv, LabelOK, Granted
<1>2. req[t].node \in DOMAIN liveNodes /\ liveNodes[req[t].node].owner = contributor_of(req[t].node)
  BY <1>1 DEF liveNodes
<1> QED
  BY <1>1, <1>2 DEF Registry!Allowed, Registry!Live, Entitled, ByToken, ByAccount

LEMMA RegisterRefines ==
    ASSUME RInv, NEW t \in Threads, register(t)
    PROVE  Registry!Next
<1> DEFINE q == req[t]
           refused == location_incomplete(q.loc) \/ (q.account # None /\ ~q.internal)
<1>1. /\ q \in Requests /\ q.op = "register" /\ q # None /\ Leave(t)
      /\ q.channels \in SUBSET Channels /\ q.loc \in LocBody
  BY RequestFacts DEF register, Answer, RInv, IInv, TypeOK, ThreadTypeOK, ThreadOK
<1>2. q.loc # None
  BY <1>1, RequestsAssumption
<1>3. CASE refused
  <2>1. UNCHANGED storeVars
    BY <1>3 DEF register
  <2>2. \/ q.loc \notin completeBodies \cup {None}
        \/ q.account # None /\ ~q.internal
    BY <1>2, <1>3 DEF completeBodies
  <2> QED
    BY <1>1, <2>1, <2>2, RefusalRefines
<1>4. CASE ~refused
  <2>1. PICK n \in Nodes : create_node(n, q.channels, q.loc, q.account)
    BY <1>4 DEF register
  <2> DEFINE new == [owner |-> q.account, channels |-> q.channels, home |-> homes[q.loc]]
  <2>2. q.loc \in completeBodies
    BY <1>1, <1>4 DEF completeBodies
  <2>3. Registry!Allowed(q)
    BY <1>1, <1>4, <2>2 DEF Registry!Allowed
  <2>4. /\ nodes'[n] = [status |-> "live", channels |-> q.channels,
                        loc_tier |-> q.loc.tier, loc_ref |-> resolved_loc_ref(q.loc)]
        /\ node_private'[n] = [postcode |-> stored_postcode(q.loc), contributor_ref |-> q.account]
        /\ nodes[n].status = "absent" /\ tombstones' = tombstones
        /\ \A m \in Nodes \ {n} : nodes'[m] = nodes[m] /\ node_private'[m] = node_private[m]
    BY <2>1 DEF create_node, RInv, IInv, TypeOK, StoreTypeOK
  <2>5. node_private'[n] # None
    BY <2>4, RegisterStep, <1>1 DEF RInv, IInv, ErasureIsComplete, Live
  <2>6. n \notin DOMAIN liveNodes \cup tombstones
    BY <2>4 DEF liveNodes, Live, RInv, IInv, ErasureIsComplete
  <2>7. {m \in Nodes : Live(m)}' = {m \in Nodes : Live(m)} \cup {n}
    BY <2>4 DEF Live
  <2>8. homes[q.loc] = [tier |-> q.loc.tier, ref |-> resolved_loc_ref(q.loc),
                        postcode |-> stored_postcode(q.loc)]
    BY <2>2 DEF homes
  <2>9. liveNodes' = [m \in DOMAIN liveNodes \cup {n} |-> IF m = n THEN new ELSE liveNodes[m]]
    <3>1. ASSUME NEW m \in Nodes, Live(m), m # n
          PROVE  liveNodes'[m] = liveNodes[m]
      BY <2>4, <2>7, <3>1 DEF liveNodes, Live, contributor_of
    <3>2. liveNodes'[n] = new
      BY <2>4, <2>5, <2>7, <2>8 DEF liveNodes, contributor_of
    <3>3. DOMAIN liveNodes = {m \in Nodes : Live(m)} /\ DOMAIN liveNodes' = {m \in Nodes : Live(m)}'
      BY DEF liveNodes
    <3>4. liveNodes' = [m \in DOMAIN liveNodes' |-> liveNodes'[m]]
      BY DEF liveNodes
    <3> QED
      BY <2>7, <3>1, <3>2, <3>3, <3>4
  <2>10. Registry!Effect(q)
    BY <1>1, <2>4, <2>6, <2>9 DEF Registry!Effect, Registry!Register
  <2> QED
    BY <1>1, <2>3, <2>10, ServesOrRefuses
<1> QED
  BY <1>3, <1>4

\* A write to a node that was erased meanwhile leaves the registry alone.
LEMMA LateUpdate ==
    ASSUME RInv, NEW n \in Nodes, ~Live(n), NEW channels, NEW tier, NEW ref, NEW postcode,
           update_consent(n, channels, tier, ref, postcode)
    PROVE  liveNodes' = liveNodes /\ tombstones' = tombstones
<1>1. /\ \A m \in Nodes \ {n} : nodes'[m] = nodes[m] /\ node_private'[m] = node_private[m]
      /\ nodes'[n].status = nodes[n].status /\ tombstones' = tombstones
  BY DEF update_consent, RInv, IInv, TypeOK, StoreTypeOK, NodeRec
<1>2. {m \in Nodes : Live(m)}' = {m \in Nodes : Live(m)}
  BY <1>1 DEF Live
<1>3. \A m \in {x \in Nodes : Live(x)} : nodes'[m] = nodes[m] /\ node_private'[m] = node_private[m]
  BY <1>1
<1> QED
  BY <1>1, <1>2, <1>3 DEF liveNodes, contributor_of

\* The entry of a node once update_consent has been at it.
EntryAfter(n, channels, tier, ref, postcode) ==
    [owner |-> liveNodes[n].owner,
     channels |-> IF channels = None THEN liveNodes[n].channels ELSE channels,
     home |-> IF tier = None THEN liveNodes[n].home
              ELSE [tier |-> tier, ref |-> ref, postcode |-> postcode]]

\* A write to a live node is the update of its entry: channels and location
\* are replaced where the body has them and kept where it has not.
LEMMA LiveUpdate ==
    ASSUME RInv, NEW n \in Nodes, Live(n), NEW channels, NEW tier \in {None} \cup LocTier,
           NEW ref, NEW postcode \in Postcodes \cup {None},
           update_consent(n, channels, tier, ref, postcode)
    PROVE  /\ tombstones' = tombstones
           /\ liveNodes' = [liveNodes EXCEPT ![n] = EntryAfter(n, channels, tier, ref, postcode)]
<1> DEFINE old == liveNodes[n]
           new == EntryAfter(n, channels, tier, ref, postcode)
<1>1. /\ nodes[n] \in NodeRec /\ nodes[n].status = "live"
      /\ node_private[n] \in PrivateRec /\ node_private[n] # None
  BY DEF RInv, IInv, TypeOK, StoreTypeOK, ErasureIsComplete, Live
<1>2. /\ \A m \in Nodes \ {n} : nodes'[m] = nodes[m] /\ node_private'[m] = node_private[m]
      /\ tombstones' = tombstones
  BY DEF update_consent, RInv, IInv, TypeOK, StoreTypeOK
<1>3. /\ nodes'[n].status = "live"
      /\ nodes'[n].channels = IF channels = None THEN nodes[n].channels ELSE channels
      /\ nodes'[n].loc_tier = IF tier = None THEN nodes[n].loc_tier ELSE tier
      /\ nodes'[n].loc_ref = IF tier = None THEN nodes[n].loc_ref ELSE ref
  BY <1>1 DEF update_consent, RInv, IInv, TypeOK, StoreTypeOK, NodeRec
<1>4. /\ node_private'[n] # None
      /\ node_private'[n].contributor_ref = node_private[n].contributor_ref
      /\ node_private'[n].postcode = IF tier = None THEN node_private[n].postcode ELSE postcode
  <2>1. node_private'[n] = IF tier = None THEN node_private[n]
                           ELSE [node_private[n] EXCEPT !.postcode = postcode]
    BY <1>1 DEF update_consent, RInv, IInv, TypeOK, StoreTypeOK
  <2>2. node_private'[n] \in PrivateRec
    BY <1>1, <2>1 DEF PrivateRec
  <2> QED
    BY <1>1, <2>1, <2>2, NullIsNoRow DEF PrivateRec
<1>5. old = [owner |-> node_private[n].contributor_ref, channels |-> nodes[n].channels,
             home |-> [tier |-> nodes[n].loc_tier, ref |-> nodes[n].loc_ref,
                       postcode |-> node_private[n].postcode]]
  BY <1>1 DEF liveNodes, Live, contributor_of
<1>6. {m \in Nodes : Live(m)}' = {m \in Nodes : Live(m)}
  BY <1>1, <1>2, <1>3 DEF Live
<1>7. /\ DOMAIN liveNodes = {m \in Nodes : Live(m)}
      /\ liveNodes' = [m \in {x \in Nodes : Live(x)} |-> liveNodes'[m]]
  BY <1>6 DEF liveNodes
<1>8. liveNodes'[n] = new
  <2>1. liveNodes'[n] = [owner |-> node_private'[n].contributor_ref,
                         channels |-> nodes'[n].channels,
                         home |-> [tier |-> nodes'[n].loc_tier, ref |-> nodes'[n].loc_ref,
                                   postcode |-> node_private'[n].postcode]]
    BY <1>3, <1>4 DEF liveNodes, Live, contributor_of
  <2> QED
    BY <1>3, <1>4, <1>5, <2>1 DEF EntryAfter
<1>9. ASSUME NEW m \in Nodes, Live(m), m # n
      PROVE  liveNodes'[m] = liveNodes[m]
  BY <1>2, <1>6, <1>9 DEF liveNodes, contributor_of
<1>10. liveNodes' = [m \in DOMAIN liveNodes |-> IF m = n THEN new ELSE liveNodes[m]]
  BY <1>7, <1>8, <1>9
<1> HIDE DEF new
<1>11. liveNodes' = [liveNodes EXCEPT ![n] = new]
  <2>1. liveNodes = [m \in DOMAIN liveNodes |-> liveNodes[m]]
    BY DEF liveNodes
  <2> QED
    BY <1>7, <1>10, <2>1
<1> QED
  BY <1>2, <1>11 DEF new

LEMMA UpdateRefines ==
    ASSUME RInv, NEW t \in Threads, update_node(t)
    PROVE  Registry!Next
<1> DEFINE q == req[t]
<1>1. /\ q # None /\ q.op \in {"patch", "admin_patch"} /\ Leave(t) /\ q.node \in Nodes
      /\ pc[t] = "update_consent"
      /\ q.channels \in {None} \cup SUBSET Channels /\ q.loc \in {None} \cup LocBody
  BY WriterFacts, RequestFacts DEF update_node, Answer, RInv, LabelOK, IInv, ThreadOK
<1>2. CASE q.loc # None /\ location_incomplete(q.loc)
  <2>1. q.loc \notin completeBodies \cup {None} /\ UNCHANGED storeVars
    BY <1>2 DEF completeBodies, update_node, storeVars
  <2> QED
    BY <1>1, <2>1, RefusalRefines
<1>3. CASE ~(q.loc # None /\ location_incomplete(q.loc))
  <2> DEFINE tier == IF q.loc = None THEN None ELSE q.loc.tier
             ref == IF q.loc = None THEN node[t].loc_ref ELSE resolved_loc_ref(q.loc)
             postcode == IF q.loc = None THEN None ELSE stored_postcode(q.loc)
  <2>1. update_consent(q.node, q.channels, tier, ref, postcode)
    BY <1>3 DEF update_node
  <2>2. q.loc # None => q.loc \in completeBodies /\ tier \in LocTier /\ tier # None
    BY <1>1, <1>3, NodeStoreAssumption DEF completeBodies, LocBody, LocTier
  <2>3. postcode \in Postcodes \cup {None} /\ tier \in {None} \cup LocTier
    BY <1>1, <1>3, <2>2, LocationResolves
  <2>4. tier = None <=> q.loc = None
    BY <2>2
  <2> HIDE DEF tier, ref, postcode
  <2>5. CASE ~Live(q.node)
    <3>1. liveNodes' = liveNodes /\ tombstones' = tombstones
      BY <1>1, <2>1, <2>5, LateUpdate
    <3>2. DOMAIN liveNodes = {m \in Nodes : Live(m)}
      BY DEF liveNodes
    <3>3. ~Registry!Allowed(q)
      BY <1>1, <2>5, <3>2 DEF Registry!Allowed, Registry!Live
    <3>4. req' = [req EXCEPT ![t] = None]
      BY <1>1 DEF Leave
    <3> QED
      BY <1>1, <3>1, <3>3, <3>4 DEF Registry!Next, Registry!Serve
  <2>6. CASE Live(q.node)
    <3>1. /\ tombstones' = tombstones
          /\ liveNodes' = [liveNodes EXCEPT ![q.node] =
                           EntryAfter(q.node, q.channels, tier, ref, postcode)]
      BY <1>1, <2>1, <2>3, <2>6, LiveUpdate
    <3>2. Registry!Allowed(q)
      BY <1>1, <2>2, <2>6, GrantedIsAllowed
    <3>3. q.loc # None => homes[q.loc] = [tier |-> tier, ref |-> ref, postcode |-> postcode]
      BY <2>2 DEF homes, tier, ref, postcode
    <3>4. Registry!Update(q)
      BY <2>4, <3>1, <3>3 DEF Registry!Update, EntryAfter
    <3> QED
      BY <1>1, <3>2, <3>4, ServesOrRefuses DEF Registry!Effect
  <2> QED
    BY <2>5, <2>6
<1> QED
  BY <1>2, <1>3

LEMMA EraseRefines ==
    ASSUME RInv, NEW t \in Threads, erase_node(t)
    PROVE  Registry!Next
<1> DEFINE q == req[t]
<1>1. /\ q # None /\ q.op \in {"delete", "admin_delete"} /\ Leave(t) /\ q.node \in Nodes
      /\ pc[t] = "delete_node" /\ delete_node(q.node)
  BY WriterFacts DEF erase_node, Answer, RInv, LabelOK, IInv, ThreadOK
<1>2. CASE ~Live(q.node)
  BY <1>1, <1>2, RefusalRefines DEF delete_node
<1>3. CASE Live(q.node)
  <2>1. /\ tombstones' = tombstones \cup {q.node} /\ nodes'[q.node].status = "erased"
        /\ \A m \in Nodes \ {q.node} : nodes'[m] = nodes[m] /\ node_private'[m] = node_private[m]
    BY <1>1, <1>3 DEF delete_node, RInv, IInv, TypeOK, StoreTypeOK, NodeRec
  <2>2. {m \in Nodes : Live(m)}' = {m \in Nodes : Live(m)} \ {q.node}
    BY <2>1 DEF Live
  <2>3. DOMAIN liveNodes = {m \in Nodes : Live(m)}
    BY DEF liveNodes
  <2>4. liveNodes' = [m \in DOMAIN liveNodes \ {q.node} |-> liveNodes[m]]
    BY <2>1, <2>2, <2>3 DEF liveNodes, contributor_of
  <2>5. Registry!Effect(q)
    BY <1>1, <2>1, <2>4 DEF Registry!Effect, Registry!Erase
  <2> QED
    BY <1>1, <1>3, <2>5, GrantedIsAllowed, ServesOrRefuses
<1> QED
  BY <1>2, <1>3

\* Each step of the server is one of the registry, or leaves it alone.
LEMMA StepRefines == RInv /\ [Next]_vars => [Registry!Next]_(Registry!registryVars)
<1> SUFFICES ASSUME RInv, [Next]_vars
             PROVE  Registry!Next \/ UNCHANGED <<liveNodes, tombstones, req>>
  BY DEF Registry!registryVars
<1>1. ASSUME NEW t \in Threads, begin(t) PROVE Registry!Next
  <2>1. req[t] = None /\ UNCHANGED storeVars /\ \E q \in Requests : req' = [req EXCEPT ![t] = q]
    BY <1>1 DEF begin, RInv, IInv, ThreadOK
  <2> QED
    BY <2>1, QuietRegistry DEF Registry!Next, Registry!Ask
<1>2. ASSUME NEW t \in Threads, get_node(t)
      PROVE  Registry!Next \/ UNCHANGED <<liveNodes, tombstones, req>>
  <2>1. req[t] # None /\ req[t].op # "register" /\ UNCHANGED storeVars
    BY <1>2 DEF get_node, RInv, IInv, ThreadOK, OnNode
  <2> QED
    BY <1>2, <2>1, QuietRegistry, RefusalRefines DEF get_node, Answer
<1>3. ASSUME NEW t \in Threads, get_token_hash(t)
      PROVE  Registry!Next \/ UNCHANGED <<liveNodes, tombstones, req>>
  <2>1. /\ req[t] # None /\ req[t].op # "register" /\ req[t].node \in Nodes
        /\ req[t].op \in ByToken /\ UNCHANGED storeVars
    BY <1>3, RequestFacts DEF get_token_hash, Authorised, RInv, IInv, TypeOK, ThreadTypeOK,
                              ThreadOK, LabelOK, OnNode, Checked
  <2>2. req[t].node \notin tokens => ~Live(req[t].node)
    BY <2>1 DEF RInv, IInv, ErasureIsComplete
  <2>3. CASE Leave(t) /\ ~(req[t].node \in tokens /\ req[t].token = req[t].node)
    BY <2>1, <2>2, <2>3, RefusalRefines
  <2>4. CASE UNCHANGED req
    BY <2>1, <2>4, QuietRegistry
  <2> QED
    BY <1>3, <2>3, <2>4 DEF get_token_hash, Authorised, Answer
<1>4. ASSUME NEW t \in Threads, get_contributor_ref(t)
      PROVE  Registry!Next \/ UNCHANGED <<liveNodes, tombstones, req>>
  <2>1. req[t] # None /\ req[t].op \in ByAccount /\ UNCHANGED storeVars
    BY <1>4 DEF get_contributor_ref, Authorised, RInv, IInv, ThreadOK, LabelOK
  <2>2. CASE Leave(t) /\ req[t].account # contributor_of(req[t].node)
    BY <2>1, <2>2, RefusalRefines
  <2>3. CASE UNCHANGED req
    BY <2>1, <2>3, QuietRegistry
  <2> QED
    BY <1>4, <2>2, <2>3 DEF get_contributor_ref, Authorised, Answer
<1>5. ASSUME NEW t \in Threads, register(t) \/ update_node(t) \/ erase_node(t)
      PROVE  Registry!Next
  BY <1>5, RegisterRefines, UpdateRefines, EraseRefines
<1>6. ASSUME NEW t \in Threads, consent_filter(t) \/ filter_new(t) \/ append(t) \/ append_fails(t)
      PROVE  Registry!Next \/ UNCHANGED <<liveNodes, tombstones, req>>
  <2>1. /\ UNCHANGED storeVars /\ pc[t] \in {"consent_filter", "filter_new"}
        /\ Leave(t) \/ UNCHANGED req
    BY <1>6 DEF consent_filter, filter_new, append, append_fails, Answer
  <2> QED
    BY <2>1, SamplesRefine, QuietRegistry
<1>7. CASE restart
  BY <1>7, QuietRegistry DEF restart, Registry!Next, Registry!Restart
<1>8. CASE UNCHANGED vars
  BY <1>8, QuietRegistry DEF vars, threadVars
<1> QED
  BY <1>1, <1>2, <1>3, <1>4, <1>5, <1>6, <1>7, <1>8 DEF Next, serve

LEMMA InitRefines == Init => Registry!Init
<1> SUFFICES ASSUME Init PROVE Registry!Init
  OBVIOUS
<1>1. liveNodes = [n \in {} |-> None]
  BY DEF Init, StoreInit, liveNodes, Live
<1> QED
  BY <1>1 DEF Init, StoreInit, Registry!Init

\* Requests are linearizable: for every number of nodes, accounts, threads and
\* requests, each takes effect at one moment, on the registry as it is then.
THEOREM ServerIsAtomic == Spec => RequestsAreAtomic
<1>1. Spec => []RInv
  BY InitLabels, LabelsStep, PTL DEF Spec
<1> QED
  BY <1>1, InitRefines, StepRefines, PTL DEF Spec, RequestsAreAtomic, Registry!Spec

--------------------------------------------------------------------------------
(* A request is answered in a bounded number of steps.                     *)

\* Deduper.filter_new: the thread that holds its lock is in the loop and has a
\* row left to look at, so it can go on, whatever the others wait for.
LockHolderGoesOn == lock # NoThread => pc[lock] = "filter_new" /\ todo[lock] # {}

\* The steps thread t still has to take, at most: each row of the body may pass
\* filter_new in either pass, each pass ends with an append.
bodyRows(t) == Cardinality(req[t].rows)
CallsLeft(t) ==
    CASE pc[t] = "idle" -> 0
      [] pc[t] \in {"create_node", "update_consent", "delete_node"} -> 1
      [] pc[t] = "get_node" -> 2 * bodyRows(t) + 5
      [] pc[t] \in {"get_token_hash", "get_contributor_ref"} -> 2 * bodyRows(t) + 4
      [] pc[t] = "consent_filter" -> 2 * bodyRows(t) + 3
      [] pc[t] = "filter_new" ->
           Cardinality(todo[t]) + 1 + (IF kind[t] = "electrical" THEN bodyRows(t) + 1 ELSE 0)

\* Each step a thread takes for its request leaves it fewer, and what the other
\* threads do leaves it no more.
RequestsShorten ==
    \A t \in Threads : /\ serve(t) => CallsLeft(t)' < CallsLeft(t)
                       /\ pc[t] # "idle" => CallsLeft(t)' <= CallsLeft(t)
RequestsAreBounded == [][RequestsShorten]_vars

\* A thread whose label, rows and request a step leaves alone has as many
\* steps to take as before.
LEMMA SameCalls ==
    ASSUME NEW u \in Threads,
           pc'[u] = pc[u], req'[u] = req[u], kind'[u] = kind[u], todo'[u] = todo[u]
    PROVE  CallsLeft(u)' = CallsLeft(u)
BY DEF CallsLeft, bodyRows

\* A filter of the rows of one request keeps at most all of them.
LEMMA FewerRows ==
    ASSUME NEW t \in Threads, NEW k, IsFiniteSet(req[t].rows)
    PROVE  /\ bodyRows(t) \in Nat /\ IsFiniteSet(of_kind(k, accepted(t)))
           /\ Cardinality(of_kind(k, accepted(t))) \in Nat
           /\ Cardinality(of_kind(k, accepted(t))) <= bodyRows(t)
           /\ IsFiniteSet(accepted(t))
<1> DEFINE B == {b \in req[t].rows : b.channels \subseteq node[t].channels}
           A == {project(t, b) : b \in B}
           f == [b \in B |-> project(t, b)]
           O == of_kind(k, A)
<1>1. IsFiniteSet(B) /\ Cardinality(B) <= Cardinality(req[t].rows)
  BY FS_Subset
<1>2. f \in Surjection(B, A)
  <2>1. f \in [B -> A]
    OBVIOUS
  <2>2. \A a \in A : \E b \in B : f[b] = a
    OBVIOUS
  <2> QED
    BY <2>1, <2>2 DEF Surjection
<1>3. accepted(t) = A
  BY DEF accepted
<1>4. O \subseteq A
  BY DEF of_kind
<1> HIDE DEF A, B, f, O
<1>5. IsFiniteSet(A) /\ Cardinality(A) <= Cardinality(B)
  BY <1>1, <1>2, FS_Surjection
<1>6. IsFiniteSet(O) /\ Cardinality(O) <= Cardinality(A)
  BY <1>4, <1>5, FS_Subset
<1>7. /\ Cardinality(req[t].rows) \in Nat /\ Cardinality(B) \in Nat
      /\ Cardinality(A) \in Nat /\ Cardinality(O) \in Nat
  BY <1>1, <1>5, <1>6, FS_CardinalityType
<1>8. Cardinality(O) <= Cardinality(req[t].rows)
  BY <1>1, <1>5, <1>6, <1>7
<1> QED
  BY <1>3, <1>5, <1>6, <1>7, <1>8 DEF bodyRows, O

\* What the types and ThreadOK say of the rows a thread has to look at.
LEMMA CallsAreCounted ==
    ASSUME IInv, \A q \in Requests : IsFiniteSet(q.rows), NEW t \in Threads, pc[t] # "idle"
    PROVE  /\ IsFiniteSet(req[t].rows) /\ bodyRows(t) \in Nat
           /\ IsFiniteSet(todo[t]) /\ Cardinality(todo[t]) \in Nat
           /\ pc[t] \in Labels /\ kind[t] \in Kinds
           /\ CallsLeft(t) \in Nat /\ CallsLeft(t) > 0
<1>1. pc[t] \in Labels /\ kind[t] \in Kinds /\ req[t] \in Requests
  BY DEF IInv, TypeOK, ThreadTypeOK, ThreadOK
<1>2. IsFiniteSet(req[t].rows) /\ bodyRows(t) \in Nat /\ IsFiniteSet(accepted(t))
  BY <1>1, FewerRows
<1>3. todo[t] \subseteq accepted(t) \/ todo[t] = {}
  BY DEF IInv, ThreadOK
<1>4. IsFiniteSet(todo[t]) /\ Cardinality(todo[t]) \in Nat
  BY <1>2, <1>3, FS_Subset, FS_EmptySet, FS_CardinalityType
<1>5. CallsLeft(t) \in Nat /\ CallsLeft(t) > 0
  BY <1>1, <1>2, <1>4 DEF CallsLeft, Labels
<1> QED
  BY <1>1, <1>2, <1>4, <1>5

\* A thread that has answered takes no more steps.
LEMMA AnsweredCalls ==
    ASSUME IInv, \A q \in Requests : IsFiniteSet(q.rows), NEW t \in Threads,
           pc[t] # "idle", Leave(t)
    PROVE  CallsLeft(t)' < CallsLeft(t) /\ CallsLeft(t)' \in Nat
<1>1. pc'[t] = "idle"
  BY DEF Leave, IInv, TypeOK, ThreadTypeOK
<1>2. CallsLeft(t)' = 0
  BY <1>1 DEF CallsLeft
<1> QED
  BY <1>2, CallsAreCounted

\* A thread that goes on at another label for the same request.
LEMMA NextCall ==
    ASSUME IInv, NEW t \in Threads, NEW label, Goto(t, label), UNCHANGED req
    PROVE  pc'[t] = label /\ bodyRows(t)' = bodyRows(t)
BY DEF Goto, bodyRows, IInv, TypeOK, ThreadTypeOK

\* Each step a thread takes for its request leaves it fewer steps.
LEMMA ServeShortens ==
    ASSUME IInv, \A q \in Requests : IsFiniteSet(q.rows), NEW t \in Threads, serve(t)
    PROVE  pc[t] # "idle" /\ CallsLeft(t)' < CallsLeft(t) /\ CallsLeft(t)' \in Nat
<1>1. pc[t] # "idle"
  BY DEF serve, get_node, get_token_hash, get_contributor_ref, register, update_node,
         erase_node, consent_filter, filter_new, append
<1>2. /\ IsFiniteSet(req[t].rows) /\ bodyRows(t) \in Nat
      /\ IsFiniteSet(todo[t]) /\ Cardinality(todo[t]) \in Nat /\ kind[t] \in Kinds
  BY <1>1, CallsAreCounted
<1>3. CASE Leave(t)
  BY <1>1, <1>3, AnsweredCalls
<1>4. CASE get_node(t) /\ ~Leave(t)
  <2>1. PICK label \in {"get_contributor_ref", "get_token_hash"} :
          pc[t] = "get_node" /\ Goto(t, label) /\ UNCHANGED req
    BY <1>4 DEF get_node, Answer
  <2>2. pc'[t] = label /\ bodyRows(t)' = bodyRows(t)
    BY <2>1, NextCall
  <2>3. CallsLeft(t) = 2 * bodyRows(t) + 5 /\ CallsLeft(t)' = 2 * bodyRows(t) + 4
    BY <2>1, <2>2 DEF CallsLeft
  <2> QED
    BY <1>1, <1>2, <2>3
<1>5. ASSUME pc[t] \in {"get_token_hash", "get_contributor_ref"}, NEW ok, Authorised(t, ok),
             ~Leave(t), req[t].op # "register"
      PROVE  CallsLeft(t)' < CallsLeft(t) /\ CallsLeft(t)' \in Nat
  <2>1. req[t] \in RequestType
    BY <1>1, RequestsAssumption DEF IInv, TypeOK, ThreadTypeOK, ThreadOK
  <2>2. AfterAuth(req[t].op) \in {"consent_filter", "update_consent", "delete_node"}
    BY <1>5, <2>1 DEF AfterAuth, RequestType
  <2>3. Goto(t, AfterAuth(req[t].op)) /\ UNCHANGED req
    BY <1>5 DEF Authorised, Answer
  <2>4. pc'[t] = AfterAuth(req[t].op) /\ bodyRows(t)' = bodyRows(t)
    BY <2>3, NextCall
  <2>5. CallsLeft(t) = 2 * bodyRows(t) + 4 /\ CallsLeft(t)' \in {1, 2 * bodyRows(t) + 3}
    BY <1>5, <2>2, <2>4 DEF CallsLeft
  <2> QED
    BY <1>2, <2>5
<1>6. CASE (get_token_hash(t) \/ get_contributor_ref(t)) /\ ~Leave(t)
  <2>1. req[t].op # "register"
    BY <1>6 DEF get_token_hash, get_contributor_ref, IInv, ThreadOK, OnNode, Checked
  <2> QED
    BY <1>1, <1>5, <1>6, <2>1 DEF get_token_hash, get_contributor_ref
<1>7. CASE consent_filter(t) /\ ~Leave(t)
  <2>1. /\ pc[t] = "consent_filter" /\ Goto(t, "filter_new") /\ UNCHANGED <<req, kind>>
        /\ todo' = [todo EXCEPT ![t] = of_kind("electrical", accepted(t))]
    BY <1>7 DEF consent_filter, Answer
  <2>2. pc'[t] = "filter_new" /\ bodyRows(t)' = bodyRows(t)
    BY <2>1, NextCall
  <2>3. todo'[t] = of_kind("electrical", accepted(t))
    BY <2>1 DEF IInv, TypeOK, ThreadTypeOK
  <2>4. Cardinality(todo'[t]) \in Nat /\ Cardinality(todo'[t]) <= bodyRows(t)
    BY <1>2, <2>3, FewerRows
  <2>5. /\ CallsLeft(t) = 2 * bodyRows(t) + 3
        /\ CallsLeft(t)' = Cardinality(todo'[t]) + 1
                           + (IF kind[t] = "electrical" THEN bodyRows(t) + 1 ELSE 0)
    BY <2>1, <2>2 DEF CallsLeft
  <2> QED
    BY <1>1, <1>2, <2>4, <2>5
<1>8. CASE filter_new(t)
  <2>1. PICK r \in todo[t] : todo' = [todo EXCEPT ![t] = @ \ {r}]
    BY <1>8 DEF filter_new
  <2>2. pc[t] = "filter_new" /\ UNCHANGED <<pc, req, kind>>
    BY <1>8 DEF filter_new
  <2>3. todo'[t] = todo[t] \ {r}
    BY <2>1 DEF IInv, TypeOK, ThreadTypeOK
  <2>4. Cardinality(todo'[t]) = Cardinality(todo[t]) - 1
    BY <1>2, <2>1, <2>3, FS_RemoveElement
  <2>5. bodyRows(t)' = bodyRows(t)
    BY <2>2 DEF bodyRows
  <2>6. CallsLeft(t)' = CallsLeft(t) - 1 /\ CallsLeft(t) \in Nat
    BY <1>2, <2>2, <2>4, <2>5 DEF CallsLeft
  <2> QED
    BY <1>1, <2>6, CallsAreCounted
<1>9. CASE append(t) /\ ~Leave(t)
  <2>1. /\ pc[t] = "filter_new" /\ todo[t] = {} /\ kind[t] = "electrical"
        /\ kind' = [kind EXCEPT ![t] = "weather"]
        /\ todo' = [todo EXCEPT ![t] = of_kind("weather", accepted(t))]
        /\ UNCHANGED <<pc, req>>
    BY <1>9 DEF append
  <2>2. kind'[t] = "weather" /\ todo'[t] = of_kind("weather", accepted(t))
    BY <2>1 DEF IInv, TypeOK, ThreadTypeOK
  <2>3. Cardinality(todo'[t]) \in Nat /\ Cardinality(todo'[t]) <= bodyRows(t)
    BY <1>2, <2>2, FewerRows
  <2>4. CallsLeft(t) = 0 + 1 + (bodyRows(t) + 1)
    BY <2>1, FS_EmptySet DEF CallsLeft
  <2>5. CallsLeft(t)' = Cardinality(todo'[t]) + 1 + 0
    BY <2>1, <2>2 DEF CallsLeft
  <2> QED
    BY <1>1, <1>2, <2>3, <2>4, <2>5
<1> QED
  BY <1>3, <1>4, <1>6, <1>7, <1>8, <1>9
  DEF serve, register, update_node, erase_node, Answer

\* The lock of filter_new is free at the start.
LEMMA InitHolder == Init => LockHolderGoesOn
BY DEF Init, StagingInit, LockHolderGoesOn

\* A step of thread t that leaves the lock alone, and is not one in the loop.
LEMMA HolderStays ==
    ASSUME IInv, LockHolderGoesOn, UNCHANGED lock, NEW t \in Threads,
           pc[t] # "filter_new" \/ todo[t] = {},
           \A u \in Threads \ {t} : pc'[u] = pc[u] /\ todo'[u] = todo[u]
    PROVE  LockHolderGoesOn'
BY DEF IInv, TypeOK, StagingTypeOK, LockHolderGoesOn

\* What a step other than one of filter_new does to the lists of other threads.
LEMMA OwnLists ==
    ASSUME IInv, NEW t \in Threads,
           begin(t) \/ (serve(t) /\ ~filter_new(t)) \/ append_fails(t)
    PROVE  /\ UNCHANGED lock
           /\ pc[t] # "filter_new" \/ todo[t] = {}
           /\ \A u \in Threads \ {t} : /\ pc'[u] = pc[u] /\ req'[u] = req[u]
                                       /\ kind'[u] = kind[u] /\ todo'[u] = todo[u]
<1>1. CASE begin(t)
  BY <1>1 DEF begin, Goto, stagingVars, IInv, TypeOK, ThreadTypeOK
<1>2. ASSUME Leave(t)
      PROVE  \A u \in Threads \ {t} : /\ pc'[u] = pc[u] /\ req'[u] = req[u]
                                      /\ kind'[u] = kind[u] /\ todo'[u] = todo[u]
  BY <1>2 DEF Leave, IInv, TypeOK, ThreadTypeOK
<1>3. CASE get_node(t)
  BY <1>2, <1>3 DEF get_node, Goto, Answer, stagingVars, IInv, TypeOK, ThreadTypeOK
<1>4. CASE get_token_hash(t) \/ get_contributor_ref(t)
  BY <1>2, <1>4 DEF get_token_hash, get_contributor_ref, Authorised, Goto, Answer,
                    stagingVars, IInv, TypeOK, ThreadTypeOK
<1>5. CASE register(t) \/ update_node(t) \/ erase_node(t)
  BY <1>2, <1>5 DEF register, update_node, erase_node, Answer, stagingVars
<1>6. CASE consent_filter(t)
  BY <1>2, <1>6 DEF consent_filter, Goto, Answer, stagingVars, IInv, TypeOK, ThreadTypeOK
<1>7. CASE append(t)
  BY <1>2, <1>7 DEF append, append_rows, IInv, TypeOK, ThreadTypeOK
<1>8. CASE append_fails(t)
  BY <1>2, <1>8 DEF append_fails, append_rows
<1> QED
  BY <1>1, <1>3, <1>4, <1>5, <1>6, <1>7, <1>8 DEF serve

\* filter_new takes the lock, keeps it while rows are left, and lets it go.
LEMMA LoopHolds ==
    ASSUME IInv, NEW t \in Threads, filter_new(t)
    PROVE  LockHolderGoesOn'
<1>1. PICK r \in todo[t] :
         /\ lock' = IF todo[t] = {r} THEN NoThread ELSE t
         /\ todo' = [todo EXCEPT ![t] = @ \ {r}]
  BY DEF filter_new, filter_row
<1>2. pc'[t] = "filter_new" /\ todo'[t] = todo[t] \ {r}
  BY <1>1 DEF filter_new, IInv, TypeOK, ThreadTypeOK
<1> QED
  BY <1>1, <1>2 DEF LockHolderGoesOn

\* Every step leaves the holder of the lock in the loop.
LEMMA HolderStep == IInv /\ LockHolderGoesOn /\ [Next]_vars => LockHolderGoesOn'
<1> SUFFICES ASSUME IInv, LockHolderGoesOn, [Next]_vars PROVE LockHolderGoesOn'
  OBVIOUS
<1>1. ASSUME NEW t \in Threads,
             begin(t) \/ (serve(t) /\ ~filter_new(t)) \/ append_fails(t)
      PROVE  LockHolderGoesOn'
  BY <1>1, OwnLists, HolderStays
<1>2. ASSUME NEW t \in Threads, filter_new(t) PROVE LockHolderGoesOn'
  BY <1>2, LoopHolds
<1>3. CASE restart
  BY <1>3 DEF restart, lose_window, LockHolderGoesOn
<1>4. CASE UNCHANGED vars
  BY <1>4 DEF vars, stagingVars, threadVars, LockHolderGoesOn
<1> QED
  BY <1>1, <1>2, <1>3, <1>4 DEF Next

\* Deduper.filter_new: whoever holds the lock is in its loop with a row left, so
\* waiting for the lock never becomes a deadlock.
THEOREM LockIsHeldInTheLoop == Spec => []LockHolderGoesOn
BY InitHolder, HolderStep, InductiveInvariant, PTL DEF Spec

\* The steps a request still takes never become more.
LEMMA NextShortens ==
    ASSUME IInv, [Next]_vars, \A q \in Requests : IsFiniteSet(q.rows), NEW u \in Threads,
           pc[u] # "idle"
    PROVE  CallsLeft(u)' <= CallsLeft(u)
<1>1. CallsLeft(u) \in Nat
  BY CallsAreCounted
<1>2. CASE pc'[u] = "idle"
  <2>1. CallsLeft(u)' = 0
    BY <1>2 DEF CallsLeft
  <2> QED
    BY <1>1, <2>1
<1>3. ASSUME pc'[u] = pc[u], req'[u] = req[u], kind'[u] = kind[u], todo'[u] = todo[u]
      PROVE  CallsLeft(u)' <= CallsLeft(u)
  BY <1>1, <1>3, SameCalls
<1>4. CASE serve(u)
  BY <1>1, <1>4, ServeShortens
<1>5. ASSUME NEW t \in Threads, t # u, begin(t) \/ serve(t) \/ append_fails(t)
      PROVE  CallsLeft(u)' <= CallsLeft(u)
  <2>1. CASE filter_new(t)
    BY <1>3, <1>5, <2>1 DEF filter_new, IInv, TypeOK, ThreadTypeOK
  <2>2. CASE ~filter_new(t)
    BY <1>3, <1>5, <2>2, OwnLists
  <2> QED
    BY <2>1, <2>2
<1>6. ~begin(u)
  BY DEF begin
<1>7. CASE append_fails(u)
  <2>1. pc'[u] = "idle"
    BY <1>7 DEF append_fails, Leave, IInv, TypeOK, ThreadTypeOK
  <2> QED
    BY <1>2, <2>1
<1>8. CASE restart
  BY <1>2, <1>8 DEF restart
<1>9. CASE UNCHANGED vars
  BY <1>3, <1>9 DEF vars, threadVars
<1> QED
  BY <1>4, <1>5, <1>6, <1>7, <1>8, <1>9 DEF Next

\* post_samples, register_node, update_node, erase_node: a request of n rows is
\* answered after at most 2n + 5 steps of its thread, and what other threads do
\* in between - evict keys, change or erase the node - never adds one.
THEOREM RequestsAreShort ==
    ASSUME \A q \in Requests : IsFiniteSet(q.rows)
    PROVE  Spec => RequestsAreBounded
<1>1. ASSUME IInv, [Next]_vars PROVE RequestsShorten
  BY <1>1, ServeShortens, NextShortens DEF RequestsShorten
<1> QED
  BY <1>1, InductiveInvariant, PTL DEF Spec, RequestsAreBounded

================================================================================
