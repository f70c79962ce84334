---------------------------- MODULE ConfigEntryProofs ----------------------------
(***************************************************************************)
(* What the configuration entry of a node and its record on the server     *)
(* keep in common, for any numbers of nodes and of flows open at once, and *)
(* any calls and answers that get lost.                                    *)
(***************************************************************************)
EXTENDS ConfigEntry, TLAPS

--------------------------------------------------------------------------------
(* The invariant.                                                          *)

\* The node's record is what flow f submitted and was answered.
Served(f) ==
    LET n == target[f]  loc == form[f].loc IN
    /\ nodes[n].channels = form[f].channels
    /\ nodes[n].loc_tier = loc.tier /\ nodes[n].loc_ref = answer[f]
    /\ loc.tier = "data_share" <=> node_private[n].postcode # None

\* The node's record is what its entry shows.
Shown(n) ==
    /\ entries[n].channels = nodes[n].channels
    /\ entries[n].loc_tier = nodes[n].loc_tier /\ entries[n].loc_ref = nodes[n].loc_ref
    /\ entries[n].loc_tier = "data_share" <=> node_private[n].postcode # None

\* A flow, and what it may rely on when it is answered.
FlowOK(f) ==
    LET n == target[f] IN
    /\ IF pc[f] \in {"closed", "register"} THEN n = None
       ELSE n \in Nodes /\ nodes[n].status # "absent"
    /\ pc[f] \in {"register", "create_entry", "update_consent", "apply"} => form[f] \in Form
    /\ pc[f] = "create_entry" =>
         Live(n) /\ entries[n] = None /\ n \notin known /\ Served(f)
    /\ pc[f] \in {"update_consent", "apply"} =>
         /\ current[f] \in SUBSET Sensors
         /\ entries[n] # None => Sensors \ withheld[n] \subseteq current[f]
         /\ Channels \ form[f].channels \subseteq withheld[n]
    /\ pc[f] = "apply" /\ n \notin disturbed /\ Live(n) => Served(f)
    /\ pc[f] = "remove" /\ n \notin disturbed => ~Live(n)

\* Two flows at work on a node have disturbed each other, and none of them is
\* creating its entry.
AloneOK ==
    \A f, g \in Flows : f # g /\ target[f] = target[g] /\ target[f] # None =>
        target[f] \in disturbed /\ pc[f] # "create_entry"

\* A node, its record and its entry, but for what a flow is about to write.
NodeOK(n) ==
    /\ n \in known => nodes[n].status # "absent"
    /\ entries[n] # None => n \in known
    /\ n \in listening => entries[n] # None
    /\ Live(n) <=> node_private[n] # None
    /\ entries[n] # None => Sensors \ withheld[n] \subseteq entries[n].mapping
    /\ /\ n \notin disturbed /\ \A f \in Flows : target[f] = n => pc[f] # "apply"
       /\ entries[n] # None /\ Live(n)
       => Shown(n)
    /\ /\ n \notin disturbed
       /\ \A f \in Flows : target[f] = n => pc[f] \notin {"create_entry", "remove"}
       => (Live(n) <=> entries[n] # None)

ConfigInv ==
    /\ TypeOK /\ AloneOK
    /\ \A f \in Flows : FlowOK(f)
    /\ \A n \in Nodes : NodeOK(n)

--------------------------------------------------------------------------------
(* What the methods of the store do to the record of a node.               *)

\* What a location body that is complete publishes and keeps.
LEMMA LocationTypes ==
    ASSUME NEW loc \in LocBody, ~location_incomplete(loc)
    PROVE  /\ loc.tier \in LocTier /\ resolved_loc_ref(loc) \in {None} \cup LocRef
           /\ stored_postcode(loc) \in Postcodes \cup {None}
           /\ loc.tier = "data_share" <=> stored_postcode(loc) # None
<1> USE NodeStoreAssumption
<1>1. /\ loc.tier \in {"anon", "region", "data_share"} /\ loc.region \in Regions \cup {None}
      /\ loc.postcode \in Postcodes \cup {None}
  BY DEF LocBody, LocTier
<1>2. CASE loc.tier = "anon"
  BY <1>1, <1>2 DEF resolved_loc_ref, stored_postcode, LocTier
<1>3. CASE loc.tier = "region"
  <2>1. loc.region \in Regions
    BY <1>1, <1>3 DEF location_incomplete
  <2> QED
    BY <1>3, <2>1 DEF resolved_loc_ref, stored_postcode, LocTier, LocRef
<1>4. CASE loc.tier = "data_share"
  <2>1. loc.postcode \in Postcodes
    BY <1>1, <1>4 DEF location_incomplete
  <2> QED
    BY <1>4, <2>1 DEF resolved_loc_ref, stored_postcode, LocTier, LocRef
<1> QED
  BY <1>1, <1>2, <1>3, <1>4

\* The rows of other nodes are left alone.
OtherRows(n) ==
    \A m \in Nodes \ {n} : nodes'[m] = nodes[m] /\ node_private'[m] = node_private[m]

LEMMA CreateStore ==
    ASSUME StoreTypeOK, NEW n \in Nodes, NEW channels \in SUBSET Channels,
           NEW loc \in LocBody, ~location_incomplete(loc),
           create_node(n, channels, loc, None)
    PROVE  /\ StoreTypeOK' /\ OtherRows(n) /\ nodes[n].status = "absent"
           /\ nodes'[n] = [status |-> "live", channels |-> channels, loc_tier |-> loc.tier,
                           loc_ref |-> resolved_loc_ref(loc)]
           /\ node_private'[n] # None
           /\ loc.tier = "data_share" <=> node_private'[n].postcode # None
<1> DEFINE row == [postcode |-> stored_postcode(loc), contributor_ref |-> None]
           rec == [status |-> "live", channels |-> channels, loc_tier |-> loc.tier,
                   loc_ref |-> resolved_loc_ref(loc)]
<1>1. /\ nodes' = [nodes EXCEPT ![n] = rec] /\ tokens' = tokens \cup {n}
      /\ node_private' = [node_private EXCEPT ![n] = row] /\ UNCHANGED tombstones
      /\ nodes[n].status = "absent"
  BY DEF create_node
<1>2. rec \in NodeRec /\ row \in PrivateRec
  BY LocationTypes DEF NodeRec, PrivateRec
<1>3. row # None
  BY <1>2, NullIsNoRow
<1>4. loc.tier = "data_share" <=> row.postcode # None
  BY LocationTypes
<1> HIDE DEF rec, row
<1>5. StoreTypeOK' /\ OtherRows(n)
  BY <1>1, <1>2 DEF StoreTypeOK, OtherRows
<1>6. nodes'[n] = rec /\ node_private'[n] = row
  BY <1>1 DEF StoreTypeOK
<1>7. nodes'[n] = [status |-> "live", channels |-> channels, loc_tier |-> loc.tier,
                   loc_ref |-> resolved_loc_ref(loc)]
  BY <1>6 DEF rec
<1> QED
  BY <1>1, <1>3, <1>4, <1>5, <1>6, <1>7

LEMMA UpdateStore ==
    ASSUME StoreTypeOK, NEW n \in Nodes, NEW channels \in SUBSET Channels,
           NEW loc \in LocBody, ~location_incomplete(loc), node_private[n] # None,
           update_consent(n, channels, loc.tier, resolved_loc_ref(loc), stored_postcode(loc))
    PROVE  /\ StoreTypeOK' /\ OtherRows(n) /\ nodes'[n].status = nodes[n].status
           /\ nodes'[n].channels = channels /\ nodes'[n].loc_tier = loc.tier
           /\ nodes'[n].loc_ref = resolved_loc_ref(loc)
           /\ node_private'[n] # None
           /\ loc.tier = "data_share" <=> node_private'[n].postcode # None
<1> DEFINE row == [node_private[n] EXCEPT !.postcode = stored_postcode(loc)]
           rec == [nodes[n] EXCEPT !.channels = channels, !.loc_tier = loc.tier,
                                   !.loc_ref = resolved_loc_ref(loc)]
<1>1. channels # None /\ loc.tier # None
  BY NodeStoreAssumption, LocationTypes DEF LocTier
<1>2. /\ node_private' = [node_private EXCEPT ![n] = row]
      /\ UNCHANGED <<tokens, tombstones>>
  BY <1>1 DEF update_consent
<1>3. nodes' = [nodes EXCEPT ![n] = rec]
  BY <1>1 DEF update_consent, StoreTypeOK
<1>4. nodes[n] \in NodeRec /\ node_private[n] \in PrivateRec
  BY DEF StoreTypeOK
<1>5. /\ rec \in NodeRec /\ rec.status = nodes[n].status /\ rec.channels = channels
      /\ rec.loc_tier = loc.tier /\ rec.loc_ref = resolved_loc_ref(loc)
  BY <1>4, LocationTypes DEF NodeRec
<1>6. row \in PrivateRec /\ row.postcode = stored_postcode(loc)
  BY <1>4, LocationTypes DEF PrivateRec
<1>7. row # None /\ (loc.tier = "data_share" <=> row.postcode # None)
  BY <1>6, NullIsNoRow, LocationTypes
<1> HIDE DEF rec, row
<1>8. StoreTypeOK' /\ OtherRows(n)
  BY <1>2, <1>3, <1>5, <1>6 DEF StoreTypeOK, OtherRows
<1>9. nodes'[n] = rec /\ node_private'[n] = row
  BY <1>2, <1>3 DEF StoreTypeOK
<1> QED
  BY <1>5, <1>7, <1>8, <1>9

LEMMA DeleteStore ==
    ASSUME StoreTypeOK, NEW n \in Nodes, Live(n), delete_node(n)
    PROVE  /\ StoreTypeOK' /\ OtherRows(n)
           /\ nodes'[n].status = "erased" /\ node_private'[n] = None
<1>1. /\ nodes' = [nodes EXCEPT ![n].status = "erased"] /\ tokens' = tokens \ {n}
      /\ node_private' = [node_private EXCEPT ![n] = None]
      /\ tombstones' = tombstones \cup {n}
  BY DEF delete_node
<1> QED
  BY <1>1 DEF StoreTypeOK, OtherRows, NodeRec

--------------------------------------------------------------------------------
(* What a step leaves alone.                                               *)

FlowAlone(g) ==
    /\ pc'[g] = pc[g] /\ target'[g] = target[g] /\ form'[g] = form[g]
    /\ current'[g] = current[g] /\ answer'[g] = answer[g]

Same(n) ==
    /\ nodes'[n] = nodes[n] /\ node_private'[n] = node_private[n] /\ entries'[n] = entries[n]
    /\ n \in known' <=> n \in known
    /\ n \in listening' => n \in listening

\* A flow is safe from steps of others, when its node is left alone or when
\* they have disturbed each other.
LEMMA FlowStays ==
    ASSUME NEW g \in Flows, FlowOK(g), FlowAlone(g), disturbed \subseteq disturbed',
           target[g] \in Nodes =>
             /\ nodes[target[g]].status # "absent" => nodes'[target[g]].status # "absent"
             /\ withheld[target[g]] \subseteq withheld'[target[g]]
             /\ \/ Same(target[g])
                \/ /\ target[g] \in disturbed /\ pc[g] # "create_entry"
                   /\ entries'[target[g]] # None => entries[target[g]] # None
    PROVE  FlowOK(g)'
<1>1. CASE pc[g] \in {"closed", "register"}
  BY <1>1 DEF FlowOK, FlowAlone
<1>2. CASE pc[g] \notin {"closed", "register"}
  <2>1. target[g] \in Nodes
    BY <1>2 DEF FlowOK
  <2>2. CASE Same(target[g])
    BY <1>2, <2>1, <2>2 DEF FlowOK, FlowAlone, Same, Served, Live
  <2>3. CASE /\ target[g] \in disturbed /\ pc[g] # "create_entry"
             /\ entries'[target[g]] # None => entries[target[g]] # None
    BY <1>2, <2>1, <2>3 DEF FlowOK, FlowAlone
  <2> QED
    BY <2>1, <2>2, <2>3
<1> QED
  BY <1>1, <1>2

\* A node, when no flow is through with it that had yet to write its entry.
LEMMA NodeStays ==
    ASSUME NEW m, NodeOK(m), Same(m), disturbed \subseteq disturbed',
           withheld[m] \subseteq withheld'[m],
           \A f \in Flows : target[f] = m /\ pc[f] \in {"apply", "create_entry", "remove"} =>
             target'[f] = m /\ pc'[f] = pc[f]
    PROVE  NodeOK(m)'
BY DEF NodeOK, Same, Live, Shown

LEMMA AloneStays ==
    ASSUME AloneOK, NEW f \in Flows, disturbed \subseteq disturbed',
           \A g \in Flows \ {f} :
             /\ target'[g] = target[g] /\ pc'[g] = pc[g]
             /\ target[g] = target'[f] /\ target'[f] # None =>
                  /\ target'[f] \in disturbed'
                  /\ pc[g] # "create_entry" /\ pc'[f] # "create_entry"
    PROVE  AloneOK'
<1> SUFFICES ASSUME NEW g \in Flows, NEW h \in Flows, g # h,
                    target'[g] = target'[h], target'[g] # None
             PROVE  target'[g] \in disturbed' /\ pc'[g] # "create_entry"
  BY DEF AloneOK
<1>1. CASE g # f /\ h # f
  BY <1>1 DEF AloneOK
<1>2. CASE g = f
  BY <1>2
<1>3. CASE h = f
  BY <1>3
<1> QED
  BY <1>1, <1>2, <1>3

--------------------------------------------------------------------------------
(* Types, and where the flows go.                                          *)

FlowTypes ==
    /\ pc \in [Flows -> Labels]
    /\ target \in [Flows -> {None} \cup Nodes]
    /\ form \in [Flows -> {None} \cup Form]
    /\ current \in [Flows -> {None} \cup SUBSET Sensors]
    /\ answer \in [Flows -> {None} \cup LocRef]
    /\ \A f \in Flows : pc[f] = "closed" => target[f] = None /\ form[f] = None

EntryTypes ==
    /\ entries \in [Nodes -> {None} \cup Config]
    /\ \A n \in Nodes : entries[n] # None => entries[n].mapping \subseteq entries[n].channels
    /\ capturing \in [Nodes -> SUBSET Sensors] /\ due \in [Nodes -> Nat]
    /\ known \subseteq Nodes /\ listening \subseteq Nodes /\ unheard \subseteq Nodes
    /\ disturbed \subseteq Nodes /\ withheld \in [Nodes -> SUBSET Channels]

LEMMA TypeParts == TypeOK <=> StoreTypeOK /\ FlowTypes /\ EntryTypes
BY DEF TypeOK, FlowTypes, EntryTypes

LEMMA TypePartsNext == TypeOK' <=> StoreTypeOK' /\ FlowTypes' /\ EntryTypes'
BY DEF TypeOK, FlowTypes, EntryTypes

LEMMA InitInv == Init => ConfigInv
<1> SUFFICES ASSUME Init PROVE ConfigInv
  OBVIOUS
<1> USE NodeStoreAssumption
<1>1. StoreTypeOK
  BY DEF Init, StoreInit, StoreTypeOK, NodeRec, LocTier
<1>2. FlowTypes /\ EntryTypes
  BY DEF Init, FlowTypes, EntryTypes, Labels
<1>3. AloneOK
  BY DEF Init, AloneOK
<1>4. \A f \in Flows : FlowOK(f)
  BY DEF Init, FlowOK
<1>5. \A n \in Nodes : NodeOK(n)
  BY DEF Init, StoreInit, NodeOK, Live
<1> QED
  BY <1>1, <1>2, <1>3, <1>4, <1>5, TypeParts DEF ConfigInv

LEMMA Closes ==
    ASSUME FlowTypes, NEW f \in Flows, Close(f)
    PROVE  /\ FlowTypes' /\ pc'[f] = "closed" /\ target'[f] = None
           /\ \A g \in Flows \ {f} : FlowAlone(g)
BY DEF FlowTypes, Close, At, FlowAlone, Labels

LEMMA GetsAnswer ==
    ASSUME FlowTypes, NEW f \in Flows, NEW n \in Nodes, NEW label \in Labels \ {"closed"},
           NEW loc_ref \in {None} \cup LocRef, Answered(f, n, label, loc_ref)
    PROVE  /\ FlowTypes' /\ pc'[f] = label /\ target'[f] = n /\ answer'[f] = loc_ref
           /\ form'[f] = form[f] /\ current'[f] = current[f]
           /\ \A g \in Flows \ {f} : FlowAlone(g)
BY DEF FlowTypes, Answered, At, FlowAlone

\* What the user submits is a form.
LEMMA SharedIsForm ==
    ASSUME NEW ticked \in SUBSET Channels, NEW loc \in Locations
    PROVE  [channels |-> Shared(ticked), loc |-> loc] \in Form
BY ConfigEntryAssumption DEF Form, Shared

LEMMA FormTypes ==
    ASSUME NEW x \in Form
    PROVE  x.channels \in SUBSET Channels /\ x.loc \in LocBody
BY ConfigEntryAssumption DEF Form

--------------------------------------------------------------------------------
(* Registration.                                                           *)

LEMMA UserKeeps ==
    ASSUME ConfigInv, NEW f \in Flows, async_step_user(f)
    PROVE  ConfigInv'
<1>1. /\ pc[f] = "closed" /\ pc' = [pc EXCEPT ![f] = "register"]
      /\ \E x \in Form : form' = [form EXCEPT ![f] = x]
      /\ UNCHANGED <<storeVars, entries, known, capturing, listening, due, unheard>>
      /\ UNCHANGED <<target, current, answer, disturbed, withheld>>
  BY SharedIsForm DEF async_step_user, At, entryVars, setupVars
<1>2. /\ pc'[f] = "register" /\ form'[f] \in Form /\ target'[f] = None
      /\ \A g \in Flows \ {f} : FlowAlone(g)
  BY <1>1 DEF ConfigInv, TypeOK, FlowAlone
<1>3. TypeOK'
  <2>1. FlowTypes'
    BY <1>1, <1>2, TypeParts DEF ConfigInv, FlowTypes, Labels
  <2> QED
    BY <1>1, <2>1, TypeParts, TypePartsNext DEF ConfigInv, StoreTypeOK, EntryTypes, storeVars
<1>4. AloneOK'
  BY <1>1, <1>2, AloneStays DEF ConfigInv, FlowAlone
<1>5. ASSUME NEW g \in Flows PROVE FlowOK(g)'
  <2>1. CASE g # f
    <3>1. FlowOK(g) /\ FlowAlone(g) /\ Same(target[g])
      BY <1>1, <1>2, <2>1 DEF ConfigInv, Same, storeVars
    <3>2. nodes' = nodes /\ withheld' = withheld /\ disturbed' = disturbed
      BY <1>1 DEF storeVars
    <3> QED
      BY <3>1, <3>2, FlowStays
  <2>2. CASE g = f
    BY <1>2, <2>2 DEF FlowOK
  <2> QED
    BY <2>1, <2>2
<1>6. ASSUME NEW m \in Nodes PROVE NodeOK(m)'
  BY <1>1, <1>2, NodeStays DEF ConfigInv, Same, storeVars, FlowAlone
<1> QED
  BY <1>3, <1>4, <1>5, <1>6 DEF ConfigInv

\* A flow that gives up while the server and the entries stay as they are, and
\* that has nothing to write to an entry.
LEMMA GiveUpKeeps ==
    ASSUME ConfigInv, NEW f \in Flows, Close(f),
           UNCHANGED <<storeVars, entries, known, capturing, listening, due, unheard, withheld>>,
           pc[f] \notin {"apply", "create_entry", "remove"} \/ target[f] \in disturbed',
           disturbed \subseteq disturbed', disturbed' \subseteq Nodes
    PROVE  ConfigInv'
<1>1. /\ FlowTypes' /\ pc'[f] = "closed" /\ target'[f] = None
      /\ \A g \in Flows \ {f} : FlowAlone(g)
  BY Closes, TypeParts DEF ConfigInv
<1>2. TypeOK'
  BY <1>1, TypeParts, TypePartsNext DEF ConfigInv, StoreTypeOK, EntryTypes, storeVars
<1>3. AloneOK'
  BY <1>1, AloneStays DEF ConfigInv, FlowAlone
<1>4. ASSUME NEW g \in Flows PROVE FlowOK(g)'
  <2>1. CASE g # f
    <3>1. FlowOK(g) /\ FlowAlone(g) /\ Same(target[g])
      BY <1>1, <2>1 DEF ConfigInv, Same, storeVars
    <3>2. nodes' = nodes /\ withheld' = withheld /\ disturbed \subseteq disturbed'
      BY DEF storeVars
    <3> QED
      BY <3>1, <3>2, FlowStays
  <2>2. CASE g = f
    BY <1>1, <2>2 DEF FlowOK
  <2> QED
    BY <2>1, <2>2
<1>5. ASSUME NEW m \in Nodes PROVE NodeOK(m)'
  <2>1. CASE m = target[f] /\ m \in disturbed'
    BY <2>1 DEF ConfigInv, NodeOK, storeVars, Live
  <2>2. CASE m # target[f] \/ pc[f] \notin {"apply", "create_entry", "remove"}
    BY <1>1, <2>2, NodeStays DEF ConfigInv, Same, storeVars, FlowAlone
  <2> QED
    BY <2>1, <2>2
<1> QED
  BY <1>2, <1>3, <1>4, <1>5 DEF ConfigInv

\* The bystanders of a step that changes rows, entry and flow of one node: no
\* other flow is at work on it, or both have disturbed each other.
LEMMA OtherFlows ==
    ASSUME ConfigInv, NEW f \in Flows, NEW n \in Nodes, disturbed \subseteq disturbed',
           \A g \in Flows \ {f} : FlowAlone(g),
           nodes[n].status # "absent" => nodes'[n].status # "absent",
           \A m \in Nodes \ {n} : Same(m) /\ withheld'[m] = withheld[m],
           \A g \in Flows \ {f} : target[g] = n =>
             /\ n \in disturbed /\ pc[g] # "create_entry"
             /\ withheld[n] \subseteq withheld'[n]
             /\ entries'[n] # None => entries[n] # None
    PROVE  \A g \in Flows \ {f} : FlowOK(g)'
<1> SUFFICES ASSUME NEW g \in Flows \ {f} PROVE FlowOK(g)'
  OBVIOUS
<1>1. FlowOK(g) /\ FlowAlone(g)
  BY DEF ConfigInv
<1>2. CASE target[g] = n
  BY <1>1, <1>2, FlowStays
<1>3. CASE target[g] # n
  <2>1. target[g] \in Nodes => Same(target[g]) /\ withheld'[target[g]] = withheld[target[g]]
    BY <1>3
  <2>2. target[g] \in Nodes /\ nodes[target[g]].status # "absent" => nodes'[target[g]].status # "absent"
    BY <1>3 DEF Same
  <2> QED
    BY <1>1, <2>1, <2>2, FlowStays
<1> QED
  BY <1>2, <1>3

LEMMA OtherNodes ==
    ASSUME ConfigInv, NEW f \in Flows, NEW n \in Nodes, disturbed \subseteq disturbed',
           \A g \in Flows \ {f} : FlowAlone(g), target[f] \in {None, n},
           \A m \in Nodes \ {n} : Same(m) /\ withheld'[m] = withheld[m]
    PROVE  \A m \in Nodes \ {n} : NodeOK(m)'
<1> SUFFICES ASSUME NEW m \in Nodes \ {n} PROVE NodeOK(m)'
  OBVIOUS
<1>1. NodeOK(m) /\ Same(m) /\ withheld'[m] = withheld[m]
  BY DEF ConfigInv
<1>2. target[f] # m
  BY NodeStoreAssumption
<1>3. \A g \in Flows : target[g] = m => target'[g] = m /\ pc'[g] = pc[g]
  BY <1>2 DEF FlowAlone
<1> QED
  BY <1>1, <1>3, NodeStays

\* Nobody is at work on a node that is not there.
LEMMA AbsentAlone ==
    ASSUME ConfigInv, NEW n \in Nodes, nodes[n].status = "absent"
    PROVE  entries[n] = None /\ n \notin known /\ \A g \in Flows : target[g] # n
BY NodeStoreAssumption DEF ConfigInv, NodeOK, FlowOK

LEMMA RegisterKeeps ==
    ASSUME ConfigInv, NEW f \in Flows, register(f)
    PROVE  ConfigInv'
<1> USE NodeStoreAssumption
<1>1. /\ pc[f] = "register" /\ target[f] = None /\ form[f] \in Form
      /\ UNCHANGED <<entries, known, capturing, listening, due, unheard, withheld>>
  BY DEF register, ConfigInv, FlowOK, entryVars, setupVars
<1>2. CASE Close(f) /\ UNCHANGED <<storeVars, disturbed>>
  BY <1>1, <1>2, GiveUpKeeps DEF ConfigInv, TypeOK
<1>3. ASSUME NEW n \in Nodes,
             ~location_incomplete(form[f].loc),
             create_node(n, form[f].channels, form[f].loc, None),
             \/ /\ Answered(f, n, "create_entry", resolved_loc_ref(form[f].loc))
                /\ UNCHANGED disturbed
             \/ Close(f) /\ disturbed' = disturbed \cup {n}
      PROVE  ConfigInv'
  <2> DEFINE loc == form[f].loc
  <2>1. form[f].channels \in SUBSET Channels /\ loc \in LocBody
    BY <1>1, FormTypes
  <2>2. resolved_loc_ref(loc) \in {None} \cup LocRef
    BY <1>3, <2>1, LocationTypes
  <2>3. /\ StoreTypeOK' /\ OtherRows(n) /\ nodes[n].status = "absent"
        /\ nodes'[n] = [status |-> "live", channels |-> form[f].channels, loc_tier |-> loc.tier,
                        loc_ref |-> resolved_loc_ref(loc)]
        /\ node_private'[n] # None
        /\ loc.tier = "data_share" <=> node_private'[n].postcode # None
    BY <1>3, <2>1, CreateStore DEF ConfigInv, TypeOK
  <2>4. entries[n] = None /\ n \notin known /\ \A g \in Flows : target[g] # n
    BY <2>3, AbsentAlone
  <2>5. disturbed \subseteq disturbed' /\ disturbed' \subseteq Nodes
    BY <1>3 DEF ConfigInv, TypeOK
  <2>6. /\ FlowTypes' /\ \A g \in Flows \ {f} : FlowAlone(g)
        /\ \/ /\ pc'[f] = "create_entry" /\ target'[f] = n /\ form'[f] = form[f]
              /\ answer'[f] = resolved_loc_ref(loc)
           \/ pc'[f] = "closed" /\ target'[f] = None /\ n \in disturbed'
    <3>1. FlowTypes
      BY TypeParts DEF ConfigInv
    <3>2. CASE Close(f) /\ disturbed' = disturbed \cup {n}
      BY <3>1, <3>2, Closes
    <3>3. CASE Answered(f, n, "create_entry", resolved_loc_ref(loc))
      <4>1. "create_entry" \in Labels \ {"closed"}
        BY DEF Labels
      <4> HIDE DEF loc
      <4> QED
        BY <2>2, <3>1, <3>3, <4>1, GetsAnswer
    <3> QED
      BY <1>3, <3>2, <3>3
  <2>7. TypeOK'
    BY <1>1, <2>3, <2>5, <2>6, TypeParts, TypePartsNext DEF ConfigInv, EntryTypes
  <2>8. AloneOK'
    BY <2>4, <2>5, <2>6, AloneStays DEF ConfigInv, FlowAlone
  <2>9. \A m \in Nodes \ {n} : Same(m) /\ withheld'[m] = withheld[m]
    BY <1>1, <2>3 DEF OtherRows, Same
  <2>10. \A g \in Flows \ {f} : FlowOK(g)'
    BY <1>1, <2>3, <2>4, <2>5, <2>6, <2>9, OtherFlows
  <2>11. FlowOK(f)'
    <3>1. CASE pc'[f] = "closed" /\ target'[f] = None
      BY <3>1 DEF FlowOK
    <3>2. CASE pc'[f] = "create_entry" /\ target'[f] = n /\ form'[f] = form[f]
               /\ answer'[f] = resolved_loc_ref(loc)
      <4>1. n \notin known'
        BY <1>1, <2>4
      <4> QED
        BY <1>1, <2>3, <2>4, <3>2, <4>1 DEF FlowOK, Served, Live
    <3> QED
      BY <2>6, <3>1, <3>2
  <2>12. NodeOK(n)'
    <3>1. /\ nodes'[n].status = "live" /\ entries'[n] = None
          /\ n \notin known' /\ n \notin listening'
      BY <1>1, <2>3, <2>4 DEF ConfigInv, NodeOK
    <3>2. n \in disturbed' \/ (target'[f] = n /\ pc'[f] = "create_entry")
      BY <2>6
    <3> QED
      BY <2>3, <3>1, <3>2 DEF NodeOK, Live
  <2>13. \A m \in Nodes \ {n} : NodeOK(m)'
    BY <1>1, <2>5, <2>6, <2>9, OtherNodes
  <2> QED
    BY <2>7, <2>8, <2>10, <2>11, <2>12, <2>13 DEF ConfigInv
<1> QED
  BY <1>2, <1>3 DEF register

\* While the flow that creates the entry is at it, or an undisturbed one is at
\* work, no other is.
LEMMA NoOther ==
    ASSUME ConfigInv, NEW f \in Flows, target[f] \in Nodes, NEW g \in Flows \ {f},
           target[g] = target[f]
    PROVE  target[f] \in disturbed /\ pc[f] # "create_entry" /\ pc[g] # "create_entry"
BY NodeStoreAssumption DEF ConfigInv, AloneOK

LEMMA CreateEntryKeeps ==
    ASSUME ConfigInv, NEW f \in Flows, create_entry(f)
    PROVE  ConfigInv'
<1> USE NodeStoreAssumption
<1>0. PICK n \in Nodes : n = target[f]
  BY DEF create_entry, ConfigInv, FlowOK
<1> DEFINE mapping == Mapped(form[f].channels, Sensors)
           config == [channels |-> form[f].channels, loc_tier |-> form[f].loc.tier,
                      loc_ref |-> answer[f], mapping |-> mapping]
<1>1. /\ pc[f] = "create_entry" /\ form[f] \in Form
      /\ Live(n) /\ entries[n] = None /\ Served(f)
  BY <1>0 DEF create_entry, ConfigInv, FlowOK
<1>2. /\ entries' = [entries EXCEPT ![n] = config]
      /\ capturing' = [capturing EXCEPT ![n] = mapping]
      /\ withheld' = [withheld EXCEPT ![n] = Channels \ form[f].channels]
      /\ known' = known \cup {n} /\ Close(f)
      /\ UNCHANGED <<storeVars, listening, due, unheard, disturbed>>
  BY <1>0 DEF create_entry
<1>3. config \in Config /\ mapping \subseteq form[f].channels /\ mapping \subseteq Sensors
  <2>1. form[f].channels \in SUBSET Channels /\ form[f].loc.tier \in LocTier
    BY <1>1, FormTypes DEF LocBody
  <2>2. answer[f] \in {None} \cup LocRef
    BY DEF ConfigInv, TypeOK
  <2> QED
    BY <2>1, <2>2 DEF Config, Mapped
<1>4. config # None /\ config.mapping = mapping /\ config.channels = form[f].channels
      /\ config.loc_tier = form[f].loc.tier /\ config.loc_ref = answer[f]
  BY <1>3, NullIsNoEntry
<1>5. Sensors \ (Channels \ form[f].channels) \subseteq mapping
  BY ConfigEntryAssumption DEF Mapped
<1> HIDE DEF config, mapping
<1>6. /\ entries'[n] = config /\ withheld'[n] = Channels \ form[f].channels
      /\ \A m \in Nodes \ {n} : Same(m) /\ withheld'[m] = withheld[m]
  BY <1>1, <1>2 DEF ConfigInv, TypeOK, Same, storeVars
<1>7. /\ FlowTypes' /\ pc'[f] = "closed" /\ target'[f] = None
      /\ \A g \in Flows \ {f} : FlowAlone(g)
  BY <1>2, Closes, TypeParts DEF ConfigInv
<1>8. TypeOK'
  <2>1. StoreTypeOK'
    BY <1>2 DEF ConfigInv, TypeOK, StoreTypeOK, storeVars
  <2>2. EntryTypes'
    <3>1. EntryTypes
      BY TypeParts DEF ConfigInv
    <3>2. \A m \in Nodes : entries'[m] # None => entries'[m].mapping \subseteq entries'[m].channels
      BY <1>3, <1>4, <1>6, <3>1 DEF EntryTypes, Same
    <3>3. Channels \ form[f].channels \in SUBSET Channels
      OBVIOUS
    <3> QED
      BY <1>1, <1>2, <1>3, <3>1, <3>2, <3>3 DEF EntryTypes
  <2> QED
    BY <1>7, <2>1, <2>2, TypePartsNext
<1>9. AloneOK'
  BY <1>2, <1>7, AloneStays DEF ConfigInv, FlowAlone
<1>10. \A g \in Flows : FlowOK(g)'
  <2>1. \A g \in Flows \ {f} : target[g] # n
    BY <1>0, <1>1, NoOther
  <2>2. \A g \in Flows \ {f} : FlowOK(g)'
    <3>1. nodes[n].status # "absent" => nodes'[n].status # "absent"
      BY <1>2 DEF storeVars
    <3> QED
      BY <1>1, <1>2, <1>6, <1>7, <2>1, <3>1, OtherFlows
  <2>3. FlowOK(f)'
    BY <1>7 DEF FlowOK
  <2> QED
    BY <2>2, <2>3
<1>11. NodeOK(n)'
  <2>1. Shown(n)'
    BY <1>0, <1>1, <1>2, <1>4, <1>6 DEF Shown, Served, storeVars
  <2>2. Live(n)' /\ entries'[n] # None /\ node_private'[n] = node_private[n] /\ node_private[n] # None
    BY <1>1, <1>2, <1>4, <1>6 DEF Live, storeVars, ConfigInv, NodeOK
  <2>3. Sensors \ withheld'[n] \subseteq entries'[n].mapping
    BY <1>4, <1>5, <1>6
  <2>4. n \in known'
    BY <1>2
  <2> QED
    BY <2>1, <2>2, <2>3, <2>4 DEF NodeOK, Live
<1>12. \A m \in Nodes \ {n} : NodeOK(m)'
  BY <1>0, <1>1, <1>2, <1>6, <1>7, OtherNodes
<1> QED
  BY <1>8, <1>9, <1>10, <1>11, <1>12 DEF ConfigInv

--------------------------------------------------------------------------------
(* The options flow.                                                       *)

\* A submission about a node that has or had an entry: the flow gets its target, and
\* when another flow is at work on it, both are disturbed.
LEMMA SubmitKeeps ==
    ASSUME ConfigInv, NEW f \in Flows, NEW n \in Nodes, NEW label \in {"update_consent", "delete_node"},
           Submit(f, n, label), FlowTypes', FlowOK(f)', \A g \in Flows \ {f} : FlowAlone(g),
           withheld' \in [Nodes -> SUBSET Channels], withheld[n] \subseteq withheld'[n],
           \A m \in Nodes \ {n} : withheld'[m] = withheld[m]
    PROVE  ConfigInv'
<1> USE NodeStoreAssumption
<1>1. /\ pc[f] = "closed" /\ n \in known /\ target[f] = None
      /\ disturbed' = IF Others(f, n) # {} THEN disturbed \cup {n} ELSE disturbed
      /\ UNCHANGED <<storeVars, entries, known, capturing, listening, due, unheard, answer>>
      /\ pc'[f] = label /\ target'[f] = n
  BY DEF Submit, At, ConfigInv, TypeOK, entryVars, setupVars
<1>2. /\ disturbed \subseteq disturbed' /\ disturbed' \subseteq Nodes
      /\ \A m \in Nodes \ {n} : m \in disturbed' => m \in disturbed
  BY <1>1 DEF ConfigInv, TypeOK
<1>3. TypeOK'
  BY <1>1, <1>2, TypeParts, TypePartsNext DEF ConfigInv, StoreTypeOK, EntryTypes, storeVars
<1>4. \A g \in Flows \ {f} : target[g] = n => n \in disturbed' /\ pc[g] # "create_entry"
  <2> SUFFICES ASSUME NEW g \in Flows \ {f}, target[g] = n
               PROVE  n \in disturbed' /\ pc[g] # "create_entry"
    OBVIOUS
  <2>1. g \in Others(f, n)
    BY DEF Others
  <2>2. FlowOK(g)
    BY DEF ConfigInv
  <2> QED
    BY <1>1, <2>1, <2>2 DEF FlowOK
<1>5. AloneOK'
  BY <1>1, <1>2, <1>4, AloneStays DEF ConfigInv, FlowAlone
<1>6. ASSUME NEW g \in Flows PROVE FlowOK(g)'
  <2>1. CASE g # f
    <3>1. FlowOK(g) /\ FlowAlone(g) /\ Same(target[g]) /\ nodes' = nodes
      BY <1>1, <2>1 DEF ConfigInv, Same, storeVars
    <3>2. target[g] \in Nodes => withheld[target[g]] \subseteq withheld'[target[g]]
      OBVIOUS
    <3> QED
      BY <1>2, <3>1, <3>2, FlowStays
  <2> QED
    BY <2>1
<1>7. ASSUME NEW m \in Nodes PROVE NodeOK(m)'
  <2>1. NodeOK(m) /\ Same(m) /\ withheld[m] \subseteq withheld'[m]
    BY <1>1 DEF ConfigInv, Same, storeVars
  <2>2. \A g \in Flows : target[g] = m => target'[g] = m /\ pc'[g] = pc[g]
    BY <1>1 DEF FlowAlone
  <2> QED
    BY <1>2, <2>1, <2>2, NodeStays
<1> QED
  BY <1>3, <1>5, <1>6, <1>7 DEF ConfigInv

LEMMA SharingKeeps ==
    ASSUME ConfigInv, NEW f \in Flows, NEW n \in Nodes, async_step_sharing(f, n)
    PROVE  ConfigInv'
<1> USE NodeStoreAssumption
<1>1. PICK x \in Form :
        /\ form' = [form EXCEPT ![f] = x]
        /\ withheld' = [withheld EXCEPT ![n] = @ \cup (Channels \ x.channels)]
  <2>1. PICK ticked \in SUBSET Channels, loc \in Locations :
          /\ form' = [form EXCEPT ![f] = [channels |-> Shared(ticked), loc |-> loc]]
          /\ withheld' = [withheld EXCEPT ![n] = @ \cup (Channels \ Shared(ticked))]
    BY DEF async_step_sharing, Submitted
  <2> QED
    BY <2>1, SharedIsForm
<1> DEFINE mapping == IF entries[n] = None THEN {} ELSE entries[n].mapping
<1>2. /\ Submit(f, n, "update_consent") /\ current' = [current EXCEPT ![f] = mapping]
      /\ pc' = [pc EXCEPT ![f] = "update_consent"] /\ target' = [target EXCEPT ![f] = n]
      /\ answer' = answer /\ n \in known /\ UNCHANGED <<storeVars, entries>>
  BY DEF async_step_sharing, Submit, At, entryVars
<1>3. /\ mapping \in SUBSET Sensors
      /\ entries[n] # None => mapping = entries[n].mapping
  <2>1. entries[n] # None => entries[n] \in Config
    BY DEF ConfigInv, TypeOK
  <2> QED
    BY <2>1 DEF Config
<1> HIDE DEF mapping
<1>4. FlowTypes
  BY TypeParts DEF ConfigInv
<1>5. FlowTypes' /\ \A g \in Flows \ {f} : FlowAlone(g)
  BY <1>1, <1>2, <1>3, <1>4 DEF FlowTypes, FlowAlone, Labels
<1>6. /\ pc'[f] = "update_consent" /\ target'[f] = n /\ form'[f] = x
      /\ current'[f] = mapping
  BY <1>1, <1>2, <1>4 DEF FlowTypes
<1>7. /\ withheld' \in [Nodes -> SUBSET Channels] /\ withheld[n] \subseteq withheld'[n]
      /\ Channels \ x.channels \subseteq withheld'[n]
      /\ \A m \in Nodes \ {n} : withheld'[m] = withheld[m]
  <2>1. withheld \in [Nodes -> SUBSET Channels]
    BY DEF ConfigInv, TypeOK
  <2> QED
    BY <1>1, <2>1
<1>8. FlowOK(f)'
  <2>1. NodeOK(n)
    BY DEF ConfigInv
  <2>2. /\ nodes[n].status # "absent"
        /\ entries[n] # None => Sensors \ withheld[n] \subseteq mapping
    BY <1>2, <1>3, <2>1 DEF NodeOK
  <2> QED
    BY <1>2, <1>3, <1>6, <1>7, <2>2 DEF FlowOK, storeVars
<1> QED
  BY <1>2, <1>5, <1>7, <1>8, SubmitKeeps

LEMMA DeleteStepKeeps ==
    ASSUME ConfigInv, NEW f \in Flows, NEW n \in Nodes, async_step_delete(f, n)
    PROVE  ConfigInv'
<1> USE NodeStoreAssumption
<1>1. /\ Submit(f, n, "delete_node") /\ pc' = [pc EXCEPT ![f] = "delete_node"]
      /\ target' = [target EXCEPT ![f] = n] /\ n \in known
      /\ UNCHANGED <<form, current, answer, withheld, storeVars>>
  BY DEF async_step_delete, Submit, At
<1>2. FlowTypes
  BY TypeParts DEF ConfigInv
<1>3. FlowTypes' /\ \A g \in Flows \ {f} : FlowAlone(g)
  BY <1>1, <1>2 DEF FlowTypes, FlowAlone, Labels
<1>4. pc'[f] = "delete_node" /\ target'[f] = n
  BY <1>1, <1>2 DEF FlowTypes
<1>5. FlowOK(f)'
  <2>1. NodeOK(n)
    BY DEF ConfigInv
  <2> QED
    BY <1>1, <1>4, <2>1 DEF FlowOK, NodeOK, storeVars
<1>6. withheld' \in [Nodes -> SUBSET Channels] /\ withheld' = withheld
  BY <1>1 DEF ConfigInv, TypeOK
<1> QED
  BY <1>1, <1>3, <1>5, <1>6, SubmitKeeps

LEMMA UpdateKeeps ==
    ASSUME ConfigInv, NEW f \in Flows, call_update_consent(f)
    PROVE  ConfigInv'
<1> USE NodeStoreAssumption
<1>1. PICK n \in Nodes : n = target[f]
  BY DEF call_update_consent, ConfigInv, FlowOK
<1> DEFINE loc == form[f].loc
<1>2. /\ pc[f] = "update_consent" /\ form[f] \in Form /\ nodes[n].status # "absent"
      /\ current[f] \in SUBSET Sensors
      /\ entries[n] # None => Sensors \ withheld[n] \subseteq current[f]
      /\ Channels \ form[f].channels \subseteq withheld[n]
      /\ UNCHANGED <<entries, known, capturing, listening, due, unheard, withheld>>
  BY <1>1 DEF call_update_consent, ConfigInv, FlowOK, entryVars, setupVars
<1>3. CASE Close(f) /\ UNCHANGED <<storeVars, disturbed>>
  BY <1>2, <1>3, GiveUpKeeps DEF ConfigInv, TypeOK
<1>4. CASE /\ Live(n) /\ ~location_incomplete(loc)
           /\ update_consent(n, form[f].channels, loc.tier, resolved_loc_ref(loc),
                             stored_postcode(loc))
           /\ \/ Answered(f, n, "apply", resolved_loc_ref(loc)) /\ UNCHANGED disturbed
              \/ Close(f) /\ disturbed' = disturbed \cup {n}
  <2>1. form[f].channels \in SUBSET Channels /\ loc \in LocBody
    BY <1>2, FormTypes
  <2>2. resolved_loc_ref(loc) \in {None} \cup LocRef
    BY <1>4, <2>1, LocationTypes
  <2>3. node_private[n] # None
    BY <1>4 DEF ConfigInv, NodeOK
  <2>4. /\ StoreTypeOK' /\ OtherRows(n) /\ nodes'[n].status = "live"
        /\ nodes'[n].channels = form[f].channels /\ nodes'[n].loc_tier = loc.tier
        /\ nodes'[n].loc_ref = resolved_loc_ref(loc)
        /\ node_private'[n] # None
        /\ loc.tier = "data_share" <=> node_private'[n].postcode # None
    <3>1. nodes[n].status = "live" /\ StoreTypeOK
      BY <1>4 DEF ConfigInv, TypeOK, Live
    <3> HIDE DEF loc
    <3> QED
      BY <1>4, <2>1, <2>3, <3>1, UpdateStore, SMTT(30)
  <2>5. disturbed \subseteq disturbed' /\ disturbed' \subseteq Nodes
    BY <1>4 DEF ConfigInv, TypeOK
  <2>6. /\ FlowTypes' /\ \A g \in Flows \ {f} : FlowAlone(g)
        /\ \/ /\ pc'[f] = "apply" /\ target'[f] = n /\ form'[f] = form[f]
              /\ answer'[f] = resolved_loc_ref(loc) /\ current'[f] = current[f]
           \/ pc'[f] = "closed" /\ target'[f] = None /\ n \in disturbed'
    <3>1. FlowTypes
      BY TypeParts DEF ConfigInv
    <3>2. CASE Close(f) /\ disturbed' = disturbed \cup {n}
      BY <3>1, <3>2, Closes
    <3>3. CASE Answered(f, n, "apply", resolved_loc_ref(loc))
      <4>1. "apply" \in Labels \ {"closed"}
        BY DEF Labels
      <4> HIDE DEF loc
      <4> QED
        BY <2>2, <3>1, <3>3, <4>1, GetsAnswer
    <3> QED
      BY <1>4, <3>2, <3>3
  <2>7. TypeOK'
    BY <1>2, <2>4, <2>5, <2>6, TypeParts, TypePartsNext DEF ConfigInv, EntryTypes
  <2>8. \A g \in Flows \ {f} : target[g] = n => n \in disturbed /\ pc[g] # "create_entry"
    BY <1>1, NoOther
  <2>9. AloneOK'
    BY <2>5, <2>6, <2>8, AloneStays DEF ConfigInv, FlowAlone
  <2>10. \A m \in Nodes \ {n} : Same(m) /\ withheld'[m] = withheld[m]
    BY <1>2, <2>4 DEF OtherRows, Same
  <2>11. \A g \in Flows \ {f} : FlowOK(g)'
    BY <1>2, <2>4, <2>5, <2>6, <2>8, <2>10, OtherFlows
  <2>12. FlowOK(f)'
    <3>1. CASE pc'[f] = "closed" /\ target'[f] = None
      BY <3>1 DEF FlowOK
    <3>2. CASE /\ pc'[f] = "apply" /\ target'[f] = n /\ form'[f] = form[f]
               /\ answer'[f] = resolved_loc_ref(loc) /\ current'[f] = current[f]
      BY <1>2, <2>4, <3>2 DEF FlowOK, Served, Live
    <3> QED
      BY <2>6, <3>1, <3>2
  <2>13. NodeOK(n)'
    <3>1. n \in disturbed' \/ (target'[f] = n /\ pc'[f] = "apply")
      BY <2>6
    <3>2. NodeOK(n)
      BY DEF ConfigInv
    <3>3. \/ n \in disturbed'
          \/ \A g \in Flows : target[g] = n => pc[g] \notin {"create_entry", "remove"}
      BY <1>2, <2>5, <2>8
    <3>4. n \notin disturbed' => entries[n] # None
      BY <1>4, <2>5, <3>2, <3>3 DEF NodeOK
    <3> QED
      BY <1>2, <2>4, <3>1, <3>2, <3>4 DEF NodeOK, Live
  <2>14. \A m \in Nodes \ {n} : NodeOK(m)'
    BY <1>1, <2>5, <2>6, <2>10, OtherNodes
  <2> QED
    BY <2>7, <2>9, <2>11, <2>12, <2>13, <2>14 DEF ConfigInv
<1> QED
  BY <1>1, <1>3, <1>4 DEF call_update_consent

LEMMA ApplyKeeps ==
    ASSUME ConfigInv, NEW f \in Flows, apply(f)
    PROVE  ConfigInv'
<1> USE NodeStoreAssumption
<1>1. PICK n \in Nodes : n = target[f]
  BY DEF apply, ConfigInv, FlowOK
<1> DEFINE mapping == Mapped(form[f].channels, current[f])
           config == [channels |-> form[f].channels, loc_tier |-> form[f].loc.tier,
                      loc_ref |-> answer[f], mapping |-> mapping]
<1>2. /\ pc[f] = "apply" /\ form[f] \in Form /\ nodes[n].status # "absent"
      /\ current[f] \in SUBSET Sensors
      /\ entries[n] # None => Sensors \ withheld[n] \subseteq current[f]
      /\ Channels \ form[f].channels \subseteq withheld[n]
      /\ n \notin disturbed /\ Live(n) => Served(f)
  BY <1>1 DEF apply, ConfigInv, FlowOK
<1>3. /\ IF entries[n] = None THEN entries' = entries ELSE entries' = [entries EXCEPT ![n] = config]
      /\ due' = due \/ due' = [due EXCEPT ![n] = @ + 1]
      /\ unheard' \in {unheard, unheard \cup {n}}
      /\ Close(f) /\ UNCHANGED <<storeVars, known, capturing, listening, disturbed, withheld>>
  BY <1>1 DEF apply, told
<1>4. config \in Config /\ mapping \subseteq form[f].channels
  <2>1. form[f].channels \in SUBSET Channels /\ form[f].loc.tier \in LocTier
    BY <1>2, FormTypes DEF LocBody
  <2>2. answer[f] \in {None} \cup LocRef
    BY DEF ConfigInv, TypeOK
  <2> QED
    BY <1>2, <2>1, <2>2 DEF Config, Mapped
<1>5. /\ config # None /\ config.mapping = mapping /\ config.channels = form[f].channels
      /\ config.loc_tier = form[f].loc.tier /\ config.loc_ref = answer[f]
  BY <1>4, NullIsNoEntry
<1>6. mapping = current[f] \cap form[f].channels
  BY DEF Mapped
<1> HIDE DEF config, mapping
<1>7. /\ entries'[n] = IF entries[n] = None THEN None ELSE config
      /\ \A m \in Nodes \ {n} : Same(m) /\ withheld'[m] = withheld[m]
  BY <1>3 DEF ConfigInv, TypeOK, Same, storeVars
<1>8. /\ FlowTypes' /\ pc'[f] = "closed" /\ target'[f] = None
      /\ \A g \in Flows \ {f} : FlowAlone(g)
  BY <1>3, Closes, TypeParts DEF ConfigInv
<1>9. TypeOK'
  <2>1. StoreTypeOK'
    BY <1>3 DEF ConfigInv, TypeOK, StoreTypeOK, storeVars
  <2>2. EntryTypes'
    <3>1. EntryTypes
      BY TypeParts DEF ConfigInv
    <3>2. \A m \in Nodes : entries'[m] # None => entries'[m].mapping \subseteq entries'[m].channels
      BY <1>4, <1>5, <1>7, <3>1 DEF EntryTypes, Same
    <3> QED
      BY <1>3, <1>4, <3>1, <3>2 DEF EntryTypes
  <2> QED
    BY <1>8, <2>1, <2>2, TypePartsNext
<1>10. \A g \in Flows \ {f} : target[g] = n => n \in disturbed /\ pc[g] # "create_entry"
  BY <1>1, NoOther
<1>11. AloneOK'
  BY <1>3, <1>8, AloneStays DEF ConfigInv, FlowAlone
<1>12. \A g \in Flows : FlowOK(g)'
  <2>1. nodes' = nodes /\ withheld' = withheld /\ disturbed' = disturbed
    BY <1>3 DEF storeVars
  <2>2. \A g \in Flows \ {f} : FlowOK(g)'
    BY <1>7, <1>8, <1>10, <2>1, OtherFlows
  <2>3. FlowOK(f)'
    BY <1>8 DEF FlowOK
  <2> QED
    BY <2>2, <2>3
<1>13. NodeOK(n)'
  <2>1. /\ nodes' = nodes /\ node_private' = node_private /\ withheld' = withheld
        /\ disturbed' = disturbed /\ NodeOK(n)
    BY <1>3 DEF storeVars, ConfigInv
  <2>2. entries[n] # None => Sensors \ withheld[n] \subseteq mapping
    BY <1>2, <1>6, ConfigEntryAssumption
  <2>3. n \notin disturbed /\ Live(n) /\ entries[n] # None => Shown(n)'
    BY <1>1, <1>2, <1>5, <1>7, <2>1 DEF Shown, Served
  <2>4. entries'[n] # None <=> entries[n] # None
    BY <1>5, <1>7
  <2>5. \/ n \in disturbed
        \/ \A g \in Flows : target[g] = n => pc[g] \notin {"create_entry", "remove"}
    BY <1>2, <1>10
  <2>6. known' = known /\ listening' = listening
    BY <1>3
  <2> QED
    BY <1>5, <1>7, <2>1, <2>2, <2>3, <2>4, <2>5, <2>6 DEF NodeOK, Live
<1>14. \A m \in Nodes \ {n} : NodeOK(m)'
  BY <1>1, <1>3, <1>7, <1>8, OtherNodes
<1> QED
  BY <1>9, <1>11, <1>12, <1>13, <1>14 DEF ConfigInv

\* The call is over, whatever became of it.
LEMMA DeleteCallKeeps ==
    ASSUME ConfigInv, NEW f \in Flows, call_delete_node(f)
    PROVE  ConfigInv'
<1> USE NodeStoreAssumption
<1>1. PICK n \in Nodes : n = target[f]
  BY DEF call_delete_node, ConfigInv, FlowOK
<1>2. /\ pc[f] = "delete_node" /\ nodes[n].status # "absent"
      /\ UNCHANGED <<entries, known, capturing, listening, due, unheard, withheld>>
  BY <1>1 DEF call_delete_node, ConfigInv, FlowOK, entryVars, setupVars
<1>3. /\ Close(f) \/ Answered(f, n, "remove", None)
      /\ disturbed' \in {disturbed, disturbed \cup {n}}
      /\ \/ Live(n) /\ delete_node(n)
         \/ UNCHANGED storeVars
      /\ Live(n)' \/ (Live(n) /\ Close(f)) => n \in disturbed'
  <2>1. CASE Live(n) /\ delete_node(n) /\ Answered(f, n, "remove", None) /\ UNCHANGED disturbed
    <3>1. ~Live(n)'
      BY <2>1, DeleteStore DEF ConfigInv, TypeOK, Live
    <3>2. Close(f) => n \in disturbed'
      BY <2>1 DEF Close, Answered, ConfigInv, TypeOK
    <3> QED
      BY <2>1, <3>1, <3>2
  <2>2. CASE Live(n) /\ delete_node(n) /\ Close(f) /\ disturbed' = disturbed \cup {n}
    BY <2>2
  <2>3. CASE /\ UNCHANGED storeVars
             /\ disturbed' = IF Live(n) THEN disturbed \cup {n} ELSE disturbed
             /\ Answered(f, n, "remove", None) \/ Close(f)
    BY <2>3 DEF Live, storeVars
  <2> QED
    BY <1>1, <2>1, <2>2, <2>3 DEF call_delete_node
<1>4. /\ StoreTypeOK' /\ OtherRows(n) /\ nodes'[n].status # "absent"
      /\ Live(n)' <=> node_private'[n] # None
      /\ Live(n)' => Live(n) /\ nodes'[n] = nodes[n] /\ node_private'[n] = node_private[n]
  <2>1. StoreTypeOK /\ NodeOK(n)
    BY DEF ConfigInv, TypeOK
  <2>2. CASE Live(n) /\ delete_node(n)
    BY <2>1, <2>2, DeleteStore DEF Live
  <2>3. CASE UNCHANGED storeVars
    BY <1>2, <2>1, <2>3 DEF storeVars, StoreTypeOK, OtherRows, Live, NodeOK
  <2> QED
    BY <1>3, <2>2, <2>3
<1>5. disturbed \subseteq disturbed' /\ disturbed' \subseteq Nodes
  BY <1>3 DEF ConfigInv, TypeOK
<1>6. /\ FlowTypes' /\ \A g \in Flows \ {f} : FlowAlone(g)
      /\ \/ pc'[f] = "remove" /\ target'[f] = n
         \/ pc'[f] = "closed" /\ target'[f] = None /\ Close(f)
  <2>1. FlowTypes
    BY TypeParts DEF ConfigInv
  <2>2. CASE Close(f)
    BY <2>1, <2>2, Closes
  <2>3. CASE Answered(f, n, "remove", None)
    <3>1. "remove" \in Labels \ {"closed"} /\ None \in {None} \cup LocRef
      BY DEF Labels
    <3> QED
      BY <2>1, <2>3, <3>1, GetsAnswer
  <2> QED
    BY <1>3, <2>2, <2>3
<1>7. TypeOK'
  BY <1>2, <1>4, <1>5, <1>6, TypeParts, TypePartsNext DEF ConfigInv, EntryTypes
<1>8. \A g \in Flows \ {f} : target[g] = n => n \in disturbed /\ pc[g] # "create_entry"
  BY <1>1, NoOther
<1>9. AloneOK'
  BY <1>5, <1>6, <1>8, AloneStays DEF ConfigInv, FlowAlone
<1>10. \A m \in Nodes \ {n} : Same(m) /\ withheld'[m] = withheld[m]
  BY <1>2, <1>4 DEF OtherRows, Same
<1>11. \A g \in Flows \ {f} : FlowOK(g)'
  BY <1>2, <1>4, <1>5, <1>6, <1>8, <1>10, OtherFlows
<1>12. FlowOK(f)'
  BY <1>3, <1>4, <1>6 DEF FlowOK, Live
<1>13. NodeOK(n)'
  <2>1. NodeOK(n)
    BY DEF ConfigInv
  <2>2. \/ n \in disturbed
        \/ \A g \in Flows : target[g] = n => pc[g] \notin {"apply", "create_entry", "remove"}
    BY <1>2, <1>8
  <2>3. Live(n)' => n \in disturbed'
    BY <1>3
  <2>4. \/ n \in disturbed'
        \/ target'[f] = n /\ pc'[f] = "remove"
        \/ ~Live(n) /\ ~Live(n)'
    BY <1>3, <1>6
  <2> QED
    BY <1>2, <1>4, <1>5, <2>1, <2>2, <2>3, <2>4 DEF NodeOK, Live
<1>14. \A m \in Nodes \ {n} : NodeOK(m)'
  BY <1>1, <1>5, <1>6, <1>10, OtherNodes
<1> QED
  BY <1>7, <1>9, <1>11, <1>12, <1>13, <1>14 DEF ConfigInv

LEMMA RemoveKeeps ==
    ASSUME ConfigInv, NEW f \in Flows, async_remove(f)
    PROVE  ConfigInv'
<1> USE NodeStoreAssumption
<1>1. PICK n \in Nodes : n = target[f]
  BY DEF async_remove, ConfigInv, FlowOK
<1>2. /\ pc[f] = "remove" /\ nodes[n].status # "absent"
      /\ n \notin disturbed => ~Live(n)
      /\ entries' = [entries EXCEPT ![n] = None] /\ capturing' = [capturing EXCEPT ![n] = {}]
      /\ listening' = listening \ {n} /\ due' = [due EXCEPT ![n] = 0]
      /\ unheard' = unheard \ {n}
      /\ Close(f) /\ UNCHANGED <<storeVars, known, disturbed, withheld>>
  BY <1>1 DEF async_remove, ConfigInv, FlowOK
<1>3. /\ entries'[n] = None
      /\ \A m \in Nodes \ {n} : Same(m) /\ withheld'[m] = withheld[m]
  BY <1>2 DEF ConfigInv, TypeOK, Same, storeVars
<1>4. /\ FlowTypes' /\ pc'[f] = "closed" /\ target'[f] = None
      /\ \A g \in Flows \ {f} : FlowAlone(g)
  BY <1>2, Closes, TypeParts DEF ConfigInv
<1>5. TypeOK'
  <2>1. StoreTypeOK'
    BY <1>2 DEF ConfigInv, TypeOK, StoreTypeOK, storeVars
  <2>2. EntryTypes'
    <3>1. EntryTypes
      BY TypeParts DEF ConfigInv
    <3>2. \A m \in Nodes : entries'[m] # None => entries'[m].mapping \subseteq entries'[m].channels
      BY <1>3, <3>1 DEF EntryTypes, Same
    <3> QED
      BY <1>2, <3>1, <3>2 DEF EntryTypes
  <2> QED
    BY <1>4, <2>1, <2>2, TypePartsNext
<1>6. \A g \in Flows \ {f} : target[g] = n => n \in disturbed /\ pc[g] # "create_entry"
  BY <1>1, NoOther
<1>7. AloneOK'
  BY <1>2, <1>4, AloneStays DEF ConfigInv, FlowAlone
<1>8. \A g \in Flows : FlowOK(g)'
  <2>1. nodes' = nodes /\ withheld' = withheld /\ disturbed' = disturbed
    BY <1>2 DEF storeVars
  <2>2. \A g \in Flows \ {f} : FlowOK(g)'
    BY <1>3, <1>4, <1>6, <2>1, OtherFlows
  <2>3. FlowOK(f)'
    BY <1>4 DEF FlowOK
  <2> QED
    BY <2>2, <2>3
<1>9. NodeOK(n)'
  BY <1>2, <1>3 DEF ConfigInv, NodeOK, Live, storeVars
<1>10. \A m \in Nodes \ {n} : NodeOK(m)'
  BY <1>1, <1>2, <1>3, <1>4, OtherNodes
<1> QED
  BY <1>5, <1>7, <1>8, <1>9, <1>10 DEF ConfigInv

\* A step that only sets entries up.
LEMMA QuietKeeps ==
    ASSUME ConfigInv, UNCHANGED <<storeVars, entryVars, flowVars, disturbed, withheld>>,
           capturing' \in [Nodes -> SUBSET Sensors], due' \in [Nodes -> Nat],
           unheard' \subseteq Nodes,
           listening' \subseteq {n \in Nodes : entries[n] # None}
    PROVE  ConfigInv'
<1>1. TypeOK'
  BY DEF ConfigInv, TypeOK, StoreTypeOK, storeVars, entryVars, flowVars
<1>2. AloneOK'
  BY DEF ConfigInv, AloneOK, flowVars
<1>3. \A f \in Flows : FlowOK(f)'
  BY DEF ConfigInv, FlowOK, Served, Live, storeVars, entryVars, flowVars
<1>4. \A n \in Nodes : NodeOK(n)'
  BY DEF ConfigInv, NodeOK, Shown, Live, storeVars, entryVars, flowVars
<1> QED
  BY <1>1, <1>2, <1>3, <1>4 DEF ConfigInv

LEMMA ListeningHasEntry ==
    ASSUME ConfigInv
    PROVE  listening \subseteq {n \in Nodes : entries[n] # None}
BY DEF ConfigInv, TypeOK, NodeOK

LEMMA SetupDoneKeeps ==
    ASSUME ConfigInv, NEW n \in Nodes, setup_done(n)
    PROVE  ConfigInv'
BY ListeningHasEntry, QuietKeeps DEF setup_done, ConfigInv, TypeOK

LEMMA ReloadKeeps ==
    ASSUME ConfigInv, NEW n \in Nodes, reload(n)
    PROVE  ConfigInv'
<1>1. entries[n] \in Config
  BY ListeningHasEntry DEF reload, ConfigInv, TypeOK
<1>2. entries[n].mapping \in SUBSET Sensors
  BY <1>1 DEF Config
<1>3. /\ capturing' = [capturing EXCEPT ![n] = entries[n].mapping]
      /\ listening' = listening \ {n} /\ due' = [due EXCEPT ![n] = @ - 1]
      /\ unheard' = unheard \ {n} /\ due[n] > 0
      /\ UNCHANGED <<storeVars, entryVars, flowVars, disturbed, withheld>>
  BY DEF reload
<1>4. due \in [Nodes -> Nat] /\ capturing \in [Nodes -> SUBSET Sensors] /\ unheard \subseteq Nodes
  BY DEF ConfigInv, TypeOK
<1>5. due' \in [Nodes -> Nat]
  BY <1>3, <1>4
<1> QED
  BY <1>2, <1>3, <1>4, <1>5, ListeningHasEntry, QuietKeeps

--------------------------------------------------------------------------------
(* The theorems.                                                           *)

LEMMA StepKeeps ==
    ASSUME ConfigInv, [Next]_vars
    PROVE  ConfigInv'
<1>1. ASSUME NEW f \in Flows, async_step_user(f) \/ step(f) PROVE ConfigInv'
  BY <1>1, UserKeeps, RegisterKeeps, CreateEntryKeeps, UpdateKeeps, ApplyKeeps, DeleteCallKeeps,
     RemoveKeeps DEF step
<1>2. ASSUME NEW f \in Flows, NEW n \in Nodes, async_step_sharing(f, n) \/ async_step_delete(f, n)
      PROVE  ConfigInv'
  BY <1>2, SharingKeeps, DeleteStepKeeps
<1>3. ASSUME NEW n \in Nodes, setup_done(n) \/ reload(n) PROVE ConfigInv'
  BY <1>3, SetupDoneKeeps, ReloadKeeps
<1>4. CASE UNCHANGED vars
  BY <1>4, ListeningHasEntry, QuietKeeps DEF vars, setupVars, ConfigInv, TypeOK
<1> QED
  BY <1>1, <1>2, <1>3, <1>4 DEF Next

\* Flows that overlap, and calls that get lost, keep the invariant.
THEOREM ConfigInvariant == Spec => []ConfigInv
<1>1. ConfigInv /\ [Next]_vars => ConfigInv'
  BY StepKeeps
<1> QED
  BY InitInv, <1>1, PTL DEF Spec

\* Every variable of flows, entries and store has a value the code can give it.
THEOREM ConfigTypes == Spec => []TypeOK
<1>1. ConfigInv => TypeOK
  BY DEF ConfigInv
<1> QED
  BY ConfigInvariant, <1>1, PTL

\* Between undisturbed flows, an entry shows what the server does with its node.
THEOREM EntriesShowTheServer == Spec => []EntryShowsTheServer
<1>1. ConfigInv => EntryShowsTheServer
  BY DEF ConfigInv, NodeOK, Shown, EntryShowsTheServer, Settled
<1> QED
  BY ConfigInvariant, <1>1, PTL

\* Between undisturbed flows, the server keeps a node exactly if an entry can
\* erase it.
THEOREM EntriesAndNodesAgree == Spec => []NodesCanBeErased
<1>1. ConfigInv => NodesCanBeErased
  BY DEF ConfigInv, NodeOK, NodesCanBeErased, Settled
<1> QED
  BY ConfigInvariant, <1>1, PTL

\* A channel that every submission shares keeps its sensor, however the flows
\* overtake each other.
THEOREM SharedChannelsKeepSensors == Spec => []SharedSensorsAreMapped
<1>1. ConfigInv => SharedSensorsAreMapped
  BY DEF ConfigInv, NodeOK, SharedSensorsAreMapped
<1> QED
  BY ConfigInvariant, <1>1, PTL

\* No step of any flow brings an erased node, its private row or a removed
\* entry of it back.
THEOREM NothingIsRevived == Spec => ErasedStaysErased
<1> DEFINE Kept(n) ==
             nodes[n].status = "erased" =>
               /\ nodes'[n].status = "erased" /\ node_private'[n] = None
               /\ entries[n] = None => entries'[n] = None
<1>1. ASSUME ConfigInv, ConfigInv', [Next]_vars, NEW n \in Nodes PROVE Kept(n)
  <2> SUFFICES ASSUME nodes[n].status = "erased" PROVE Kept(n)
    OBVIOUS
  <2>1. NodeOK(n) /\ NodeOK(n)' /\ StoreTypeOK
    BY <1>1 DEF ConfigInv, TypeOK
  <2>2. ~Live(n) /\ node_private[n] = None
    BY <2>1 DEF NodeOK, Live
  <2>3. ASSUME UNCHANGED nodes, entries'[n] = entries[n] \/ entries[n] # None \/ entries'[n] = None
        PROVE  Kept(n)
    BY <2>1, <2>2, <2>3 DEF NodeOK, Live
  <2>4. ASSUME NEW f \in Flows, step(f) PROVE Kept(n)
    <3>1. CASE register(f)
      <4>1. entries' = entries
        BY <3>1 DEF register, entryVars
      <4>2. nodes'[n] = nodes[n]
        <5>1. CASE UNCHANGED storeVars
          BY <5>1 DEF storeVars
        <5>2. ASSUME NEW m \in Nodes, create_node(m, form[f].channels, form[f].loc, None)
              PROVE  nodes'[n] = nodes[n]
          BY <2>1, <5>2 DEF create_node, StoreTypeOK
        <5> QED
          BY <3>1, <5>1, <5>2 DEF register
      <4> QED
        BY <2>1, <2>2, <4>1, <4>2 DEF NodeOK, Live
    <3>2. CASE create_entry(f)
      <4>1. Live(target[f]) /\ target[f] # n
        BY <1>1, <2>2, <2>4, <3>2 DEF create_entry, ConfigInv, FlowOK
      <4>2. nodes' = nodes /\ entries'[n] = entries[n]
        BY <1>1, <3>2, <4>1 DEF create_entry, storeVars, ConfigInv, TypeOK
      <4> QED
        BY <2>3, <4>2
    <3>3. CASE call_update_consent(f)
      <4>1. entries' = entries
        BY <3>3 DEF call_update_consent, entryVars
      <4>2. nodes'[n] = nodes[n]
        <5>1. CASE UNCHANGED storeVars
          BY <5>1 DEF storeVars
        <5>2. CASE Live(target[f]) /\ update_consent(target[f], form[f].channels, form[f].loc.tier,
                     resolved_loc_ref(form[f].loc), stored_postcode(form[f].loc))
          BY <2>1, <2>2, <5>2 DEF update_consent, StoreTypeOK
        <5> QED
          BY <3>3, <5>1, <5>2 DEF call_update_consent
      <4> QED
        BY <2>1, <2>2, <4>1, <4>2 DEF NodeOK, Live
    <3>4. CASE apply(f)
      <4>1. nodes' = nodes
        BY <3>4 DEF apply, storeVars
      <4>2. entries[n] = None => entries'[n] = None
        BY <1>1, <3>4 DEF apply, ConfigInv, TypeOK
      <4> QED
        BY <2>3, <4>1, <4>2
    <3>5. CASE call_delete_node(f)
      <4>1. entries' = entries
        BY <3>5 DEF call_delete_node, entryVars
      <4>2. nodes'[n] = nodes[n]
        <5>1. CASE UNCHANGED storeVars
          BY <5>1 DEF storeVars
        <5>2. CASE Live(target[f]) /\ delete_node(target[f])
          BY <2>1, <2>2, <5>2 DEF delete_node, StoreTypeOK
        <5> QED
          BY <3>5, <5>1, <5>2 DEF call_delete_node
      <4> QED
        BY <2>1, <2>2, <4>1, <4>2 DEF NodeOK, Live
    <3>6. CASE async_remove(f)
      <4>1. nodes' = nodes
        BY <3>6 DEF async_remove, storeVars
      <4>2. entries[n] = None => entries'[n] = None
        BY <1>1, <3>6 DEF async_remove, ConfigInv, TypeOK
      <4> QED
        BY <2>3, <4>1, <4>2
    <3> QED
      BY <2>4, <3>1, <3>2, <3>3, <3>4, <3>5, <3>6 DEF step
  <2>5. CASE UNCHANGED <<nodes, entries>>
    BY <2>3, <2>5
  <2> HIDE DEF Kept
  <2> QED
    BY <1>1, <2>4, <2>5 DEF Next, async_step_user, async_step_sharing, async_step_delete, Submit,
                            setup_done, reload, storeVars, entryVars, vars
<1>2. ConfigInv /\ ConfigInv' /\ [Next]_vars => [\A n \in Nodes : Kept(n)]_vars
  BY <1>1
<1> QED
  BY ConfigInvariant, <1>2, PTL DEF Spec, ErasedStaysErased

================================================================================
