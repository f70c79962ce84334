------------------------------ MODULE ConfigEntry ------------------------------
(***************************************************************************)
(* The configuration of a node in Home Assistant (config_flow.py, the      *)
(* entry's reload in __init__.py) against the record the server keeps of   *)
(* it: registration, the two branches of the options flow, and the         *)
(* coordinator that captures what the entry maps.                          *)
(*                                                                         *)
(* A flow waits for the server with nothing locked: two flows may be open  *)
(* on one entry, their calls may be answered in another order than they    *)
(* were served, and a call or its answer may get lost.  The forms of a     *)
(* flow end in one submission; a channel is shared alone, not in groups.   *)
(* Each call is one step of the store: IngestServer interleaves those.     *)
(***************************************************************************)
EXTENDS NodeStore

CONSTANTS
    Flows,      \* flows that may be open at once
    Frequency,  \* "frequency_hz", shared when the user ticks nothing
    Sensors,    \* channels discovery finds a sensor for
    Locations,  \* locations the user may choose, an empty postcode included
    MaxDue      \* bound: reloads of an entry that are due when a form is submitted

ASSUME ConfigEntryAssumption ==
    /\ Frequency \in Channels /\ Sensors \subseteq Channels /\ Locations \subseteq LocBody
    /\ MaxDue \in Nat

VARIABLES
    entries,    \* effective_config of each node's entry, None when there is none
    known,      \* nodes that have an entry or had one: a flow keeps a removed entry
    capturing,  \* channels the coordinator of the entry captures
    listening,  \* nodes whose entry has its update listener: it is set up
    due,        \* of each node, the reloads the listener has asked for
    pc, target, form, current, answer,  \* each flow: where it is, its node,
                \* what the user submitted, the mapping it read, what it was answered
    \* History, read by properties only:
    disturbed,  \* nodes whose flows overlapped, or that lost a call or an answer
    withheld,   \* of each node, the channels that some submission did not share
    unheard     \* nodes whose options were saved while nobody listened, since their
                \* last reload

flowVars == <<pc, target, form, current, answer>>
entryVars == <<entries, known>>
setupVars == <<capturing, listening, due, unheard>>
vars == <<storeVars, entryVars, setupVars, flowVars, disturbed, withheld>>

--------------------------------------------------------------------------------
Form == [channels : (SUBSET Channels) \ {{}}, loc : Locations]
Config == [channels : SUBSET Channels, loc_tier : LocTier,
           loc_ref : {None} \cup LocRef, mapping : SUBSET Sensors]

ASSUME NullIsNoEntry == \A config \in Config : config # None

Init ==
    /\ StoreInit
    /\ entries = [n \in Nodes |-> None]
    /\ known = {}
    /\ capturing = [n \in Nodes |-> {}]
    /\ listening = {} /\ due = [n \in Nodes |-> 0] /\ unheard = {}
    /\ pc = [f \in Flows |-> "closed"]
    /\ target = [f \in Flows |-> None]
    /\ form = [f \in Flows |-> None]
    /\ current = [f \in Flows |-> None]
    /\ answer = [f \in Flows |-> None]
    /\ disturbed = {} /\ withheld = [n \in Nodes |-> {}]

At(f, label) == pc' = [pc EXCEPT ![f] = label]

Close(f) ==
    /\ At(f, "closed")
    /\ target' = [target EXCEPT ![f] = None]
    /\ form' = [form EXCEPT ![f] = None]
    /\ current' = [current EXCEPT ![f] = None]
    /\ answer' = [answer EXCEPT ![f] = None]

\* The flow was answered.
Answered(f, n, label, loc_ref) ==
    /\ At(f, label)
    /\ target' = [target EXCEPT ![f] = n]
    /\ answer' = [answer EXCEPT ![f] = loc_ref]
    /\ UNCHANGED <<form, current>>

\* _channels_from_groups, with the default of both flows.
Shared(ticked) == IF ticked = {} THEN {Frequency} ELSE ticked

\* Mutant: both flows keep every sensor they had.
Mapped_all(channels, mapping) == mapping

\* Both flows keep a sensor only for the channels that are shared.
Mapped(channels, mapping) == mapping \cap channels

Others(f, n) == {g \in Flows \ {f} : target[g] = n}

--------------------------------------------------------------------------------
(* GridWitnessConfigFlow.                                                  *)

\* The user has been through the forms; register is called.
async_step_user(f) ==
    /\ pc[f] = "closed"
    /\ \E ticked \in SUBSET Channels, loc \in Locations :
         form' = [form EXCEPT ![f] = [channels |-> Shared(ticked), loc |-> loc]]
    /\ At(f, "register")
    /\ UNCHANGED <<storeVars, entryVars, setupVars, target, current, answer, disturbed,
                   withheld>>

\* The server registers a node, or refuses, or is not reached.  Without a good
\* answer the flow is back at its first form, whether or not there is a node now.
register(f) ==
    /\ pc[f] = "register"
    /\ \/ \E n \in Nodes :
            /\ ~location_incomplete(form[f].loc)
            /\ create_node(n, form[f].channels, form[f].loc, None)
            /\ \/ /\ Answered(f, n, "create_entry", resolved_loc_ref(form[f].loc))
                  /\ UNCHANGED disturbed
               \/ Close(f) /\ disturbed' = disturbed \cup {n}
       \/ Close(f) /\ UNCHANGED <<storeVars, disturbed>>
    /\ UNCHANGED <<entryVars, setupVars, withheld>>

\* async_create_entry, and the setup of the entry until its coordinator captures;
\* the setup of the platforms is awaited (__init__.py:57).
create_entry(f) ==
    /\ pc[f] = "create_entry"
    /\ LET n == target[f]
           mapping == Mapped(form[f].channels, Sensors)
       IN  /\ entries' = [entries EXCEPT ![n] =
                            [channels |-> form[f].channels, loc_tier |-> form[f].loc.tier,
                             loc_ref |-> answer[f], mapping |-> mapping]]
           /\ capturing' = [capturing EXCEPT ![n] = mapping]
           /\ known' = known \cup {n}
    /\ withheld' = [withheld EXCEPT ![target[f]] = Channels \ form[f].channels]
    /\ Close(f)
    /\ UNCHANGED <<storeVars, listening, due, unheard, disturbed>>

--------------------------------------------------------------------------------
(* GridWitnessOptionsFlow.                                                 *)

\* A submission of flow f about node n, whose entry may be gone by now.
Submit(f, n, label) ==
    /\ pc[f] = "closed" /\ n \in known /\ due[n] <= MaxDue
    /\ target' = [target EXCEPT ![f] = n]
    /\ disturbed' = IF Others(f, n) # {} THEN disturbed \cup {n} ELSE disturbed
    /\ At(f, label)
    /\ UNCHANGED <<storeVars, entryVars, setupVars, answer>>

\* What the user submitted in the forms of flow f about node n.
Submitted(f, n) ==
    \E ticked \in SUBSET Channels, loc \in Locations :
        /\ form' = [form EXCEPT ![f] = [channels |-> Shared(ticked), loc |-> loc]]
        /\ withheld' = [withheld EXCEPT ![n] = @ \cup (Channels \ Shared(ticked))]

\* Mutant: the mapping is looked for in the options only, not in the entry.
async_step_sharing_options(f, n) ==
    /\ Submit(f, n, "update_consent")
    /\ Submitted(f, n)
    /\ current' = [current EXCEPT ![f] = {}]

\* The forms, then the start of _apply: the mapping is read before the call.
\* That of a removed entry is never saved.
async_step_sharing(f, n) ==
    /\ Submit(f, n, "update_consent")
    /\ Submitted(f, n)
    /\ current' = [current EXCEPT ![f] = IF entries[n] = None THEN {} ELSE entries[n].mapping]

async_step_delete(f, n) ==
    Submit(f, n, "delete_node") /\ UNCHANGED <<form, current, withheld>>

\* PATCH: refused for an erased node or an incomplete location.  Without a
\* good answer the flow aborts.
call_update_consent(f) ==
    LET n == target[f]  loc == form[f].loc IN
    /\ pc[f] = "update_consent"
    /\ \/ /\ Live(n) /\ ~location_incomplete(loc)
          /\ update_consent(n, form[f].channels, loc.tier,
                            resolved_loc_ref(loc), stored_postcode(loc))
          /\ \/ Answered(f, n, "apply", resolved_loc_ref(loc)) /\ UNCHANGED disturbed
             \/ Close(f) /\ disturbed' = disturbed \cup {n}
       \/ Close(f) /\ UNCHANGED <<storeVars, disturbed>>
    /\ UNCHANGED <<entryVars, setupVars, withheld>>

\* async_update_entry of Home Assistant: options that differ are told to the
\* listener of the entry, when it has one by now.
told(n) ==
    \/ entries' = entries /\ UNCHANGED <<due, unheard>>
    \/ n \in listening /\ due' = [due EXCEPT ![n] = @ + 1] /\ UNCHANGED unheard
    \/ n \notin listening /\ unheard' = unheard \cup {n} /\ UNCHANGED due

\* Mutant: the location that was shown before is shown on.
apply_shows_old(f) ==
    LET n == target[f] IN
    /\ pc[f] = "apply"
    /\ \/ /\ entries[n] # None
          /\ entries' = [entries EXCEPT ![n] =
               [channels |-> form[f].channels, loc_tier |-> form[f].loc.tier,
                loc_ref |-> entries[n].loc_ref,
                mapping |-> Mapped(form[f].channels, current[f])]]
          /\ told(n)
       \/ entries[n] = None /\ UNCHANGED <<entries, due, unheard>>
    /\ Close(f)
    /\ UNCHANGED <<storeVars, known, capturing, listening, disturbed, withheld>>

\* Mutant: options saved late bring a removed entry back.
apply_creates(f) ==
    LET n == target[f] IN
    /\ pc[f] = "apply"
    /\ entries' = [entries EXCEPT ![n] =
         [channels |-> form[f].channels, loc_tier |-> form[f].loc.tier,
          loc_ref |-> answer[f], mapping |-> Mapped(form[f].channels, current[f])]]
    /\ told(n)
    /\ Close(f)
    /\ UNCHANGED <<storeVars, known, capturing, listening, disturbed, withheld>>

\* The options overlay the entry; their mapping is made of the one the flow
\* read before its call.  Home Assistant refuses them when the entry has been
\* removed meanwhile.
apply(f) ==
    LET n == target[f] IN
    /\ pc[f] = "apply"
    /\ \/ /\ entries[n] # None
          /\ entries' = [entries EXCEPT ![n] =
               [channels |-> form[f].channels, loc_tier |-> form[f].loc.tier,
                loc_ref |-> answer[f],
                mapping |-> Mapped(form[f].channels, current[f])]]
          /\ told(n)
       \/ entries[n] = None /\ UNCHANGED <<entries, due, unheard>>
    /\ Close(f)
    /\ UNCHANGED <<storeVars, known, capturing, listening, disturbed, withheld>>

\* Mutant: only the entry is removed.
call_delete_node_never(f) ==
    /\ pc[f] = "delete_node"
    /\ Answered(f, target[f], "remove", None)
    /\ UNCHANGED <<storeVars, entryVars, setupVars, disturbed, withheld>>

\* DELETE, and what _async_delete makes of its failure: the entry goes all
\* the same, unless the exception is not a GridWitnessApiError and escapes.
call_delete_node(f) ==
    LET n == target[f] IN
    /\ pc[f] = "delete_node"
    /\ \/ /\ Live(n) /\ delete_node(n)
          /\ \/ Answered(f, n, "remove", None) /\ UNCHANGED disturbed
             \/ Close(f) /\ disturbed' = disturbed \cup {n}
       \/ /\ UNCHANGED storeVars
          /\ disturbed' = IF Live(n) THEN disturbed \cup {n} ELSE disturbed
          /\ Answered(f, n, "remove", None) \/ Close(f)
    /\ UNCHANGED <<entryVars, setupVars, withheld>>

\* config_entries.async_remove: it waits for a setup, and unloads the entry first.
async_remove(f) ==
    LET n == target[f] IN
    /\ pc[f] = "remove" /\ (n \in listening \/ entries[n] = None)
    /\ entries' = [entries EXCEPT ![n] = None]
    /\ capturing' = [capturing EXCEPT ![n] = {}]
    /\ listening' = listening \ {n} /\ due' = [due EXCEPT ![n] = 0]
    /\ unheard' = unheard \ {n}
    /\ Close(f)
    /\ UNCHANGED <<storeVars, known, disturbed, withheld>>

\* The end of async_setup_entry: only now does the entry get its update listener.
setup_done(n) ==
    /\ entries[n] # None /\ n \notin listening
    /\ listening' = listening \cup {n}
    /\ UNCHANGED <<storeVars, entryVars, capturing, due, unheard, flowVars, disturbed, withheld>>

\* Mutant: an entry is only reloaded to capture more.
reload_never(n) ==
    /\ n \in listening /\ due[n] > 0 /\ capturing[n] \subseteq entries[n].mapping
    /\ capturing' = [capturing EXCEPT ![n] = entries[n].mapping]
    /\ listening' = listening \ {n} /\ due' = [due EXCEPT ![n] = @ - 1]
    /\ unheard' = unheard \ {n}
    /\ UNCHANGED <<storeVars, entryVars, flowVars, disturbed, withheld>>

\* _async_reload, some time after the options were saved: the entry is unloaded,
\* its listener with it, and its setup begins, with the options of this moment.
reload(n) ==
    /\ n \in listening /\ due[n] > 0
    /\ capturing' = [capturing EXCEPT ![n] = entries[n].mapping]
    /\ listening' = listening \ {n} /\ due' = [due EXCEPT ![n] = @ - 1]
    /\ unheard' = unheard \ {n}
    /\ UNCHANGED <<storeVars, entryVars, flowVars, disturbed, withheld>>

--------------------------------------------------------------------------------
\* A step of flow f that does not wait for its user.
step(f) == \/ register(f) \/ create_entry(f)
           \/ call_update_consent(f) \/ apply(f) \/ call_delete_node(f) \/ async_remove(f)

Next ==
    \/ \E f \in Flows : \/ async_step_user(f) \/ step(f)
                        \/ \E n \in Nodes : async_step_sharing(f, n) \/ async_step_delete(f, n)
    \/ \E n \in Nodes : setup_done(n) \/ reload(n)

Spec == Init /\ [][Next]_vars

\* The event loop runs what is due: calls end, platforms get set up, reloads happen.
FairSpec ==
    /\ Spec
    /\ \A f \in Flows : WF_vars(step(f))
    /\ \A n \in Nodes : WF_vars(setup_done(n)) /\ WF_vars(reload(n))

--------------------------------------------------------------------------------
(* Properties.                                                             *)

Labels == {"closed", "register", "create_entry", "update_consent", "apply",
           "delete_node", "remove"}

\* Every variable has a value the code can give it, and an entry maps only
\* channels that it shares.
TypeOK ==
    /\ StoreTypeOK
    /\ entries \in [Nodes -> {None} \cup Config]
    /\ \A n \in Nodes : entries[n] # None => entries[n].mapping \subseteq entries[n].channels
    /\ capturing \in [Nodes -> SUBSET Sensors] /\ due \in [Nodes -> Nat]
    /\ known \subseteq Nodes /\ listening \subseteq Nodes /\ unheard \subseteq Nodes
    /\ pc \in [Flows -> Labels]
    /\ target \in [Flows -> {None} \cup Nodes]
    /\ form \in [Flows -> {None} \cup Form]
    /\ current \in [Flows -> {None} \cup SUBSET Sensors]
    /\ answer \in [Flows -> {None} \cup LocRef]
    /\ \A f \in Flows : pc[f] = "closed" => target[f] = None /\ form[f] = None
    /\ disturbed \subseteq Nodes /\ withheld \in [Nodes -> SUBSET Channels]

\* No flow is at work on n, and none has lost or overtaken another on it.
Settled(n) == n \notin disturbed /\ \A f \in Flows : target[f] # n

\* The options show what the server does: channels, tier and published
\* location of the entry are those of the node's record, and the server keeps
\* a postcode only for an entry that shows the postcode tier.
EntryShowsTheServer ==
    \A n \in Nodes : Settled(n) /\ entries[n] # None /\ Live(n) =>
        /\ entries[n].channels = nodes[n].channels
        /\ entries[n].loc_tier = nodes[n].loc_tier
        /\ entries[n].loc_ref = nodes[n].loc_ref
        /\ entries[n].loc_tier = "data_share" <=> node_private[n].postcode # None

\* "Delete all your data": for every node the server keeps there is an entry
\* with its token, so that its owner can erase it, and no entry outlives its
\* node.
NodesCanBeErased == \A n \in Nodes : Settled(n) => (Live(n) <=> entries[n] # None)

\* The token of a node that may have gone is never used to bring it back: a
\* flow that was overtaken by an erasure revives nothing, on either side.
ErasedStaysErased ==
    [][\A n \in Nodes : nodes[n].status = "erased" =>
         /\ nodes'[n].status = "erased" /\ node_private'[n] = None
         /\ entries[n] = None => entries'[n] = None]_vars

\* "de-consented channels stop immediately": a channel that an entry does not
\* share is not captured for long, whatever flows go on meanwhile, but for options
\* saved while the entry was being set up: those nobody heard of, and the channel
\* is captured until the entry is reloaded for another reason.
RevokedIsNotCaptured ==
    \A n \in Nodes : \A c \in Sensors :
        (entries[n] = None \/ c \notin entries[n].channels) ~>
            \/ c \notin capturing[n] \/ (entries[n] # None /\ c \in entries[n].channels)
            \/ n \in unheard

\* "Options overlay entry data": however often the options are saved, and by
\* flows that overtake each other, a channel that every one of them shares
\* keeps its sensor.  One that was ever left out has lost it for good.
SharedSensorsAreMapped ==
    \A n \in Nodes : entries[n] # None =>
        (entries[n].channels \cap Sensors) \ withheld[n] \subseteq entries[n].mapping
================================================================================
