----------------------------- MODULE NodeRegistry -----------------------------
(***************************************************************************)
(* What the ingest server promises of its nodes, whatever its handlers do  *)
(* in between: a request takes effect at one moment, on the registry as it *)
(* is at that moment and if it is allowed at that moment, or not at all.   *)
(* IngestServer implements it with checks and writes that take the         *)
(* database lock separately.                                               *)
(***************************************************************************)
CONSTANTS
    Nodes,      \* node ids
    Threads,    \* requests that may be in flight
    Requests,   \* the requests clients send, as in IngestServer
    Complete,   \* the location bodies that are complete
    HomeOf,     \* what each of them comes to: a published and a private part
    None

VARIABLES
    registry,   \* the live nodes, each with its owner, channels and home
    erased,     \* the erased nodes
    asked       \* the requests in flight

registryVars == <<registry, erased, asked>>

Init == registry = [n \in {} |-> None] /\ erased = {} /\ asked = [t \in Threads |-> None]

Live(n) == n \in DOMAIN registry

\* "A token can only ever act on its own node", the portal only on nodes of
\* the account it names; both only on what is there.
Allowed(q) ==
    /\ q.op # "register" => Live(q.node)
    /\ q.op \in {"samples", "patch", "delete"} => q.token = q.node
    /\ q.op \in {"admin_patch", "admin_delete"} =>
          q.internal /\ q.account = registry[q.node].owner
    /\ q.op = "register" => (q.account # None => q.internal)
    /\ q.op \in {"register", "patch", "admin_patch"} => q.loc \in Complete \cup {None}

\* A node that was never there is; ids are not reused.
Register(q) ==
    \E n \in Nodes \ (DOMAIN registry \cup erased) :
        /\ registry' = [m \in DOMAIN registry \cup {n} |->
                          IF m = n THEN [owner |-> q.account, channels |-> q.channels,
                                         home |-> HomeOf[q.loc]]
                          ELSE registry[m]]
        /\ UNCHANGED erased

\* Fields the body leaves out keep their value; the owner never changes.
Update(q) ==
    /\ registry' = [registry EXCEPT
                      ![q.node] = [owner |-> @.owner,
                                   channels |-> IF q.channels = None THEN @.channels
                                                ELSE q.channels,
                                   home |-> IF q.loc = None THEN @.home ELSE HomeOf[q.loc]]]
    /\ UNCHANGED erased

Erase(q) ==
    /\ registry' = [m \in DOMAIN registry \ {q.node} |-> registry[m]]
    /\ erased' = erased \cup {q.node}

Effect(q) ==
    \/ q.op = "register" /\ Register(q)
    \/ q.op \in {"patch", "admin_patch"} /\ Update(q)
    \/ q.op \in {"delete", "admin_delete"} /\ Erase(q)
    \/ q.op = "samples" /\ UNCHANGED <<registry, erased>>

Ask(t) ==
    /\ asked[t] = None
    /\ \E q \in Requests : asked' = [asked EXCEPT ![t] = q]
    /\ UNCHANGED <<registry, erased>>

Serve(t) ==
    /\ asked[t] # None
    /\ \/ Allowed(asked[t]) /\ Effect(asked[t])
       \/ ~Allowed(asked[t]) /\ UNCHANGED <<registry, erased>>
    /\ asked' = [asked EXCEPT ![t] = None]

\* The process restarts: what is in flight is lost, what took effect stays.
Restart ==
    /\ asked' = [t \in Threads |-> None]
    /\ UNCHANGED <<registry, erased>>

Next == Restart \/ \E t \in Threads : Ask(t) \/ Serve(t)

Spec == Init /\ [][Next]_registryVars
================================================================================
