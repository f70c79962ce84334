------------------------------- MODULE NodeStore -------------------------------
(***************************************************************************)
(* The private SQLite store of the ingest server (server/.../db.py): node  *)
(* records, hashed tokens, the private row that ties a node to its         *)
(* postcode and account, and the tombstones of erased nodes.               *)
(*                                                                         *)
(* Every method of Database runs under one lock and commits before it      *)
(* releases it, so each is one step.  What is NOT atomic is a handler that *)
(* calls two of them: IngestServer.tla interleaves those.                  *)
(*                                                                         *)
(* Abstractions: a token is unguessable and belongs to one node, so the    *)
(* token issued to node n is the value n and `tokens' is the set of nodes  *)
(* with a row in the tokens table.  cell_id and raw_region are always NULL *)
(* (privacy.py resolves neither) and are left out, as are the descriptive  *)
(* columns (device_type, firmware, cadence_ms, producer, created_utc).     *)
(***************************************************************************)
EXTENDS Naturals, FiniteSets

CONSTANTS
    Nodes,      \* node ids (uuid4, never reused)
    Accounts,   \* contributor_ref values the portal uses
    Channels,   \* the channel catalogue
    Postcodes,  \* raw postcodes
    Regions,    \* user-picked DNO regions
    Areas,      \* coarse GSP areas a postcode maps to
    AreaOf,     \* _POSTCODE_AREA_REGION, GSP_UNKNOWN included
    None        \* SQL NULL / Python None

ASSUME NodeStoreAssumption ==
    /\ AreaOf \in [Postcodes -> Areas]
    /\ None \notin Nodes \cup Accounts \cup Postcodes \cup Regions
    /\ None \notin {"anon", "region", "data_share"}
    /\ \A C \in SUBSET Channels : C # None

VARIABLES
    nodes,         \* the nodes table; status folds row presence and deleted_utc
    tokens,        \* nodes that have a row in the tokens table
    node_private,  \* the private row, None when there is none
    tombstones     \* node ids in the tombstones table

storeVars == <<nodes, tokens, node_private, tombstones>>

--------------------------------------------------------------------------------
LocTier == {"anon", "region", "data_share"}

\* loc_ref as published: "DNO_<region>" or the GSP area of a postcode.
LocRef == ({"DNO"} \X Regions) \cup ({"GSP"} \X Areas)

\* The location part of a register or PATCH body.
LocBody == [tier : LocTier, region : Regions \cup {None}, postcode : Postcodes \cup {None}]

NodeRec == [status : {"absent", "live", "erased"}, channels : SUBSET Channels,
            loc_tier : LocTier, loc_ref : {None} \cup LocRef]

PrivateRec == [postcode : Postcodes \cup {None}, contributor_ref : Accounts \cup {None}]

ASSUME NullIsNoRow == \A row \in PrivateRec : row # None

StoreTypeOK ==
    /\ nodes \in [Nodes -> NodeRec]
    /\ tokens \in SUBSET Nodes
    /\ node_private \in [Nodes -> {None} \cup PrivateRec]
    /\ tombstones \in SUBSET Nodes

StoreInit ==
    /\ nodes = [n \in Nodes |-> [status |-> "absent", channels |-> {},
                                 loc_tier |-> "anon", loc_ref |-> None]]
    /\ tokens = {}
    /\ node_private = [n \in Nodes |-> None]
    /\ tombstones = {}

--------------------------------------------------------------------------------
(* resolve_location: what a location body publishes and what it keeps.     *)

\* The 400s of register and of both PATCH handlers.
location_incomplete(loc) ==
    \/ loc.tier = "region" /\ loc.region = None
    \/ loc.tier = "data_share" /\ loc.postcode = None

\* The anon tier resolves to nothing: no geo-IP database is ever wired.
resolved_loc_ref(loc) ==
    CASE loc.tier = "region"     -> <<"DNO", loc.region>>
      [] loc.tier = "data_share" -> <<"GSP", AreaOf[loc.postcode]>>
      [] loc.tier = "anon"       -> None

stored_postcode(loc) == IF loc.tier = "data_share" THEN loc.postcode ELSE None

--------------------------------------------------------------------------------
(* Database methods.                                                       *)

Live(n) == nodes[n].status = "live"

create_node(n, channels, loc, contributor_ref) ==
    /\ nodes[n].status = "absent"
    /\ nodes' = [nodes EXCEPT ![n] = [status |-> "live", channels |-> channels,
                                      loc_tier |-> loc.tier,
                                      loc_ref |-> resolved_loc_ref(loc)]]
    /\ tokens' = tokens \cup {n}
    /\ node_private' = [node_private EXCEPT ![n] =
                          [postcode |-> stored_postcode(loc),
                           contributor_ref |-> contributor_ref]]
    /\ UNCHANGED tombstones

\* Mutants: an upsert of the private row; loc_ref set whatever loc_tier is.
update_consent_upserts(n, channels, loc_tier, loc_ref, postcode) ==
    /\ nodes' = [nodes EXCEPT ![n].channels = IF channels = None THEN @ ELSE channels,
                               ![n].loc_tier = IF loc_tier = None THEN @ ELSE loc_tier,
                               ![n].loc_ref  = IF loc_tier = None THEN @ ELSE loc_ref]
    /\ node_private' = [node_private EXCEPT
                          ![n] = IF loc_tier = None THEN @
                                 ELSE [postcode |-> postcode, contributor_ref |->
                                       IF @ = None THEN None ELSE @.contributor_ref]]
    /\ UNCHANGED <<tokens, tombstones>>

update_consent_stale(n, channels, loc_tier, loc_ref, postcode) ==
    /\ nodes' = [nodes EXCEPT ![n].channels = IF channels = None THEN @ ELSE channels,
                               ![n].loc_tier = IF loc_tier = None THEN @ ELSE loc_tier,
                               ![n].loc_ref  = loc_ref]
    /\ node_private' = [node_private EXCEPT
                          ![n] = IF loc_tier = None \/ @ = None THEN @
                                 ELSE [@ EXCEPT !.postcode = postcode]]
    /\ UNCHANGED <<tokens, tombstones>>

\* Neither UPDATE looks at deleted_utc; the second one touches a private row
\* only if it is still there.  A None loc_tier leaves the location alone,
\* whatever loc_ref the caller passes along.
update_consent(n, channels, loc_tier, loc_ref, postcode) ==
    /\ nodes' = [nodes EXCEPT
                   ![n].channels = IF channels = None THEN @ ELSE channels,
                   ![n].loc_tier = IF loc_tier = None THEN @ ELSE loc_tier,
                   ![n].loc_ref  = IF loc_tier = None THEN @ ELSE loc_ref]
    /\ node_private' = [node_private EXCEPT
                          ![n] = IF loc_tier = None \/ @ = None THEN @
                                 ELSE [@ EXCEPT !.postcode = postcode]]
    /\ UNCHANGED <<tokens, tombstones>>

\* Erasure is guarded by deleted_utc IS NULL: the second of two racing
\* deletes changes nothing and returns False.
delete_node(n) ==
    IF Live(n)
    THEN /\ nodes' = [nodes EXCEPT ![n].status = "erased"]
         /\ tokens' = tokens \ {n}
         /\ node_private' = [node_private EXCEPT ![n] = None]
         /\ tombstones' = tombstones \cup {n}
    ELSE UNCHANGED storeVars

\* get_contributor_ref: None for a node with no account or no private row.
contributor_of(n) ==
    IF node_private[n] = None THEN None ELSE node_private[n].contributor_ref

================================================================================
