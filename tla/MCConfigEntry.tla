----------------------------- MODULE MCConfigEntry -----------------------------
(* A small instance of ConfigEntry for TLC. *)
EXTENDS ConfigEntry, TLC

CONSTANTS n1, n2, f1, f2, freq, volt, p1, r1, g1

mcAreaOf == p1 :> g1

mcLocations == {[tier |-> "anon", region |-> None, postcode |-> None],
                [tier |-> "data_share", region |-> None, postcode |-> p1]}
================================================================================
