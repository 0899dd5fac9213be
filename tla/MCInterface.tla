----------------------------- MODULE MCInterface -----------------------------
(* Two games, one of which the user must find; one of them has two profiles. *)
EXTENDS Interface, TLC

CONSTANTS G1, G2, n1, n2

MCGames == {G1, G2}
MCProfiles == {[name |-> n1, game |-> G1], [name |-> n2, game |-> G1], [name |-> n1, game |-> G2]}
MCFirst == MCProfiles \ {[name |-> n2, game |-> G1]}
MCActivated == (G1 :> None) @@ (G2 :> [name |-> n1, game |-> G2])
MCUndetected == {G2}
=============================================================================
