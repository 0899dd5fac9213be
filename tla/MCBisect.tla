------------------------------- MODULE MCBisect -------------------------------
(* Small instances of Bisect for TLC.                                      *)
EXTENDS Bisect

\* No dependencies; the last mod on the first; the first on the second; a
\* chain through a later mod.
MCFree   == [m \in Mods |-> {}]
MCMaster == [m \in Mods |-> IF m = N THEN {1} ELSE {}]
MCLate   == [m \in Mods |-> IF m = 1 THEN {2} ELSE {}]
MCChain  == [m \in Mods |-> CASE m = N -> {2} [] m = 1 -> {3} [] OTHER -> {}]

\* One culprit, or mods that only together spoil the game.
MCSingle == {{m} : m \in Mods}
MCSome   == MCSingle \union {{1, N}, {2, 3}}
================================================================================
