------------------------------ MODULE MCAcquire ------------------------------
(* A Nexus archive and a manual one of the same name, and junk, of which some *)
(* has the length of an archive.                                              *)
EXTENDS Acquire, TLC

CONSTANTS a1, a2, name, temp, torn, part, pre

MCNameOf == (a1 :> name) @@ (a2 :> name)
MCTempOf == (a1 :> temp) @@ (a2 :> temp)
MCCarries == (name :> {a1, a2, part, pre}) @@ (temp :> {})
MCLength == (a1 :> 3) @@ (a2 :> 4) @@ (torn :> 1) @@ (part :> 2) @@ (pre :> 4)
=============================================================================
