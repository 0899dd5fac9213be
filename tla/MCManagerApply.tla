--------------------------- MODULE MCManagerApply ---------------------------
(* Small instances of ManagerApply for TLC.                                *)
EXTENDS ManagerApply, TLC

CONSTANTS orig, new1, new2, user, tree, root, addons, m1, m2

\* Destination 1 is a file of the root that is replaced, destination 2 a file
\* of a folder that may have to be made; m2 seeds it, m1 replaces it.
MCFolder == <<root, addons>>
MCWanted == (m1 :> <<new1, new1>>) @@ (m2 :> <<new2, new2>>)
MCSeed   == (m1 :> {}) @@ (m2 :> {2})
=============================================================================
