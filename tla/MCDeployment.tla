---------------------------- MODULE MCDeployment ----------------------------
(* Small instances of Deployment for TLC.                                  *)
EXTENDS Deployment, TLC

CONSTANTS A, B, body, hair, skin, cloth, notes, looks, extras

\* Two mods that both ship skin, in a folder where somebody keeps notes; body
\* also ships cloth in a second folder.
MCRank      == (body :> 1) @@ (hair :> 2)
MCRootOf    == (skin :> looks) @@ (notes :> looks) @@ (cloth :> extras)
MCShips     == (body :> {skin, cloth}) @@ (hair :> {skin})
MCHidden    == (A :> {}) @@ (B :> {<<hair, skin>>})
MCOverrides == (A :> {}) @@ (B :> {cloth})
=============================================================================
