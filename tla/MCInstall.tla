------------------------------ MODULE MCInstall ------------------------------
(* A direct archive of one file and one input of the list's BSA, a nexus archive of one patch, which *)
(* decides whether the BSA is skipped.                                                          *)
EXTENDS Install, TLC

CONSTANTS a1, a2, f1, f2, p1, i1, b1, m1, m2

MCArchives == {a1, a2}
MCKind == (a1 :> "direct") @@ (a2 :> "nexus")
MCFiles == {f1, f2, p1}
MCFrom == (f1 :> a1) @@ (f2 :> a1) @@ (p1 :> a2)
MCInputs == (b1 :> {f2})
MCFeeds == (b1 :> {p1})
MCMod == (f1 :> m1) @@ (f2 :> None) @@ (p1 :> None) @@ (i1 :> m2) @@ (b1 :> m2)

Plain == [policy |-> "fail", goOn |-> FALSE, validate |-> TRUE, keep |-> "keep", reset |-> FALSE,
          force |-> FALSE, deploy |-> TRUE]

MCCommands == {Plain,
               [Plain EXCEPT !.force = TRUE],
               [Plain EXCEPT !.policy = "omitMods", !.keep = "prune"],
               [Plain EXCEPT !.policy = "omitFiles", !.reset = TRUE],
               [Plain EXCEPT !.goOn = TRUE, !.validate = FALSE, !.keep = "auto", !.deploy = FALSE]}

\* For three commands in a row, the last of which may be without the second archive again
MCTwo == {Plain, [Plain EXCEPT !.policy = "omitMods"]}
=============================================================================
