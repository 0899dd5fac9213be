-------------------------- MODULE MCProfileManager --------------------------
(* Small instances of ProfileManager for TLC.                              *)
EXTENDS ProfileManager, TLC

\* Names without a character that git refuses are their own branch.
MCSlug == [p \in Profiles |-> p]

\* Profiles that differ in their save-breaking mods, and callers that give no
\* fingerprint.
MCDistinct  == [p \in Profiles |-> p]
MCUnprinted == [p \in Profiles |-> NoFp]

\* With these, neither profiles nor files are told apart.
Interchangeable == Permutations(Profiles) \union Permutations(Files)
=============================================================================
