----------------------------- MODULE SaveVault ------------------------------
(***************************************************************************)
(* The save vault of one game (crates/modde-core/src/save/manager): a git  *)
(* repository with a branch per profile, the live save directory the game  *)
(* reads and writes, and the saves parked under .modde/profiles inside it. *)
(*                                                                         *)
(* This module is the vault's state and the steps SaveManager's functions  *)
(* are made of; ProfileManager strings them together.  A save file's       *)
(* content is the stamp of the write that made it, 0 for no file.  A       *)
(* commit is its history (as a git hash is), so a branch is the sequence   *)
(* of the commits that led to its tip and <<>> a branch that does not      *)
(* exist.  The vault as the first use of vault_repo leaves it: an empty    *)
(* commit on main, checked out.                                            *)
(***************************************************************************)
EXTENDS Integers, Sequences, FiniteSets

CONSTANTS
    Profiles,     \* profile names
    Files,        \* names of save files
    Slug,         \* Slug[p]: sanitize_branch_name(p)
    Main,         \* the branch main
    Prints,       \* mod fingerprints, and
    NoFp,         \* none: a commit without Mod-Fingerprint trailer
    MaxStamp      \* bound: writes by the game

Branches == {Slug[p] : p \in Profiles} \union {Main}
Stamp    == 0..MaxStamp
Tree     == [Files -> Stamp]
Commit   == [tree: Tree, fp: Prints]
Empty    == [f \in Files |-> 0]

ASSUME VaultAssumption ==
    /\ MaxStamp \in Nat
    /\ NoFp \in Prints
    /\ Main \notin {Slug[p] : p \in Profiles}

VARIABLES
    live,      \* the files at the root of the live save directory
    parked,    \* parked[p]: the files under .modde/profiles/p
    meta,      \* the live directory holds .modde
    branch,    \* branch[b]: its commits, oldest first
    head,      \* the branch HEAD names
    work,      \* the vault's working tree
    tracked    \* the names in the git index

gitVars   == <<branch, head, work, tracked>>
liveVars  == <<live, parked, meta>>
vaultVars == <<gitVars, liveVars>>

VaultTypeOK ==
    /\ live \in Tree /\ work \in Tree
    /\ parked \in [Profiles -> Tree]
    /\ meta \in BOOLEAN
    /\ DOMAIN branch = Branches
    /\ \A b \in Branches : \A k \in DOMAIN branch[b] : branch[b][k] \in Commit
    /\ head \in Branches
    /\ tracked \subseteq Files

Names(t)  == {f \in Files : t[f] # 0}
Stamps(t) == {t[f] : f \in Names(t)}

\* The tree of the last commit of a history.
TipOf(history) == history[Len(history)].tree
Tip(b)         == TipOf(branch[b])

\* Every stamp a commit of a history, or of branch b, holds.
StampsOf(history) == UNION {Stamps(history[k].tree) : k \in DOMAIN history}
History(b)        == StampsOf(branch[b])

\* The files of `over` on top of those of `under`.
Overlay(under, over) == [f \in Files |-> IF over[f] # 0 THEN over[f] ELSE under[f]]

VaultInit ==
    /\ parked = [p \in Profiles |-> Empty]
    /\ meta = FALSE
    /\ branch = [b \in Branches |->
                    IF b = Main THEN <<[tree |-> Empty, fp |-> NoFp]>> ELSE <<>>]
    /\ head = Main
    /\ work = Empty
    /\ tracked = {}

-----------------------------------------------------------------------------
(* Git.                                                                    *)

\* ensure_branch: a missing branch is cut from HEAD, wherever that is.
Ensured(b) == IF branch[b] = <<>> THEN [branch EXCEPT ![b] = branch[head]] ELSE branch

\* A mutant: a checkout that removes nothing.
MaterializedOver(t) == Overlay(work, t)

\* checkout_tree(.., force): what HEAD or the index tracks is replaced or
\* removed; other files that are in the way of nothing stay.
Materialized(t) ==
    [f \in Files |->
        IF t[f] # 0 THEN t[f]
        ELSE IF f \in tracked \union Names(Tip(head)) THEN 0
        ELSE work[f]]

CheckoutTree(t) ==
    /\ work' = Materialized(t)
    /\ tracked' = Names(t)

\* checkout_branch.
CheckoutBranch(p) ==
    LET b == Slug[p]
    IN /\ branch' = Ensured(b)
       /\ CheckoutTree(TipOf(Ensured(b)[b]))
       /\ head' = b
       /\ UNCHANGED liveVars

\* The copy of capture: the live files over the working tree.
CopyIn ==
    /\ work' = Overlay(work, live)
    /\ UNCHANGED <<branch, head, tracked, liveVars>>

\* add_all, the removal of vanished entries, index.write.
StageAll ==
    /\ tracked' = Names(work)
    /\ UNCHANGED <<branch, head, work, liveVars>>

\* A mutant: a first save of a branch is not committed.
CommitLaterOnes(fp) ==
    /\ branch' = IF work = Tip(head) \/ Tip(head) = Empty THEN branch
                 ELSE [branch EXCEPT ![head] = Append(@, [tree |-> work, fp |-> fp])]
    /\ UNCHANGED <<head, work, tracked, liveVars>>

\* write_tree and commit; a tree equal to HEAD's makes no commit.
CommitStaged(fp) ==
    /\ branch' = IF work = Tip(head) THEN branch
                 ELSE [branch EXCEPT ![head] = Append(@, [tree |-> work, fp |-> fp])]
    /\ UNCHANGED <<head, work, tracked, liveVars>>

\* restore up to set_head: checkout of the branch, then of the commit with
\* this history, then the branch is reset to that commit.
ResetBranch(p, history) ==
    LET b == Slug[p]
        t == TipOf(history)
    IN /\ branch' = [branch EXCEPT ![b] = history]
       /\ head' = b
       /\ work' = [f \in Files |->
                     IF t[f] # 0 \/ f \in Names(TipOf(Ensured(b)[b])) THEN t[f]
                     ELSE Materialized(t)[f]]
       /\ tracked' = Names(t)
       /\ UNCHANGED liveVars

\* fork_saves: the source branch is ensured, then the target branch is made at
\* its tip; one that exists already is an error, never moved.
ForkPossible(source, target) == Ensured(Slug[source])[Slug[target]] = <<>>

\* A mutant: the target branch is moved.
ForkForced(source, target) ==
    LET base == Ensured(Slug[source])
    IN /\ branch' = [base EXCEPT ![Slug[target]] = base[Slug[source]]]
       /\ UNCHANGED <<head, work, tracked, liveVars>>

ForkBranch(source, target) ==
    LET base == Ensured(Slug[source])
    IN /\ branch' = IF ForkPossible(source, target)
                    THEN [base EXCEPT ![Slug[target]] = base[Slug[source]]]
                    ELSE base
       /\ UNCHANGED <<head, work, tracked, liveVars>>

\* capture_with_fingerprint as one step: checkout, copy, and unless nothing was
\* copied or nothing changed, a commit.
Captured(p, fp) ==
    LET b    == Slug[p]
        base == Ensured(b)
        t    == Overlay(Materialized(TipOf(base[b])), live)
    IN /\ head' = b
       /\ work' = t
       /\ tracked' = IF live = Empty THEN Names(TipOf(base[b])) ELSE Names(t)
       /\ branch' = IF live = Empty \/ t = TipOf(base[b]) THEN base
                    ELSE [base EXCEPT ![b] = Append(@, [tree |-> t, fp |-> fp])]
       /\ UNCHANGED liveVars

-----------------------------------------------------------------------------
(* The live save directory.                                                *)

\* park_active_saves: the previous parked directory of the profile goes first,
ResetPark(p) ==
    /\ parked' = [parked EXCEPT ![p] = Empty]
    /\ meta' = TRUE
    /\ UNCHANGED <<live, gitVars>>

\* then each root entry is renamed into it.
ParkFile(p, f) ==
    /\ parked' = [parked EXCEPT ![p][f] = IF live[f] # 0 THEN live[f] ELSE @]
    /\ live' = [live EXCEPT ![f] = 0]
    /\ UNCHANGED <<meta, gitVars>>

\* clear_active_save_dir.
ClearLive ==
    /\ live' = Empty
    /\ UNCHANGED <<parked, meta, gitVars>>

\* One file of the copy back to the game.
CopyOutFile(f) ==
    /\ work[f] # 0
    /\ live' = [live EXCEPT ![f] = work[f]]
    /\ UNCHANGED <<parked, meta, gitVars>>
=============================================================================
