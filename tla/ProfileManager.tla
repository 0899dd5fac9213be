--------------------------- MODULE ProfileManager ---------------------------
(***************************************************************************)
(* Profiles of one game: which one is active, the experiment stack, and    *)
(* the swap of saves each change of profile makes                          *)
(* (crates/modde-core/src/profile/manager.rs over db/saves.rs,             *)
(* db/profile.rs and the save vault, as the commands of modde-cli run it). *)
(*                                                                         *)
(* One command runs at a time, a database statement or a vault step after  *)
(* the other; it may die or fail between any two (Crash), which forgets    *)
(* what it had in memory and undoes nothing.  The game writes and deletes  *)
(* saves whenever it likes; `modde save watch` is a second process.  A row *)
(* of experiment_stack is its profile and its depth, in insertion order.   *)
(***************************************************************************)
EXTENDS SaveVault

CONSTANTS
    None,           \* no profile
    Fingerprint,    \* Fingerprint[p]: of p's save-breaking mods, NoFp if not given
    SaveDir,        \* the game has a save directory (else saves are not swapped)
    CrossProfile,   \* save commands may name a profile that is not active
    Watching,       \* `modde save watch` may be running
    GameMayDelete,  \* the game may delete a save
    MaxDepth,       \* bound: entries of the experiment stack
    MaxCrashes      \* bound: commands that die or fail half-way

ASSUME ManagerAssumption ==
    /\ None \notin Profiles
    /\ Fingerprint \in [Profiles -> Prints]
    /\ {SaveDir, CrossProfile, Watching, GameMayDelete} \subseteq BOOLEAN
    /\ MaxDepth \in Nat /\ MaxCrashes \in Nat

VARIABLES
    profiles,   \* rows of the profiles table
    active,     \* the row of active_profiles, or None
    rows,       \* rows of experiment_stack for the game
    pc,         \* the next step of the running command
    cmd,        \* its name and locals
    todo,       \* files its directory loop has still to visit
    watching,   \* the profile `save watch` captures for, or None
    author,     \* author[s]: the active profile when the game made stamp s
    forfeit,    \* stamps made while a command ran, or given up by a restore
    crashes,    \* how many commands died or failed
    lost        \* rows that deletions took from the stack since it was empty; 2 is "several"

dbVars      == <<profiles, active, rows>>
commandVars == <<pc, cmd, todo>>
worldVars   == <<watching, author, forfeit, crashes, lost>>
vars        == <<vaultVars, dbVars, commandVars, worldVars>>

Row      == [profile: Profiles, depth: Nat]
Commands == {"idle", "activate", "try", "rollback", "adopt", "capture",
             "fork", "restore"}
Labels   == {"idle", "push", "current", "capture", "copyin", "stage", "commit",
             "resetpark", "park", "deploy", "clear", "copyout", "setactive",
             "adoptactive", "fork"}
Command  == [op: Commands, target: Profiles \union {None},
             out: Profiles \union {None}, fp: Prints]
Idle     == [op |-> "idle", target |-> None, out |-> None, fp |-> NoFp]

TypeOK ==
    /\ VaultTypeOK
    /\ profiles \subseteq Profiles
    /\ active \in profiles \union {None}
    /\ \A k \in DOMAIN rows : rows[k] \in Row /\ rows[k].profile \in profiles
    /\ pc \in Labels
    /\ cmd \in Command
    /\ todo \subseteq Files
    /\ watching \in Profiles \union {None}
    /\ \A s \in DOMAIN author : author[s] \in Profiles \union {None}
    /\ forfeit \subseteq 1..MaxStamp
    /\ crashes \in 0..MaxCrashes
    /\ lost \in 0..2

-----------------------------------------------------------------------------
(* Helpers.                                                                *)

\* A command starts at a label with its arguments, moves on, and ends.
Start(op, label, target, out, fp) ==
    /\ pc = "idle"
    /\ pc' = label
    /\ cmd' = [op |-> op, target |-> target, out |-> out, fp |-> fp]
    /\ todo' = {}
Step(from, to) ==
    /\ pc = from
    /\ pc' = to
    /\ cmd' = IF to = "idle" THEN Idle ELSE cmd
    /\ UNCHANGED todo
End(from) == pc = from /\ pc' = "idle" /\ cmd' = Idle /\ todo' = {}

\* What a capture is followed by.
AfterCapture == CASE cmd.op = "capture" -> "idle"
                  [] cmd.op = "adopt"   -> "adoptactive"
                  [] OTHER              -> "resetpark"

\* A mutant: the oldest of the deepest rows.
FirstDeepest ==
    CHOOSE k \in DOMAIN rows :
        \A j \in DOMAIN rows : \/ rows[j].depth < rows[k].depth
                               \/ rows[j].depth = rows[k].depth /\ j >= k

\* ORDER BY depth DESC LIMIT 1: the index on (game_id, depth) read backwards
\* yields the newest of the deepest rows.
TopRow ==
    CHOOSE k \in DOMAIN rows :
        \A j \in DOMAIN rows : \/ rows[j].depth < rows[k].depth
                               \/ rows[j].depth = rows[k].depth /\ j <= k

\* The stack becomes r, and taken of its rows went with their profile.  An empty
\* stack numbers its rows anew.
Restack(r, taken) ==
    /\ rows' = r
    /\ lost' = IF r = <<>> THEN 0 ELSE IF lost + taken <= 1 THEN lost + taken ELSE 2
    /\ UNCHANGED <<watching, author, forfeit, crashes>>

WithoutRow(k) == SubSeq(rows, 1, k - 1) \o SubSeq(rows, k + 1, Len(rows))

\* detect_unadopted: any entry of the save directory, .modde included.
Unadopted == active = None /\ (live # Empty \/ meta)

\* A row of the stack is p's.
Remembered(p) == \E k \in DOMAIN rows : rows[k].profile = p

\* The rows that are not p's, in their order.
RowsWithout(p) ==
    LET Others(i) == Cardinality({j \in 1..i : rows[j].profile # p})
    IN  [n \in 1..Others(Len(rows)) |->
            rows[CHOOSE i \in DOMAIN rows : rows[i].profile # p /\ Others(i) = n]]

-----------------------------------------------------------------------------
(* The profiles table.                                                     *)

CreateProfile(p) ==
    /\ pc = "idle"
    /\ p \notin profiles
    /\ profiles' = profiles \union {p}
    /\ UNCHANGED <<active, rows, commandVars, vaultVars, worldVars>>

\* A mutant: nothing cascades.
DeleteProfileOnly(p) ==
    /\ pc = "idle"
    /\ p \in profiles
    /\ profiles' = profiles \ {p}
    /\ UNCHANGED <<active, rows, commandVars, vaultVars, worldVars>>

\* delete_profile: the foreign keys cascade; the vault is left alone.
DeleteProfile(p) ==
    /\ pc = "idle"
    /\ p \in profiles
    /\ profiles' = profiles \ {p}
    /\ active' = IF active = p THEN None ELSE active
    /\ LET left == IF Remembered(p) THEN RowsWithout(p) ELSE rows
       IN  Restack(left, Len(rows) - Len(left))
    /\ UNCHANGED <<commandVars, vaultVars>>

\* fork_with_options: the row first, then the branch; a branch that is already
\* there fails the command and leaves the row.
Fork(p, new) ==
    /\ p \in profiles /\ new \notin profiles
    /\ Start("fork", "fork", new, p, NoFp)
    /\ profiles' = profiles \union {new}
    /\ UNCHANGED <<active, rows, vaultVars, worldVars>>

ForkSaves ==
    /\ End("fork")
    /\ ForkBranch(cmd.out, cmd.target)
    /\ UNCHANGED <<dbVars, worldVars>>

-----------------------------------------------------------------------------
(* Commands that change the active profile.  The command line computes the *)
(* fingerprint of the profile it switches to, a rollback that of the       *)
(* active one.                                                             *)

\* activate_with_fingerprint: refuses while nothing is active and the save
\* directory is not empty.
Activate(p) ==
    /\ p \in profiles
    /\ IF ~SaveDir THEN Start("activate", "setactive", p, None, NoFp)
       ELSE /\ ~Unadopted
            /\ Start("activate", IF active = None THEN "deploy" ELSE "capture",
                     p, active, Fingerprint[p])
    /\ UNCHANGED <<dbVars, vaultVars, worldVars>>

\* try_profile_with_fingerprint, up to the push.
Try(p) ==
    /\ active # None /\ p \in profiles
    /\ Len(rows) < MaxDepth
    /\ Start("try", "push", p, active, Fingerprint[p])
    /\ UNCHANGED <<dbVars, vaultVars, worldVars>>

\* push_experiment: the depth is the number of rows.
Push ==
    /\ Step("push", IF SaveDir THEN "capture" ELSE "setactive")
    /\ rows' = Append(rows, [profile |-> cmd.out, depth |-> Len(rows)])
    /\ UNCHANGED <<profiles, active, vaultVars, worldVars>>

\* rollback_with_fingerprint: pop_experiment comes before the look at the
\* active profile.
Rollback ==
    /\ rows # <<>>
    /\ Start("rollback", "current", rows[TopRow].profile, None,
             IF active = None THEN NoFp ELSE Fingerprint[active])
    /\ Restack(WithoutRow(TopRow), 0)
    /\ UNCHANGED <<profiles, active, vaultVars>>

RollbackCurrent ==
    /\ IF active = None
       THEN End("current")
       ELSE /\ pc = "current"
            /\ pc' = IF SaveDir THEN "capture" ELSE "setactive"
            /\ cmd' = [cmd EXCEPT !.out = active]
            /\ UNCHANGED todo
    /\ UNCHANGED <<dbVars, vaultVars, worldVars>>

SetActive ==
    /\ End("setactive")
    /\ active' = cmd.target
    /\ UNCHANGED <<profiles, rows, vaultVars, worldVars>>

\* commit: refused at depth 0.
CommitExperiment ==
    /\ pc = "idle"
    /\ rows # <<>>
    /\ Restack(<<>>, 0)
    /\ UNCHANGED <<profiles, active, commandVars, vaultVars>>

-----------------------------------------------------------------------------
(* SaveManager::activate_with_fingerprint: capture the outgoing profile,   *)
(* park it, deploy the incoming one.                                       *)

Capture ==
    /\ Step("capture", "copyin")
    /\ CheckoutBranch(cmd.out)
    /\ UNCHANGED <<dbVars, worldVars>>

CaptureCopy ==
    /\ Step("copyin", IF live = Empty THEN AfterCapture ELSE "stage")
    /\ CopyIn
    /\ UNCHANGED <<dbVars, worldVars>>

CaptureStage ==
    /\ Step("stage", "commit")
    /\ StageAll
    /\ UNCHANGED <<dbVars, worldVars>>

CaptureCommit ==
    /\ Step("commit", AfterCapture)
    /\ CommitStaged(cmd.fp)
    /\ UNCHANGED <<dbVars, worldVars>>

ParkReset ==
    /\ pc = "resetpark" /\ pc' = "park" /\ UNCHANGED cmd
    /\ todo' = Names(live)
    /\ ResetPark(cmd.out)
    /\ UNCHANGED <<dbVars, worldVars>>

Park ==
    /\ pc = "park" /\ UNCHANGED cmd
    /\ \/ \E f \in todo : /\ ParkFile(cmd.out, f)
                          /\ todo' = todo \ {f}
                          /\ UNCHANGED pc
       \/ todo = {} /\ pc' = "deploy" /\ UNCHANGED <<todo, vaultVars>>
    /\ UNCHANGED <<dbVars, worldVars>>

Deploy ==
    /\ Step("deploy", "clear")
    /\ CheckoutBranch(cmd.target)
    /\ UNCHANGED <<dbVars, worldVars>>

Clear ==
    /\ pc = "clear" /\ pc' = "copyout" /\ UNCHANGED cmd
    /\ ClearLive
    /\ todo' = Names(work)
    /\ UNCHANGED <<dbVars, worldVars>>

CopyOut ==
    /\ \/ \E f \in todo : /\ pc = "copyout" /\ CopyOutFile(f)
                          /\ todo' = todo \ {f}
                          /\ UNCHANGED <<pc, cmd>>
       \/ /\ todo = {}
          /\ IF cmd.op = "restore" THEN End("copyout") ELSE Step("copyout", "setactive")
          /\ UNCHANGED vaultVars
    /\ UNCHANGED <<dbVars, worldVars>>

-----------------------------------------------------------------------------
(* Save commands.                                                          *)

\* `save adopt`: capture into the profile's branch (made if missing), then, if
\* no profile is active, activate it.
Adopt(p) ==
    /\ SaveDir /\ p \in profiles
    /\ CrossProfile \/ active \in {None, p}
    /\ Start("adopt", "capture", p, p, NoFp)
    /\ UNCHANGED <<dbVars, vaultVars, worldVars>>

AdoptActive ==
    /\ End("adoptactive")
    /\ active' = IF active = None THEN cmd.target ELSE active
    /\ UNCHANGED <<profiles, rows, vaultVars, worldVars>>

\* `save capture`, `save auto-capture`: a profile, with its own fingerprint.
SaveCapture(p) ==
    /\ SaveDir /\ p \in profiles
    /\ CrossProfile \/ active = p
    /\ Start("capture", "capture", p, p, Fingerprint[p])
    /\ UNCHANGED <<dbVars, vaultVars, worldVars>>

\* `save restore`: the live saves and what the branch had and the commit's
\* history has not are given up.
Restore(p) ==
    /\ SaveDir /\ p \in profiles
    /\ CrossProfile \/ active = p
    /\ Start("restore", "clear", p, None, NoFp)
    /\ \E b \in (IF CrossProfile THEN Branches ELSE {Slug[p]}) : \E k \in DOMAIN branch[b] :
          LET history == SubSeq(branch[b], 1, k)
          IN /\ ResetBranch(p, history)
             /\ forfeit' = forfeit \union Stamps(live)
                                   \union (History(Slug[p]) \ StampsOf(history))
    /\ UNCHANGED <<dbVars, watching, author, crashes, lost>>

\* `save watch`: the profile is resolved once, at the start; a change of the
\* save directory is captured for it.
WatchStart ==
    /\ Watching /\ SaveDir /\ watching = None /\ active # None
    /\ watching' = active
    /\ UNCHANGED <<vaultVars, dbVars, commandVars, author, forfeit, crashes, lost>>

WatchStop ==
    /\ watching # None /\ watching' = None
    /\ UNCHANGED <<vaultVars, dbVars, commandVars, author, forfeit, crashes, lost>>

WatchCapture ==
    /\ pc = "idle" /\ watching # None /\ live # Empty
    /\ Captured(watching, Fingerprint[watching])
    /\ UNCHANGED <<dbVars, commandVars, worldVars>>

-----------------------------------------------------------------------------
(* The game, and what goes wrong.                                          *)

GameWrite(f) ==
    LET s == Len(author) + 1
    IN /\ SaveDir /\ s <= MaxStamp
       /\ live' = [live EXCEPT ![f] = s]
       /\ author' = Append(author, active)
       /\ forfeit' = IF pc = "idle" THEN forfeit ELSE forfeit \union {s}
       /\ UNCHANGED <<gitVars, parked, meta, dbVars, commandVars, watching, crashes, lost>>

GameDelete(f) ==
    /\ GameMayDelete /\ SaveDir /\ live[f] # 0
    /\ live' = [live EXCEPT ![f] = 0]
    /\ UNCHANGED <<gitVars, parked, meta, dbVars, commandVars, worldVars>>

Crash ==
    /\ pc # "idle" /\ crashes < MaxCrashes
    /\ End(pc)
    /\ crashes' = crashes + 1
    /\ UNCHANGED <<vaultVars, dbVars, watching, author, forfeit, lost>>

-----------------------------------------------------------------------------

Init ==
    /\ VaultInit
    /\ live = Empty
    /\ profiles = Profiles
    /\ active = None
    /\ rows = <<>>
    /\ pc = "idle" /\ cmd = Idle /\ todo = {}
    /\ watching = None
    /\ author = <<>>
    /\ forfeit = {}
    /\ crashes = 0
    /\ lost = 0

ModdeStep ==
    \/ \E p \in Profiles : CreateProfile(p) \/ DeleteProfile(p) \/ Activate(p)
                           \/ Try(p) \/ Adopt(p) \/ SaveCapture(p) \/ Restore(p)
    \/ \E p, new \in Profiles : Fork(p, new)
    \/ ForkSaves \/ Push \/ Rollback \/ RollbackCurrent \/ SetActive
    \/ CommitExperiment \/ Capture \/ CaptureCopy \/ CaptureStage
    \/ CaptureCommit \/ ParkReset \/ Park \/ Deploy \/ Clear \/ CopyOut
    \/ AdoptActive \/ WatchStart \/ WatchStop \/ WatchCapture

GameStep == \E f \in Files : GameWrite(f) \/ GameDelete(f)

Next == ModdeStep \/ GameStep \/ Crash

Spec == Init /\ [][Next]_vars
-----------------------------------------------------------------------------
(* Properties of the saves.                                                *)

\* The saves modde still has somewhere: live, parked or in the vault.
Kept == Stamps(live) \union (UNION {Stamps(parked[p]) : p \in Profiles})
                     \union (UNION {History(b) : b \in Branches})

\* No step of a command or of the watcher, no failure and no crash between two
\* steps loses a save: it is live, parked or in the history of a branch.  Not
\* held to that: a save the game wrote while a command ran, and those a restore
\* gives up (it replaces the live saves and drops the later commits, as
\* docs/src/guides/saves.md says).
NothingLost ==
    [][ModdeStep \/ Crash => Kept \ forfeit' \subseteq Kept']_vars

\* A save leaves the root of the save directory for .modde/profiles only when
\* its profile's branch has it (the git history is the authoritative record),
\* whatever crashed before.
ParkedIsCommitted ==
    [][\A p \in Profiles : Stamps(parked'[p]) \ Stamps(parked[p])
            \subseteq History(Slug[p]) \union forfeit]_vars

\* Between commands, if none failed and save commands name the active profile,
\* every live save is one of the active profile: in its branch, or written
\* while it was active.
LiveIsActives ==
    pc = "idle" /\ crashes = 0 /\ active # None =>
        \A s \in Stamps(live) \ forfeit :
            s \in History(Slug[active]) \/ author[s] = active

\* Claimed by docs/src/guides/saves.md: profile branches are cut from main.
BranchesCutFromMain ==
    [][\A b \in Branches :
         branch[b] = <<>> /\ branch'[b] # <<>> /\ cmd.op # "fork"
            => branch'[b] = branch[Main]]_vars

\* Claimed by docs/src/guides/saves.md: a swap captures the current profile's
\* saves with the current fingerprint.
CaptureCarriesFingerprint ==
    [][CaptureCommit /\ branch' # branch /\ active # None
        => branch'[head][Len(branch'[head])].fp \in {Fingerprint[active], NoFp}]_vars

-----------------------------------------------------------------------------
(* Properties of the experiment stack.                                     *)

\* The experiment stack is a stack: rolling back makes active the profile that
\* was active when the last experiment began, whatever is committed,
\* interrupted, retried or deleted in between, as long as the deletions took at
\* most one row since the stack was last empty (db/saves.rs:137: a depth is a
\* number of rows, so that a second one is given to a row above a deeper one).
Experiments == INSTANCE LifoStack WITH
    stack <- [k \in DOMAIN rows |-> rows[k].profile],
    due   <- IF cmd.op = "rollback" THEN cmd.target ELSE None

RollbackIsLifo == Experiments!Lifo

\* The same without the condition on deletions.
RollbackIsAlwaysLifo ==
    [][Rollback => cmd'.target = rows[Len(rows)].profile]_vars

\* The depth of a row is the number of rows that were below it when it was
\* pushed: as many as are now, but for a row that deletions took.
DepthsFollow == lost <= 1 => \A k \in DOMAIN rows : rows[k].depth \in (k - 1)..(k - 1 + lost)
=============================================================================
