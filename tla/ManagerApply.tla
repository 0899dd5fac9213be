---------------------------- MODULE ManagerApply ----------------------------
(***************************************************************************)
(* modde-manager: Prepared::apply, the transactional write of a prepared   *)
(* plan into a game client's runtime root                                  *)
(* (crates/modde-manager/src/transaction.rs over files.rs).                *)
(*                                                                         *)
(* A manager process prepares a plan (what each declared destination held  *)
(* and what it is to hold), takes the lease of the root, checks twice that *)
(* nothing moved, and then installs the payloads one destination at a time *)
(* by no-replace renames through a recovery directory of its own, writing  *)
(* a journal as it goes.  An error undoes what was installed.  Meanwhile   *)
(* the game, the user or another program writes the same files (Foreign),  *)
(* any system call may fail (a fault) and the process may die (Crash); the *)
(* recovery directory and its journal then stay behind, for a person.      *)
(*                                                                         *)
(* Images are compared, never looked into; a path is its index in the plan *)
(* and at most one parent directory.  Payloads are staged in a directory   *)
(* nobody else writes and verified there, so installing one always yields  *)
(* the wanted image.                                                       *)
(***************************************************************************)
EXTENDS Integers, FiniteSets

CONSTANTS
    Managers,     \* processes that may apply a plan to this root
    N,            \* declared destinations are 1..N, in plan order
    FileImages,   \* Image::File(_)
    TreeImages,   \* Image::Directory(_)
    Missing,      \* Image::Missing
    InitImages,   \* the images a destination may hold at the start
    UserImages,   \* the images others write
    Folders,      \* directories that hold destinations
    Root,         \* the runtime root, the one folder that is always there
    Folder,       \* Folder[i]: the parent of destination i
    Wanted,       \* Wanted[m][i]: the image manager m declares for i
    Seed,         \* Seed[m]: the destinations m only fills when absent
    None,         \* no manager
    MaxWrites,    \* bound: foreign changes in a behaviour
    MaxFaults     \* bound: failed system calls and crashes in a behaviour

Dest     == 1..N
Image    == FileImages \union TreeImages \union {Missing}
Contents == [Dest -> Image]
Indices  == 0..(N + 1)

\* File and tree images are distinct from each other and from Missing, a plan
\* never asks for Missing, and seeds are files: Prepared::seed descends a tree
\* and adds its files one by one.
ASSUME ImageAssumption ==
    /\ N \in Nat
    /\ MaxWrites \in Nat /\ MaxFaults \in Nat
    /\ Missing \notin FileImages \union TreeImages
    /\ FileImages \intersect TreeImages = {}
    /\ InitImages \subseteq Image /\ UserImages \subseteq Image
    /\ Root \in Folders
    /\ Folder \in [Dest -> Folders]
    /\ None \notin Managers

ASSUME PlanAssumption ==
    /\ Wanted \in [Managers -> [Dest -> FileImages \union TreeImages]]
    /\ Seed \in [Managers -> SUBSET Dest]
    /\ \A m \in Managers : \A i \in Seed[m] : Wanted[m][i] \in FileImages

VARIABLES
    disk,       \* disk[i]: what destination i holds
    dirs,       \* the folders that exist
    litter,     \* the folders in which somebody else keeps a file
    lease,      \* the holder of the lock on the root, or None
    pc,         \* where each manager is in apply_inner
    before,     \* before[m][i]: the image m read when it prepared
    ops,        \* the operations of m's plan
    cur,        \* the operation m is at
    committed,  \* Vec committed, filled in ascending order
    undo,       \* what rollback has still to undo
    pending,    \* pending_backup, 0 for none
    created,    \* folders m made
    old,        \* old[m][i]: the file old-i of m's recovery directory
    rolled,     \* rolled[m][i]: the file rolled-back-i
    journal,    \* journal.json of m's recovery directory
    writes,     \* foreign changes so far
    faults      \* failures so far

world  == <<dirs, litter>>
plan   == <<before, ops>>
store  == <<old, rolled>>
memory == <<committed, pending, created>>
vars   == <<disk, world, lease, pc, plan, cur, memory, undo, store, journal,
            writes, faults>>

Statuses == {"none", "prepared", "committing", "rolled-back",
             "rollback-failed", "committed"}
Journal  == [status: Statuses, committed: SUBSET Dest, pending: Dest \union {0}]

\* Labels of apply_inner: outside the lease, before the recovery directory is
\* kept, inside the commit closure, inside the rollback, done.
Outside  == {"idle", "prepared"}
Early    == {"revalidate", "stage", "jprepared"}
Moving   == {"jpend", "install", "giveback"}
Closure  == {"loop", "open", "jopen", "link", "backup", "jcommit", "jfinal"}
            \union Moving
Undoing  == {"rbpending", "rbcheck", "rbtake", "rbput", "rbdirs",
             "rbdone", "rbfailed"}
Finished == {"ok", "error", "crashed"}
Labels   == Outside \union Early \union Closure \union Undoing \union Finished

TypeOK ==
    /\ disk \in Contents
    /\ dirs \in SUBSET Folders
    /\ litter \in SUBSET Folders
    /\ lease \in Managers \union {None}
    /\ pc \in [Managers -> Labels]
    /\ before \in [Managers -> Contents]
    /\ ops \in [Managers -> SUBSET Dest]
    /\ cur \in [Managers -> Indices]
    /\ committed \in [Managers -> SUBSET Dest]
    /\ undo \in [Managers -> SUBSET Dest]
    /\ pending \in [Managers -> Dest \union {0}]
    /\ created \in [Managers -> SUBSET Folders]
    /\ old \in [Managers -> Contents]
    /\ rolled \in [Managers -> Contents]
    /\ journal \in [Managers -> Journal]
    /\ writes \in Nat
    /\ faults \in Nat

-----------------------------------------------------------------------------
(* Helpers: one per idea of the code.                                      *)

At(m, label)   == pc[m] = label
Goto(m, label) == pc' = [pc EXCEPT ![m] = label]

\* The `?` inside the commit closure: leave it and start the rollback.
Abort(m) ==
    /\ Goto(m, "rbpending")
    /\ undo' = [undo EXCEPT ![m] = committed[m]]

\* Return from apply_inner: the Lease is dropped.
Return(m, how) ==
    /\ Goto(m, how)
    /\ lease' = None

\* A mutant: the journal forgets the committed operations.
RecordPendingOnly(m, status) ==
    journal' = [journal EXCEPT ![m] = [status |-> status, committed |-> {},
                                       pending |-> pending[m]]]

\* journal(status, &committed, &created, pending_backup).
Record(m, status) ==
    journal' = [journal EXCEPT ![m] = [status |-> status,
                                       committed |-> committed[m],
                                       pending |-> pending[m]]]

\* Prepared::revalidate: each destination still holds what was read, or is a
\* seed somebody has filled.
Unmoved(m) ==
    \A i \in ops[m] : \/ disk[i] = before[m][i]
                      \/ i \in Seed[m] /\ disk[i] \in FileImages

\* A mutant: a rename that replaces what is there.
Replaceable(i) == Folder[i] \in dirs

\* The destination is free and its folder is there: what a no-replace rename
\* or a hard link onto it needs.
Vacant(i) == disk[i] = Missing /\ Folder[i] \in dirs

Occupied(d) == d \in litter \/ \E i \in Dest : Folder[i] = d /\ disk[i] # Missing

\* A mutant: operations are counted from one where they are from zero.
PlaceMiscounted(m, i) ==
    /\ disk' = [disk EXCEPT ![i] = Wanted[m][i]]
    /\ committed' = [committed EXCEPT ![m] = @ \union {i + 1}]

\* The moves between destination i and the recovery directory: the payload to
\* the target (rename or hard link), the target to old-i and back, the target
\* to rolled-back-i.
Place(m, i) ==
    /\ disk' = [disk EXCEPT ![i] = Wanted[m][i]]
    /\ committed' = [committed EXCEPT ![m] = @ \union {i}]
SetAside(m, i) ==
    /\ old' = [old EXCEPT ![m][i] = disk[i]]
    /\ disk' = [disk EXCEPT ![i] = Missing]
PutBack(m, i) ==
    /\ disk' = [disk EXCEPT ![i] = old[m][i]]
    /\ old' = [old EXCEPT ![m][i] = Missing]
TakeOut(m, i) ==
    /\ rolled' = [rolled EXCEPT ![m][i] = disk[i]]
    /\ disk' = [disk EXCEPT ![i] = Missing]

-----------------------------------------------------------------------------
(* Preparation and the steps before anything is moved.                     *)

\* prepare / Prepared::add: read every destination; a file where a tree is
\* declared (or the reverse) refuses the plan; what is already as declared,
\* and a seed that is already there, is left out.
Prepare(m) ==
    LET conflict == \E i \in Dest :
            \/ disk[i] \in FileImages /\ Wanted[m][i] \in TreeImages
            \/ disk[i] \in TreeImages /\ Wanted[m][i] \in FileImages
    IN /\ At(m, "idle")
       /\ IF conflict
          THEN Goto(m, "error") /\ UNCHANGED plan
          ELSE /\ Goto(m, "prepared")
               /\ before' = [before EXCEPT ![m] = disk]
               /\ ops' = [ops EXCEPT ![m] =
                    {i \in Dest : /\ disk[i] # Wanted[m][i]
                                  /\ i \in Seed[m] => disk[i] = Missing}]
       /\ UNCHANGED <<disk, world, lease, cur, memory, undo, store, journal,
                      writes, faults>>

\* A mutant: the lease is taken though another process holds it.
LockAnyway(m) ==
    /\ At(m, "prepared")
    /\ lease' = m /\ Goto(m, "revalidate")
    /\ UNCHANGED <<disk, world, plan, cur, memory, undo, store, journal,
                   writes, faults>>

\* Anchor::lock: try_lock, never a wait.
Lock(m) ==
    /\ At(m, "prepared")
    /\ IF lease = None
       THEN lease' = m /\ Goto(m, "revalidate")
       ELSE Goto(m, "error") /\ UNCHANGED lease
    /\ UNCHANGED <<disk, world, plan, cur, memory, undo, store, journal,
                   writes, faults>>

\* The first revalidation; an empty plan is a success that writes nothing.
Revalidate(m) ==
    /\ At(m, "revalidate")
    /\ \/ ~Unmoved(m) /\ Return(m, "error")
       \/ Unmoved(m) /\ ops[m] = {} /\ Return(m, "ok")
       \/ Unmoved(m) /\ ops[m] # {} /\ Goto(m, "stage") /\ UNCHANGED lease
    /\ UNCHANGED <<disk, world, plan, cur, memory, undo, store, journal,
                   writes, faults>>

\* Payloads are written and verified, then everything is revalidated again;
\* on failure the temporary directory is removed.
Stage(m) ==
    /\ At(m, "stage")
    /\ IF Unmoved(m)
       THEN Goto(m, "jprepared") /\ UNCHANGED lease
       ELSE Return(m, "error")
    /\ UNCHANGED <<disk, world, plan, cur, memory, undo, store, journal,
                   writes, faults>>

JournalPrepared(m) ==
    /\ At(m, "jprepared")
    /\ Record(m, "prepared")
    /\ Goto(m, "loop")
    /\ cur' = [cur EXCEPT ![m] = 1]
    /\ UNCHANGED <<disk, world, lease, plan, memory, undo, store, writes, faults>>

-----------------------------------------------------------------------------
(* The commit closure, one operation at a time.                            *)

\* The head of the loop: a seed that has appeared is skipped, a destination
\* that changed ends the commit.
Check(m) ==
    LET i == cur[m]
    IN /\ At(m, "loop") /\ i \in Dest
       /\ \/ /\ i \notin ops[m] \/ (i \in Seed[m] /\ disk[i] \in FileImages)
             /\ cur' = [cur EXCEPT ![m] = i + 1]
             /\ UNCHANGED <<pc, undo>>
          \/ /\ i \in ops[m] /\ ~(i \in Seed[m] /\ disk[i] \in FileImages)
             /\ IF disk[i] = before[m][i]
                THEN Goto(m, "open") /\ UNCHANGED undo
                ELSE Abort(m)
             /\ UNCHANGED cur
       /\ UNCHANGED <<disk, world, lease, plan, memory, store, journal,
                      writes, faults>>

\* Anchor::target(path, create = true, &mut created).
Open(m) ==
    LET d == Folder[cur[m]]
    IN /\ At(m, "open")
       /\ dirs' = dirs \union {d}
       /\ created' = [created EXCEPT ![m] = IF d \in dirs THEN @ ELSE @ \union {d}]
       /\ Goto(m, "jopen")
       /\ UNCHANGED <<disk, litter, lease, plan, cur, committed, pending, undo,
                      store, journal, writes, faults>>

\* The journal, then revalidate_parent.
JournalOpen(m) ==
    LET i == cur[m]
    IN /\ At(m, "jopen")
       /\ Record(m, "committing")
       /\ IF Folder[i] \in dirs
          THEN /\ Goto(m, IF i \in Seed[m] THEN "link"
                          ELSE IF before[m][i] # Missing THEN "backup"
                          ELSE "install")
               /\ UNCHANGED undo
          ELSE Abort(m)
       /\ UNCHANGED <<disk, world, lease, plan, cur, memory, store, writes, faults>>

\* fs::hard_link(payload, target): never replaces; a file that won the race
\* is kept and the seed skipped.
Link(m) ==
    LET i == cur[m]
    IN /\ At(m, "link")
       /\ \/ /\ Vacant(i)
             /\ Place(m, i)
             /\ Goto(m, "jcommit")
             /\ UNCHANGED <<cur, undo>>
          \/ /\ disk[i] \in FileImages
             /\ Goto(m, "loop")
             /\ cur' = [cur EXCEPT ![m] = i + 1]
             /\ UNCHANGED <<disk, committed, undo>>
          \/ /\ ~Vacant(i) /\ disk[i] \notin FileImages
             /\ Abort(m)
             /\ UNCHANGED <<disk, committed, cur>>
       /\ UNCHANGED <<world, lease, plan, pending, created, store, journal,
                      writes, faults>>

\* rename_noreplace(target, old-i): whatever is at the target by now.
Backup(m) ==
    LET i == cur[m]
    IN /\ At(m, "backup")
       /\ IF disk[i] # Missing
          THEN /\ SetAside(m, i)
               /\ pending' = [pending EXCEPT ![m] = i]
               /\ Goto(m, "jpend")
               /\ UNCHANGED undo
          ELSE Abort(m) /\ UNCHANGED <<old, disk, pending>>
       /\ UNCHANGED <<world, lease, plan, cur, committed, created, rolled,
                      journal, writes, faults>>

JournalPending(m) ==
    /\ At(m, "jpend")
    /\ Record(m, "committing")
    /\ Goto(m, "install")
    /\ UNCHANGED <<disk, world, lease, plan, cur, memory, undo, store, writes, faults>>

\* rename_noreplace(new-i, target); the failure of a replacement is answered
\* by an attempt to put the backup back.
Install(m) ==
    LET i == cur[m]
    IN /\ At(m, "install")
       /\ IF Vacant(i)
          THEN /\ Place(m, i)
               /\ pending' = [pending EXCEPT ![m] = 0]
               /\ Goto(m, "jcommit")
               /\ UNCHANGED undo
          ELSE /\ IF before[m][i] # Missing
                  THEN Goto(m, "giveback") /\ UNCHANGED undo
                  ELSE Abort(m)
               /\ UNCHANGED <<disk, committed, pending>>
       /\ UNCHANGED <<world, lease, plan, cur, created, store, journal,
                      writes, faults>>

GiveBack(m) ==
    LET i == cur[m]
    IN /\ At(m, "giveback")
       /\ IF Vacant(i)
          THEN /\ PutBack(m, i)
               /\ pending' = [pending EXCEPT ![m] = 0]
          ELSE UNCHANGED <<disk, old, pending>>
       /\ Abort(m)
       /\ UNCHANGED <<world, lease, plan, cur, committed, created, rolled,
                      journal, writes, faults>>

JournalCommit(m) ==
    /\ At(m, "jcommit")
    /\ Record(m, "committing")
    /\ Goto(m, "loop")
    /\ cur' = [cur EXCEPT ![m] = @ + 1]
    /\ UNCHANGED <<disk, world, lease, plan, memory, undo, store, writes, faults>>

LoopEnd(m) ==
    /\ At(m, "loop") /\ cur[m] = N + 1
    /\ Goto(m, "jfinal")
    /\ UNCHANGED <<disk, world, lease, plan, cur, memory, undo, store, journal,
                   writes, faults>>

JournalFinal(m) ==
    /\ At(m, "jfinal")
    /\ Record(m, "committed")
    /\ Return(m, "ok")
    /\ UNCHANGED <<disk, world, plan, cur, memory, undo, store, writes, faults>>

-----------------------------------------------------------------------------
(* The rollback.                                                           *)

\* A mutant: the rollback only looks at the committed operations.
ForgetPending(m) ==
    /\ At(m, "rbpending")
    /\ Goto(m, "rbcheck")
    /\ UNCHANGED <<disk, world, lease, plan, cur, memory, undo, store, journal,
                   writes, faults>>

RestorePending(m) ==
    LET i == pending[m]
    IN /\ At(m, "rbpending")
       /\ IF i = 0
          THEN Goto(m, "rbcheck") /\ UNCHANGED <<disk, old, pending>>
          ELSE IF Vacant(i)
          THEN /\ PutBack(m, i)
               /\ pending' = [pending EXCEPT ![m] = 0]
               /\ Goto(m, "rbcheck")
          ELSE Goto(m, "rbfailed") /\ UNCHANGED <<disk, old, pending>>
       /\ UNCHANGED <<world, lease, plan, cur, committed, created, undo, rolled,
                      journal, writes, faults>>

\* The last operation not yet undone; a destination that no longer holds the
\* payload is refused.
UndoCheck(m) ==
    /\ At(m, "rbcheck")
    /\ \/ /\ undo[m] = {}
          /\ Goto(m, "rbdirs")
          /\ UNCHANGED cur
       \/ \E i \in undo[m] :
             /\ \A j \in undo[m] : j <= i
             /\ cur' = [cur EXCEPT ![m] = i]
             /\ Goto(m, IF disk[i] = Wanted[m][i] THEN "rbtake" ELSE "rbfailed")
    /\ UNCHANGED <<disk, world, lease, plan, memory, undo, store, journal,
                   writes, faults>>

\* rename_noreplace(target, rolled-back-i): whatever is at the target by now.
UndoTake(m) ==
    LET i == cur[m]
    IN /\ At(m, "rbtake")
       /\ IF disk[i] # Missing
          THEN /\ TakeOut(m, i)
               /\ IF before[m][i] # Missing
                  THEN Goto(m, "rbput") /\ UNCHANGED undo
                  ELSE /\ Goto(m, "rbcheck")
                       /\ undo' = [undo EXCEPT ![m] = @ \ {i}]
          ELSE Goto(m, "rbfailed") /\ UNCHANGED <<rolled, disk, undo>>
       /\ UNCHANGED <<world, lease, plan, cur, memory, old, journal, writes, faults>>

\* rename_noreplace(old-i, target).
UndoPut(m) ==
    LET i == cur[m]
    IN /\ At(m, "rbput")
       /\ IF Vacant(i)
          THEN /\ PutBack(m, i)
               /\ undo' = [undo EXCEPT ![m] = @ \ {i}]
               /\ Goto(m, "rbcheck")
          ELSE Goto(m, "rbfailed") /\ UNCHANGED <<disk, old, undo>>
       /\ UNCHANGED <<world, lease, plan, cur, memory, rolled, journal,
                      writes, faults>>

\* fs::remove_dir of every created folder: fails on one that is not empty or
\* not there.  `created` keeps those still to be removed.
RemoveDirs(m) ==
    /\ At(m, "rbdirs")
    /\ \/ /\ created[m] = {}
          /\ Goto(m, "rbdone")
          /\ UNCHANGED <<dirs, created>>
       \/ \E d \in created[m] :
             IF d \in dirs /\ ~Occupied(d)
             THEN /\ dirs' = dirs \ {d}
                  /\ created' = [created EXCEPT ![m] = @ \ {d}]
                  /\ UNCHANGED pc
             ELSE Goto(m, "rbfailed") /\ UNCHANGED <<dirs, created>>
    /\ UNCHANGED <<disk, litter, lease, plan, cur, committed, pending, undo,
                   store, journal, writes, faults>>

\* A mutant: a failed apply keeps its lease.
JournalRollbackHolding(m) ==
    /\ \/ At(m, "rbdone")   /\ Record(m, "rolled-back")
       \/ At(m, "rbfailed") /\ Record(m, "rollback-failed")
    /\ Goto(m, "error")
    /\ UNCHANGED <<disk, world, lease, plan, cur, memory, undo, store, writes, faults>>

JournalRollback(m) ==
    /\ \/ At(m, "rbdone")   /\ Record(m, "rolled-back")
       \/ At(m, "rbfailed") /\ Record(m, "rollback-failed")
    /\ Return(m, "error")
    /\ UNCHANGED <<disk, world, plan, cur, memory, undo, store, writes, faults>>

-----------------------------------------------------------------------------
(* Failures.  A failed journal write (atomic_write_0600, then fsync of the *)
(* directory) may or may not have replaced the file.                       *)

FaultBudget == faults < MaxFaults /\ faults' = faults + 1

\* An error before the recovery directory is kept, or in the two journal
\* writes outside the closure and its rollback: apply returns it as it is.
FaultReturn(m) ==
    /\ FaultBudget
    /\ pc[m] \in Early \union {"jfinal"}
    /\ \/ UNCHANGED journal
       \/ At(m, "jprepared") /\ Record(m, "prepared")
       \/ At(m, "jfinal") /\ Record(m, "committed")
    /\ Return(m, "error")
    /\ UNCHANGED <<disk, world, plan, cur, memory, undo, store, writes>>

\* An error inside the closure.
FaultCommit(m) ==
    /\ FaultBudget
    /\ \/ pc[m] \in Closure \ {"install", "jfinal"} /\ cur[m] <= N /\ Abort(m)
       \/ At(m, "install") /\ before[m][cur[m]] = Missing /\ Abort(m)
       \/ /\ At(m, "install") /\ before[m][cur[m]] # Missing
          /\ Goto(m, "giveback") /\ UNCHANGED undo
    /\ \/ UNCHANGED journal
       \/ pc[m] \in {"jopen", "jpend", "jcommit"} /\ Record(m, "committing")
    /\ UNCHANGED <<disk, world, lease, plan, cur, memory, store, writes>>

\* An error inside the rollback.
FaultRollback(m) ==
    /\ FaultBudget
    /\ pc[m] \in Undoing \ {"rbdone", "rbfailed"}
    /\ Goto(m, "rbfailed")
    /\ UNCHANGED <<disk, world, lease, plan, cur, memory, undo, store, journal, writes>>

\* The last journal write fails: the status of the rollback is not recorded.
FaultJournalRollback(m) ==
    /\ FaultBudget
    /\ pc[m] \in {"rbdone", "rbfailed"}
    /\ Return(m, "error")
    /\ UNCHANGED <<disk, world, plan, cur, memory, undo, store, journal, writes>>

\* The process dies; the kernel drops its lock.
Crash(m) ==
    /\ FaultBudget
    /\ pc[m] \in Early \union Closure \union Undoing
    /\ Return(m, "crashed")
    /\ UNCHANGED <<disk, world, plan, cur, memory, undo, store, journal, writes>>

-----------------------------------------------------------------------------
(* Everybody else: the game, the user, another program.                    *)

WriteBudget == writes < MaxWrites /\ writes' = writes + 1

ForeignWrite(i, image) ==
    /\ WriteBudget
    /\ disk[i] # image
    /\ disk' = [disk EXCEPT ![i] = image]
    /\ dirs' = IF image = Missing THEN dirs ELSE dirs \union {Folder[i]}
    /\ UNCHANGED <<litter, lease, pc, plan, cur, memory, undo, store, journal, faults>>

ForeignLitter(d) ==
    /\ WriteBudget
    /\ d \in dirs \ (litter \union {Root})
    /\ litter' = litter \union {d}
    /\ UNCHANGED <<disk, dirs, lease, pc, plan, cur, memory, undo, store, journal, faults>>

ForeignRmdir(d) ==
    /\ WriteBudget
    /\ d \in dirs \ {Root} /\ ~Occupied(d)
    /\ dirs' = dirs \ {d}
    /\ UNCHANGED <<disk, litter, lease, pc, plan, cur, memory, undo, store, journal, faults>>

-----------------------------------------------------------------------------

Init ==
    /\ disk \in [Dest -> InitImages]
    /\ dirs = {Root} \union {Folder[i] : i \in {j \in Dest : disk[j] # Missing}}
    /\ litter = {}
    /\ lease = None
    /\ pc = [m \in Managers |-> "idle"]
    /\ before = [m \in Managers |-> [i \in Dest |-> Missing]]
    /\ ops = [m \in Managers |-> {}]
    /\ cur = [m \in Managers |-> 0]
    /\ committed = [m \in Managers |-> {}]
    /\ undo = [m \in Managers |-> {}]
    /\ pending = [m \in Managers |-> 0]
    /\ created = [m \in Managers |-> {}]
    /\ old = [m \in Managers |-> [i \in Dest |-> Missing]]
    /\ rolled = [m \in Managers |-> [i \in Dest |-> Missing]]
    /\ journal = [m \in Managers |->
                    [status |-> "none", committed |-> {}, pending |-> 0]]
    /\ writes = 0
    /\ faults = 0

\* What the code does on its own, without a failure.
Advance(m) ==
    \/ Prepare(m) \/ Lock(m) \/ Revalidate(m) \/ Stage(m) \/ JournalPrepared(m)
    \/ Check(m) \/ Open(m) \/ JournalOpen(m) \/ Link(m) \/ Backup(m)
    \/ JournalPending(m) \/ Install(m) \/ GiveBack(m) \/ JournalCommit(m)
    \/ LoopEnd(m) \/ JournalFinal(m)
    \/ RestorePending(m) \/ UndoCheck(m) \/ UndoTake(m) \/ UndoPut(m)
    \/ RemoveDirs(m) \/ JournalRollback(m)

Failure(m) ==
    \/ FaultReturn(m) \/ FaultCommit(m) \/ FaultRollback(m)
    \/ FaultJournalRollback(m) \/ Crash(m)

Foreign ==
    \/ \E i \in Dest : \E image \in UserImages : ForeignWrite(i, image)
    \/ \E d \in Folders : ForeignLitter(d) \/ ForeignRmdir(d)

Next ==
    \/ \E m \in Managers : Advance(m) \/ Failure(m)
    \/ Foreign

Spec == Init /\ [][Next]_vars

\* A manager that is running keeps running until it returns or dies.
FairSpec == Spec /\ \A m \in Managers : WF_vars(Advance(m) /\ pc[m] # "idle")
-----------------------------------------------------------------------------
(* Properties.                                                             *)

\* What is held for destination i: on disk or in a recovery directory.
Held(i) == ({disk[i]} \union {old[m][i] : m \in Managers}
                      \union {rolled[m][i] : m \in Managers}) \ {Missing}

\* No step of a manager, a failure or a crash destroys an image: whatever was
\* at a destination, the user's race-winning edit included, is afterwards at
\* the destination or in some recovery directory.  (Only foreign steps count
\* in `writes`.)  About the no-replace renames and the hard link of
\* apply_inner, between whose checks and moves anybody may write.
NothingDestroyed ==
    [][writes' = writes => \A i \in Dest : Held(i) \subseteq Held(i)']_vars

\* A journal that says "rolled-back" leaves no original behind in its recovery
\* directory: every backup, the pending one included, went back.
RolledBackIsWhole ==
    \A m \in Managers : journal[m].status = "rolled-back" =>
        \A i \in Dest : old[m][i] = Missing

\* With no foreign write, whatever fails: when the commit ends every operation
\* is installed (a seed may have been filled before), and when a rollback ends
\* every destination holds what was read, and no folder made is left.
UndisturbedOutcome ==
    writes = 0 => \A m \in Managers :
        /\ pc[m] = "jfinal" => \A i \in ops[m] :
               disk[i] = Wanted[m][i] \/ (i \in Seed[m] /\ disk[i] \in FileImages)
        /\ pc[m] = "rbdone" => Unmoved(m) /\ created[m] = {}

\* Whenever the process dies, the journal on disk names every backup in the
\* recovery directory, but for at most one.
JournalNamesBackups ==
    \A m \in Managers : \A i, j \in Dest :
        LET unnamed(k) == /\ old[m][k] # Missing
                          /\ k \notin journal[m].committed
                          /\ k # journal[m].pending
        IN unnamed(i) /\ unnamed(j) => i = j

\* The lease always comes back: neither a failure at any step nor a foreign
\* write keeps apply from returning.
LeaseIsReturned == \A m \in Managers : lease = m ~> lease # m
=============================================================================
