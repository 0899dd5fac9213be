------------------------ MODULE ManagerApply_proofs -------------------------
(***************************************************************************)
(* Theorems about ManagerApply for any number of managers, destinations,   *)
(* images, foreign changes and failures.                                   *)
(*                                                                         *)
(* The inductive invariant follows a backup from the rename that makes it  *)
(* to the rename that puts it back.  While the commit runs the backup of a *)
(* destination is that of a committed operation or the pending one; once   *)
(* the rollback has dealt with the pending one it is that of an operation  *)
(* still to undo; so there is none when nothing is left to undo.           *)
(***************************************************************************)
EXTENDS ManagerApply, TLAPS

\* Labels at which cur is the index of an operation.
AtOperation == {"open", "jopen", "link", "backup", "jpend", "install",
                "giveback", "jcommit", "rbtake", "rbput"}

\* Labels of the rollback once the pending backup is dealt with.
Restoring == {"rbcheck", "rbtake", "rbput", "rbdirs", "rbdone"}

\* TypeOK, and an operation is at hand wherever the code names one.
TypeInv ==
    /\ TypeOK
    /\ \A m \in Managers : pc[m] \in AtOperation => cur[m] \in Dest

\* Where manager m's backups are accounted for.
BackupInv(m) ==
    /\ \A i \in Dest : old[m][i] # Missing => before[m][i] # Missing
    /\ pc[m] \in Outside \union Early =>
           pending[m] = 0 /\ \A i \in Dest : old[m][i] = Missing
    /\ pc[m] \in Closure \union Undoing =>
           \A i \in Dest : old[m][i] # Missing => i \in committed[m] \/ i = pending[m]
    /\ pc[m] \in Closure \ Moving => pending[m] = 0
    /\ pc[m] \in Moving => pending[m] \in {0, cur[m]}
    /\ pc[m] = "backup" => before[m][cur[m]] # Missing
    /\ pc[m] = "rbpending" => undo[m] = committed[m]
    /\ pc[m] \in Restoring => \A i \in Dest : old[m][i] # Missing => i \in undo[m]
    /\ pc[m] \in {"rbdirs", "rbdone"} => undo[m] = {}
    /\ journal[m].status = "rolled-back" =>
           pc[m] \in Finished /\ \A i \in Dest : old[m][i] = Missing

\* No file of m's recovery directory is written twice.
MoveInv(m) ==
    /\ pc[m] \in Outside \union Early => committed[m] = {}
    /\ pc[m] \in Closure \ {"jcommit", "jfinal"} => \A i \in committed[m] : i < cur[m]
    /\ pc[m] = "jcommit" => \A i \in committed[m] : i <= cur[m]
    /\ pc[m] \in Outside \union Early \union Closure \union {"rbpending"} =>
           \A i \in Dest : rolled[m][i] = Missing
    /\ pc[m] \in {"rbcheck", "rbtake"} => \A i \in undo[m] : rolled[m][i] = Missing
    /\ pc[m] = "rbtake" => cur[m] \in undo[m]
    /\ pc[m] = "rbput" => \A i \in undo[m] \ {cur[m]} : rolled[m][i] = Missing

\* How far m's journal lags behind its memory.
JournalInv(m) ==
    /\ pc[m] \in Closure \ {"jcommit"} => committed[m] \subseteq journal[m].committed
    /\ pc[m] = "jcommit" => committed[m] \subseteq journal[m].committed \union {cur[m]}

-----------------------------------------------------------------------------
(* Types.                                                                  *)

\* The initial state is typed.
LEMMA InitType == Init => TypeInv
<1> SUFFICES ASSUME Init PROVE TypeInv
  OBVIOUS
<1>1. disk \in Contents /\ dirs \in SUBSET Folders /\ litter \in SUBSET Folders
  BY ImageAssumption, SMTT(20) DEF Init, Contents, Image
<1>2. /\ lease \in Managers \union {None}
      /\ pc \in [Managers -> Labels]
      /\ \A m \in Managers : pc[m] \notin AtOperation
      /\ cur \in [Managers -> Indices]
      /\ pending \in [Managers -> Dest \union {0}]
  BY ImageAssumption, SMTT(20) DEF Init, Labels, Outside, AtOperation, Indices
<1>3. /\ before \in [Managers -> Contents]
      /\ old \in [Managers -> Contents]
      /\ rolled \in [Managers -> Contents]
  BY SMT DEF Init, Contents, Image
<1>4. /\ ops \in [Managers -> SUBSET Dest]
      /\ committed \in [Managers -> SUBSET Dest]
      /\ undo \in [Managers -> SUBSET Dest]
      /\ created \in [Managers -> SUBSET Folders]
  BY SMT DEF Init
<1>5. journal \in [Managers -> Journal] /\ writes \in Nat /\ faults \in Nat
  BY SMT DEF Init, Journal, Statuses
<1> QED
  BY <1>1, <1>2, <1>3, <1>4, <1>5 DEF TypeInv, TypeOK

\* g is f but for its value at m.
UpdatedAt(f, g, m) == g = f \/ g = [f EXCEPT ![m] = g[m]]

\* A step of manager m changes what is m's alone, and keeps to the types.
OwnStep(m) ==
    /\ UpdatedAt(pc, pc', m)
    /\ UpdatedAt(before, before', m)
    /\ UpdatedAt(ops, ops', m)
    /\ UpdatedAt(cur, cur', m)
    /\ UpdatedAt(committed, committed', m)
    /\ UpdatedAt(undo, undo', m)
    /\ UpdatedAt(pending, pending', m)
    /\ UpdatedAt(created, created', m)
    /\ UpdatedAt(old, old', m)
    /\ UpdatedAt(rolled, rolled', m)
    /\ UpdatedAt(journal, journal', m)
    /\ writes' = writes

\* The values m's own variables take are of their types.
OwnTyped(m) ==
    /\ pc'[m] \in Labels
    /\ before'[m] \in Contents
    /\ ops'[m] \in SUBSET Dest
    /\ cur'[m] \in Indices
    /\ committed'[m] \in SUBSET Dest
    /\ undo'[m] \in SUBSET Dest
    /\ pending'[m] \in Dest \union {0}
    /\ created'[m] \in SUBSET Folders
    /\ old'[m] \in Contents
    /\ rolled'[m] \in Contents
    /\ journal'[m] \in Journal
    /\ disk' \in Contents
    /\ lease' \in Managers \union {None}
    /\ dirs' \in SUBSET Folders /\ litter' \in SUBSET Folders
    /\ faults' \in Nat
    /\ pc'[m] \in AtOperation => cur'[m] \in Dest

\* The four moves of files keep to the types.
LEMMA PlaceType ==
  ASSUME TypeOK, NEW m \in Managers, NEW i \in Dest, Place(m, i)
  PROVE  /\ disk' \in Contents
         /\ UpdatedAt(committed, committed', m) /\ committed'[m] \in SUBSET Dest
<1>0. Wanted[m][i] \in Image
  BY PlanAssumption, SMTT(20) DEF Image
<1>1. disk' \in Contents
  BY <1>0, SMTT(20) DEF TypeOK, Contents, Place
<1>2. committed'[m] = committed[m] \union {i}
  BY SMT DEF TypeOK, Place
<1>3. committed' = [committed EXCEPT ![m] = committed'[m]]
  BY <1>2, SMTT(20) DEF TypeOK, Place
<1>4. committed'[m] \in SUBSET Dest
  BY <1>2, SMTT(20) DEF TypeOK
<1> QED
  BY <1>1, <1>3, <1>4 DEF UpdatedAt

\* Setting the target aside into old-i.
LEMMA SetAsideType ==
  ASSUME TypeOK, NEW m \in Managers, NEW i \in Dest, SetAside(m, i)
  PROVE  /\ disk' \in Contents
         /\ UpdatedAt(old, old', m) /\ old'[m] \in Contents
  BY SMT DEF TypeOK, SetAside, UpdatedAt, Contents, Image

\* Putting old-i back at the target.
LEMMA PutBackType ==
  ASSUME TypeOK, NEW m \in Managers, NEW i \in Dest, PutBack(m, i)
  PROVE  /\ disk' \in Contents
         /\ UpdatedAt(old, old', m) /\ old'[m] \in Contents
  BY SMT DEF TypeOK, PutBack, UpdatedAt, Contents, Image

\* Taking the target out into rolled-back-i.
LEMMA TakeOutType ==
  ASSUME TypeOK, NEW m \in Managers, NEW i \in Dest, TakeOut(m, i)
  PROVE  /\ disk' \in Contents
         /\ UpdatedAt(rolled, rolled', m) /\ rolled'[m] \in Contents
  BY SMT DEF TypeOK, TakeOut, UpdatedAt, Contents, Image

\* Every step of m, failed ones included, changes m's variables within their
\* types.
LEMMA OwnStepTyped ==
  ASSUME NEW m \in Managers, TypeInv, Advance(m) \/ Failure(m)
  PROVE  OwnStep(m) /\ OwnTyped(m)
<1> USE ImageAssumption, PlanAssumption DEF TypeInv, TypeOK, Indices, Dest, Journal, Statuses,
     Labels, Outside, Early, Moving, Closure, Undoing, Finished, AtOperation,
     world, plan, store, memory, At, Goto, Return, Record, Abort, FaultBudget,
     OwnStep, OwnTyped, UpdatedAt
<1>1. CASE Prepare(m)
  BY <1>1, SMTT(20) DEF Prepare
<1>2. CASE Lock(m)
  BY <1>2, SMTT(20) DEF Lock
<1>3. CASE Revalidate(m)
  BY <1>3, SMTT(20) DEF Revalidate
<1>4. CASE Stage(m)
  BY <1>4, SMTT(20) DEF Stage
<1>5. CASE JournalPrepared(m)
  BY <1>5, SMTT(20) DEF JournalPrepared
<1>6. CASE Check(m)
  BY <1>6, SMTT(20) DEF Check
<1>7. CASE Open(m)
  BY <1>7, SMTT(20) DEF Open
<1>8. CASE JournalOpen(m)
  BY <1>8, SMTT(20) DEF JournalOpen
<1>9. CASE Link(m)
  BY <1>9, PlaceType, SMTT(20) DEF Link
<1>10. CASE Backup(m)
  BY <1>10, SetAsideType, SMTT(20) DEF Backup
<1>11. CASE JournalPending(m)
  BY <1>11, SMTT(20) DEF JournalPending
<1>12. CASE Install(m)
  BY <1>12, PlaceType, SMTT(20) DEF Install
<1>13. CASE GiveBack(m)
  BY <1>13, PutBackType, SMTT(20) DEF GiveBack
<1>14. CASE JournalCommit(m)
  BY <1>14, SMTT(20) DEF JournalCommit
<1>15. CASE LoopEnd(m)
  BY <1>15, SMTT(20) DEF LoopEnd
<1>16. CASE JournalFinal(m)
  BY <1>16, SMTT(20) DEF JournalFinal
<1>17. CASE RestorePending(m)
  <2>1. CASE pending[m] = 0 \/ ~Vacant(pending[m])
    BY <1>17, <2>1, SMTT(20) DEF RestorePending
  <2>2. CASE pending[m] \in Dest /\ Vacant(pending[m])
    <3>1. PutBack(m, pending[m])
      BY <1>17, <2>2, SMTT(20) DEF RestorePending
    <3> QED
      BY <1>17, <2>2, <3>1, PutBackType, SMTT(20) DEF RestorePending
  <2> QED
    BY <2>1, <2>2
<1>18. CASE UndoCheck(m)
  BY <1>18, SMTT(20) DEF UndoCheck
<1>19. CASE UndoTake(m)
  BY <1>19, TakeOutType, SMTT(20) DEF UndoTake
<1>20. CASE UndoPut(m)
  BY <1>20, PutBackType, SMTT(20) DEF UndoPut
<1>21. CASE RemoveDirs(m)
  BY <1>21, SMTT(20) DEF RemoveDirs
<1>22. CASE JournalRollback(m)
  BY <1>22, SMTT(20) DEF JournalRollback
<1>23. CASE FaultReturn(m)
  BY <1>23, SMTT(20) DEF FaultReturn
<1>24. CASE FaultCommit(m)
  BY <1>24, SMTT(20) DEF FaultCommit
<1>25. CASE FaultRollback(m)
  BY <1>25, SMTT(20) DEF FaultRollback
<1>26. CASE FaultJournalRollback(m)
  BY <1>26, SMTT(20) DEF FaultJournalRollback
<1>27. CASE Crash(m)
  BY <1>27, SMTT(20) DEF Crash
<1> QED
  BY <1>1, <1>2, <1>3, <1>4, <1>5, <1>6, <1>7, <1>8, <1>9, <1>10, <1>11, <1>12,
     <1>13, <1>14, <1>15, <1>16, <1>17, <1>18, <1>19, <1>20, <1>21, <1>22, <1>23,
     <1>24, <1>25, <1>26, <1>27, Zenon DEF Advance, Failure

\* A function updated at one point with a value of its range.
LEMMA UpdatedType ==
  ASSUME NEW S, NEW T, NEW f \in [S -> T], NEW g, NEW m \in S, UpdatedAt(f, g, m), g[m] \in T
  PROVE  g \in [S -> T]
  BY SMT DEF UpdatedAt

\* Such a step preserves the types of all managers.
LEMMA OwnStepKeepsTypes ==
  ASSUME NEW m \in Managers, TypeInv, OwnStep(m), OwnTyped(m)
  PROVE  TypeInv'
<1> USE DEF TypeInv, TypeOK, OwnStep, OwnTyped
<1>1. pc' \in [Managers -> Labels]
  BY UpdatedType, Zenon
<1>2. before' \in [Managers -> Contents]
  BY UpdatedType, Zenon
<1>3. ops' \in [Managers -> SUBSET Dest]
  BY UpdatedType, Zenon
<1>4. cur' \in [Managers -> Indices]
  BY UpdatedType, Zenon
<1>5. committed' \in [Managers -> SUBSET Dest]
  BY UpdatedType, Zenon
<1>6. undo' \in [Managers -> SUBSET Dest]
  BY UpdatedType, Zenon
<1>7. pending' \in [Managers -> Dest \union {0}]
  BY UpdatedType, Zenon
<1>8. created' \in [Managers -> SUBSET Folders]
  BY UpdatedType, Zenon
<1>9. old' \in [Managers -> Contents]
  BY UpdatedType, Zenon
<1>10. rolled' \in [Managers -> Contents]
  BY UpdatedType, Zenon
<1>11. journal' \in [Managers -> Journal]
  BY UpdatedType, Zenon
<1>12. \A n \in Managers : pc'[n] \in AtOperation => cur'[n] \in Dest
  <2> SUFFICES ASSUME NEW n \in Managers, pc'[n] \in AtOperation PROVE cur'[n] \in Dest
    OBVIOUS
  <2>1. CASE n = m
    BY <2>1
  <2>2. CASE n # m
    <3>1. pc'[n] = pc[n] /\ cur'[n] = cur[n]
      BY <2>2, SMTT(20) DEF UpdatedAt
    <3> QED
      BY <3>1
  <2> QED
    BY <2>1, <2>2
<1> QED
  BY <1>1, <1>2, <1>3, <1>4, <1>5, <1>6, <1>7, <1>8, <1>9, <1>10, <1>11, <1>12

\* Steps of others leave a manager's own state alone.
LEMMA ForeignFrame ==
  ASSUME Foreign
  PROVE  UNCHANGED <<lease, pc, plan, cur, memory, undo, store, journal, faults>>
  BY SMT DEF Foreign, ForeignWrite, ForeignLitter, ForeignRmdir, plan, store, memory

\* What others write is typed.
LEMMA ForeignTypes ==
  ASSUME TypeInv, Foreign
  PROVE  TypeInv'
<1> USE DEF TypeInv, TypeOK
<1>1. disk' \in Contents
  <2>1. ASSUME NEW i \in Dest, NEW image \in UserImages, ForeignWrite(i, image)
        PROVE  disk' \in Contents
    BY <2>1, ImageAssumption, SMTT(20) DEF ForeignWrite, Contents
  <2>2. CASE \E d \in Folders : ForeignLitter(d) \/ ForeignRmdir(d)
    BY <2>2, SMTT(20) DEF ForeignLitter, ForeignRmdir
  <2> QED
    BY <2>1, <2>2 DEF Foreign
<1>2. dirs' \in SUBSET Folders /\ litter' \in SUBSET Folders /\ writes' \in Nat
  BY ImageAssumption, SMTT(20) DEF Foreign, ForeignWrite, ForeignLitter, ForeignRmdir,
     WriteBudget
<1> QED
  BY <1>1, <1>2, ForeignFrame DEF plan, store, memory

\* The types are inductive.
LEMMA NextTypes == TypeInv /\ [Next]_vars => TypeInv'
<1> SUFFICES ASSUME TypeInv, [Next]_vars PROVE TypeInv'
  OBVIOUS
<1>1. ASSUME NEW m \in Managers, Advance(m) \/ Failure(m) PROVE TypeInv'
  BY <1>1, OwnStepTyped, OwnStepKeepsTypes
<1>2. CASE Foreign
  BY <1>2, ForeignTypes
<1>3. CASE UNCHANGED vars
  BY <1>3 DEF vars, world, plan, store, memory, TypeInv, TypeOK
<1> QED
  BY <1>1, <1>2, <1>3 DEF Next

\* Every variable keeps to its type, for any plan, any number of managers,
\* foreign changes and failures.
THEOREM TypeCorrect == Spec => []TypeOK
<1>1. TypeInv => TypeOK
  BY DEF TypeInv
<1> QED
  BY InitType, NextTypes, <1>1, PTL DEF Spec

-----------------------------------------------------------------------------
(* Backups, moves and the journal: what m's own steps preserve.            *)

\* The backups stay accounted for.
LEMMA OwnBackups ==
  ASSUME NEW m \in Managers, TypeInv, BackupInv(m), Advance(m) \/ Failure(m)
  PROVE  BackupInv(m)'
<1> USE ImageAssumption DEF TypeInv, TypeOK, Contents, Dest, Journal, Outside, Early,
     Moving, Closure, Undoing, Finished, AtOperation, At, Goto, Return, Record, Abort,
     Place, SetAside, PutBack, TakeOut, world, plan, store, memory, Restoring, BackupInv
<1>1. CASE Prepare(m)
  BY <1>1, SMTT(20) DEF Prepare
<1>2. CASE Lock(m)
  BY <1>2, SMTT(20) DEF Lock
<1>3. CASE Revalidate(m)
  BY <1>3, SMTT(20) DEF Revalidate
<1>4. CASE Stage(m)
  BY <1>4, SMTT(20) DEF Stage
<1>5. CASE JournalPrepared(m)
  BY <1>5, SMTT(20) DEF JournalPrepared
<1>6. CASE Check(m)
  BY <1>6, SMTT(20) DEF Check
<1>7. CASE Open(m)
  BY <1>7, SMTT(20) DEF Open
<1>8. CASE JournalOpen(m)
  BY <1>8, SMTT(20) DEF JournalOpen
<1>9. CASE Link(m)
  BY <1>9, SMTT(20) DEF Link
<1>10. CASE Backup(m)
  BY <1>10, SMTT(20) DEF Backup
<1>11. CASE JournalPending(m)
  BY <1>11, SMTT(20) DEF JournalPending
<1>12. CASE Install(m)
  <2>1. CASE Vacant(cur[m])
    BY <1>12, <2>1, SMTT(20) DEF Install
  <2>2. CASE ~Vacant(cur[m])
    BY <1>12, <2>2, SMTT(20) DEF Install
  <2> QED
    BY <2>1, <2>2
<1>13. CASE GiveBack(m)
  <2>1. CASE Vacant(cur[m])
    BY <1>13, <2>1, SMTT(20) DEF GiveBack
  <2>2. CASE ~Vacant(cur[m])
    BY <1>13, <2>2, SMTT(20) DEF GiveBack
  <2> QED
    BY <2>1, <2>2
<1>14. CASE JournalCommit(m)
  BY <1>14, SMTT(20) DEF JournalCommit
<1>15. CASE LoopEnd(m)
  BY <1>15, SMTT(20) DEF LoopEnd
<1>16. CASE JournalFinal(m)
  BY <1>16, SMTT(20) DEF JournalFinal
<1>17. CASE RestorePending(m)
  BY <1>17, SMTT(20) DEF RestorePending
<1>18. CASE UndoCheck(m)
  BY <1>18, SMTT(20) DEF UndoCheck
<1>19. CASE UndoTake(m)
  BY <1>19, SMTT(20) DEF UndoTake
<1>20. CASE UndoPut(m)
  <2>1. CASE Vacant(cur[m])
    <3>1. /\ pc[m] = "rbput" /\ pc'[m] = "rbcheck"
          /\ old'[m] = [old[m] EXCEPT ![cur[m]] = Missing]
          /\ undo'[m] = undo[m] \ {cur[m]}
          /\ before' = before /\ committed' = committed /\ pending' = pending
          /\ cur' = cur /\ journal' = journal
      BY <1>20, <2>1, SMTT(20) DEF UndoPut
    <3>2. \A i \in Dest : old'[m][i] # Missing => old[m][i] # Missing /\ i # cur[m]
      BY <3>1, SMT
    <3> QED
      BY <3>1, <3>2, SMT
  <2>2. CASE ~Vacant(cur[m])
    BY <1>20, <2>2, SMTT(20) DEF UndoPut
  <2> QED
    BY <2>1, <2>2
<1>21. CASE RemoveDirs(m)
  BY <1>21, SMTT(20) DEF RemoveDirs
<1>22. CASE JournalRollback(m)
  BY <1>22, SMTT(20) DEF JournalRollback
<1>23. CASE FaultReturn(m)
  BY <1>23, SMTT(20) DEF FaultReturn
<1>24. CASE FaultCommit(m)
  BY <1>24, SMTT(20) DEF FaultCommit
<1>25. CASE FaultRollback(m)
  BY <1>25, SMTT(20) DEF FaultRollback
<1>26. CASE FaultJournalRollback(m)
  BY <1>26, SMTT(20) DEF FaultJournalRollback
<1>27. CASE Crash(m)
  BY <1>27, SMTT(20) DEF Crash
<1> QED
  BY <1>1, <1>2, <1>3, <1>4, <1>5, <1>6, <1>7, <1>8, <1>9, <1>10, <1>11, <1>12,
     <1>13, <1>14, <1>15, <1>16, <1>17, <1>18, <1>19, <1>20, <1>21, <1>22, <1>23,
     <1>24, <1>25, <1>26, <1>27, Zenon DEF Advance, Failure

\* The commit goes up the plan and the rollback undoes each operation once.
LEMMA OwnMoves ==
  ASSUME NEW m \in Managers, TypeInv, MoveInv(m), Advance(m) \/ Failure(m)
  PROVE  MoveInv(m)'
<1> USE ImageAssumption DEF TypeInv, TypeOK, Contents, Dest, Journal, Outside, Early,
     Moving, Closure, Undoing, Finished, AtOperation, At, Goto, Return, Record, Abort,
     Place, SetAside, PutBack, TakeOut, world, plan, store, memory, MoveInv
<1>1. CASE Prepare(m)
  BY <1>1, SMTT(20) DEF Prepare
<1>2. CASE Lock(m)
  BY <1>2, SMTT(20) DEF Lock
<1>3. CASE Revalidate(m)
  BY <1>3, SMTT(20) DEF Revalidate
<1>4. CASE Stage(m)
  BY <1>4, SMTT(20) DEF Stage
<1>5. CASE JournalPrepared(m)
  BY <1>5, SMTT(20) DEF JournalPrepared
<1>6. CASE Check(m)
  BY <1>6, SMTT(20) DEF Check
<1>7. CASE Open(m)
  BY <1>7, SMTT(20) DEF Open
<1>8. CASE JournalOpen(m)
  BY <1>8, SMTT(20) DEF JournalOpen
<1>9. CASE Link(m)
  <2>0. pc[m] = "link" /\ rolled' = rolled
    BY <1>9, Zenon DEF Link, TypeOK
  <2>1. CASE Vacant(cur[m])
    <3>1. Place(m, cur[m]) /\ Goto(m, "jcommit") /\ cur' = cur /\ undo' = undo
      BY <1>9, <2>1, Zenon DEF Link, Vacant, TypeOK, ImageAssumption, Image
    <3>3. committed'[m] = committed[m] \union {cur[m]}
      BY <3>1, SMT
    <3>4. \A i \in committed'[m] : i <= cur'[m]
      BY <2>0, <3>1, <3>3, SMT
    <3>6. \A j \in Dest : rolled'[m][j] = Missing
      BY <2>0, SMT
    <3>7. pc'[m] = "jcommit"
      BY <3>1, SMT
    <3> HIDE DEF TypeInv, Dest
    <3> QED
      BY <3>4, <3>6, <3>7, SMT
  <2>2. CASE ~Vacant(cur[m]) /\ disk[cur[m]] \in FileImages
    <3>1. Goto(m, "loop") /\ cur' = [cur EXCEPT ![m] = cur[m] + 1]
          /\ committed' = committed
      BY <1>9, <2>2, Zenon DEF Link
    <3>2. cur[m] \in Dest /\ committed[m] \subseteq Dest
      BY <2>0, Zenon
    <3>3. \A j \in committed[m] : j < cur[m] /\ j \in Int /\ cur[m] \in Int
      BY <2>0, <3>2, SMT
    <3>4. pc'[m] = "loop" /\ cur'[m] = cur[m] + 1
      BY <3>1, SMT
    <3>5. \A j \in committed'[m] : j < cur'[m]
      BY <3>1, <3>3, <3>4, SMT
    <3>6. \A j \in Dest : rolled'[m][j] = Missing
      BY <2>0, SMT
    <3> HIDE DEF TypeInv, Dest
    <3> QED
      BY <3>4, <3>5, <3>6, SMT
  <2>3. CASE ~Vacant(cur[m]) /\ disk[cur[m]] \notin FileImages
    <3>1. Abort(m) /\ cur' = cur /\ committed' = committed
      BY <1>9, <2>3, Zenon DEF Link
    <3>6. \A j \in Dest : rolled'[m][j] = Missing
      BY <2>0, SMT
    <3>7. pc'[m] = "rbpending"
      BY <3>1, SMT
    <3> HIDE DEF TypeInv, Dest
    <3> QED
      BY <3>6, <3>7, SMT
  <2> QED
    BY <2>1, <2>2, <2>3
<1>10. CASE Backup(m)
  BY <1>10, SMTT(20) DEF Backup
<1>11. CASE JournalPending(m)
  BY <1>11, SMTT(20) DEF JournalPending
<1>12. CASE Install(m)
  BY <1>12, SMTT(20) DEF Install
<1>13. CASE GiveBack(m)
  BY <1>13, SMTT(20) DEF GiveBack
<1>14. CASE JournalCommit(m)
  BY <1>14, SMTT(20) DEF JournalCommit
<1>15. CASE LoopEnd(m)
  BY <1>15, SMTT(20) DEF LoopEnd
<1>16. CASE JournalFinal(m)
  BY <1>16, SMTT(20) DEF JournalFinal
<1>17. CASE RestorePending(m)
  BY <1>17, SMTT(20) DEF RestorePending
<1>18. CASE UndoCheck(m)
  BY <1>18, SMTT(20) DEF UndoCheck
<1>19. CASE UndoTake(m)
  BY <1>19, SMTT(20) DEF UndoTake
<1>20. CASE UndoPut(m)
  BY <1>20, SMTT(20) DEF UndoPut
<1>21. CASE RemoveDirs(m)
  BY <1>21, SMTT(20) DEF RemoveDirs
<1>22. CASE JournalRollback(m)
  BY <1>22, SMTT(20) DEF JournalRollback
<1>23. CASE FaultReturn(m)
  BY <1>23, SMTT(20) DEF FaultReturn
<1>24. CASE FaultCommit(m)
  BY <1>24, SMTT(20) DEF FaultCommit
<1>25. CASE FaultRollback(m)
  BY <1>25, SMTT(20) DEF FaultRollback
<1>26. CASE FaultJournalRollback(m)
  BY <1>26, SMTT(20) DEF FaultJournalRollback
<1>27. CASE Crash(m)
  BY <1>27, SMTT(20) DEF Crash
<1> QED
  BY <1>1, <1>2, <1>3, <1>4, <1>5, <1>6, <1>7, <1>8, <1>9, <1>10, <1>11, <1>12,
     <1>13, <1>14, <1>15, <1>16, <1>17, <1>18, <1>19, <1>20, <1>21, <1>22, <1>23,
     <1>24, <1>25, <1>26, <1>27, Zenon DEF Advance, Failure

\* The journal lags behind by at most the operation at hand.
LEMMA OwnJournal ==
  ASSUME NEW m \in Managers, TypeInv, JournalInv(m), Advance(m) \/ Failure(m)
  PROVE  JournalInv(m)'
<1> USE ImageAssumption DEF TypeInv, TypeOK, Contents, Dest, Journal, Outside, Early,
     Moving, Closure, Undoing, Finished, AtOperation, At, Goto, Return, Record, Abort,
     Place, SetAside, PutBack, TakeOut, world, plan, store, memory, JournalInv
<1>1. CASE Prepare(m)
  BY <1>1, SMTT(20) DEF Prepare
<1>2. CASE Lock(m)
  BY <1>2, SMTT(20) DEF Lock
<1>3. CASE Revalidate(m)
  BY <1>3, SMTT(20) DEF Revalidate
<1>4. CASE Stage(m)
  BY <1>4, SMTT(20) DEF Stage
<1>5. CASE JournalPrepared(m)
  BY <1>5, SMTT(20) DEF JournalPrepared
<1>6. CASE Check(m)
  BY <1>6, SMTT(20) DEF Check
<1>7. CASE Open(m)
  BY <1>7, SMTT(20) DEF Open
<1>8. CASE JournalOpen(m)
  BY <1>8, SMTT(20) DEF JournalOpen
<1>9. CASE Link(m)
  BY <1>9, SMTT(20) DEF Link
<1>10. CASE Backup(m)
  BY <1>10, SMTT(20) DEF Backup
<1>11. CASE JournalPending(m)
  BY <1>11, SMTT(20) DEF JournalPending
<1>12. CASE Install(m)
  BY <1>12, SMTT(20) DEF Install
<1>13. CASE GiveBack(m)
  BY <1>13, SMTT(20) DEF GiveBack
<1>14. CASE JournalCommit(m)
  BY <1>14, SMTT(20) DEF JournalCommit
<1>15. CASE LoopEnd(m)
  BY <1>15, SMTT(20) DEF LoopEnd
<1>16. CASE JournalFinal(m)
  BY <1>16, SMTT(20) DEF JournalFinal
<1>17. CASE RestorePending(m)
  BY <1>17, SMTT(20) DEF RestorePending
<1>18. CASE UndoCheck(m)
  BY <1>18, SMTT(20) DEF UndoCheck
<1>19. CASE UndoTake(m)
  BY <1>19, SMTT(20) DEF UndoTake
<1>20. CASE UndoPut(m)
  BY <1>20, SMTT(20) DEF UndoPut
<1>21. CASE RemoveDirs(m)
  BY <1>21, SMTT(20) DEF RemoveDirs
<1>22. CASE JournalRollback(m)
  BY <1>22, SMTT(20) DEF JournalRollback
<1>23. CASE FaultReturn(m)
  BY <1>23, SMTT(20) DEF FaultReturn
<1>24. CASE FaultCommit(m)
  BY <1>24, SMTT(20) DEF FaultCommit
<1>25. CASE FaultRollback(m)
  BY <1>25, SMTT(20) DEF FaultRollback
<1>26. CASE FaultJournalRollback(m)
  BY <1>26, SMTT(20) DEF FaultJournalRollback
<1>27. CASE Crash(m)
  BY <1>27, SMTT(20) DEF Crash
<1> QED
  BY <1>1, <1>2, <1>3, <1>4, <1>5, <1>6, <1>7, <1>8, <1>9, <1>10, <1>11, <1>12,
     <1>13, <1>14, <1>15, <1>16, <1>17, <1>18, <1>19, <1>20, <1>21, <1>22, <1>23,
     <1>24, <1>25, <1>26, <1>27, Zenon DEF Advance, Failure

\* What another manager or a foreign program does leaves m's own state alone.
LEMMA OthersKeep ==
  ASSUME TypeInv, NEW m \in Managers, NEW n \in Managers, n # m, OwnStep(n),
         BackupInv(m), MoveInv(m), JournalInv(m)
  PROVE  BackupInv(m)' /\ MoveInv(m)' /\ JournalInv(m)'
<1>1. /\ pc'[m] = pc[m] /\ before'[m] = before[m] /\ cur'[m] = cur[m]
      /\ committed'[m] = committed[m] /\ undo'[m] = undo[m]
      /\ pending'[m] = pending[m] /\ old'[m] = old[m] /\ rolled'[m] = rolled[m]
      /\ journal'[m] = journal[m]
  BY SMT DEF TypeInv, TypeOK, OwnStep, UpdatedAt
<1>2. BackupInv(m)'
  BY <1>1, SMTT(20) DEF BackupInv
<1>3. MoveInv(m)'
  BY <1>1, SMTT(20) DEF MoveInv
<1>4. JournalInv(m)'
  BY <1>1, SMTT(20) DEF JournalInv
<1> QED
  BY <1>2, <1>3, <1>4

\* The invariants of m only look at m's own state.
LEMMA IdleKeeps ==
  ASSUME NEW m \in Managers, BackupInv(m), MoveInv(m), JournalInv(m),
         UNCHANGED <<pc, plan, cur, memory, undo, store, journal>>
  PROVE  BackupInv(m)' /\ MoveInv(m)' /\ JournalInv(m)'
<1> USE DEF plan, store, memory
<1>1. BackupInv(m)'
  BY SMT DEF BackupInv
<1>2. MoveInv(m)'
  BY SMT DEF MoveInv
<1>3. JournalInv(m)'
  BY SMT DEF JournalInv
<1> QED
  BY <1>1, <1>2, <1>3

\* The inductive invariant is TypeInv, OwnInv and NamesInv below.
OwnInv == \A m \in Managers : BackupInv(m) /\ MoveInv(m) /\ JournalInv(m)

\* Nothing is moved, committed or recorded at the start.
LEMMA InitOwn == Init => OwnInv
  BY SMT DEF Init, OwnInv, BackupInv, MoveInv, JournalInv, Outside, Early, Moving,
     Closure, Undoing, Restoring

\* The invariants of all managers are inductive.
LEMMA NextOwn == TypeInv /\ OwnInv /\ [Next]_vars => OwnInv'
<1> SUFFICES ASSUME TypeInv, OwnInv, [Next]_vars, NEW m \in Managers
             PROVE  BackupInv(m)' /\ MoveInv(m)' /\ JournalInv(m)'
  BY DEF OwnInv
<1>0. BackupInv(m) /\ MoveInv(m) /\ JournalInv(m)
  BY DEF OwnInv
<1>1. ASSUME NEW n \in Managers, Advance(n) \/ Failure(n)
      PROVE  BackupInv(m)' /\ MoveInv(m)' /\ JournalInv(m)'
  <2>1. CASE n = m
    BY <1>0, <1>1, <2>1, OwnBackups, OwnMoves, OwnJournal
  <2>2. CASE n # m
    BY <1>0, <1>1, <2>2, OwnStepTyped, OthersKeep
  <2> QED
    BY <2>1, <2>2
<1>2. CASE Foreign
  BY <1>0, <1>2, ForeignFrame, IdleKeeps
<1>3. CASE UNCHANGED vars
  BY <1>0, <1>3, IdleKeeps DEF vars
<1> QED
  BY <1>1, <1>2, <1>3 DEF Next

\* A journal that says "rolled-back" leaves no backup behind.
THEOREM RollbackWhole == Spec => []RolledBackIsWhole
<1>1. OwnInv => RolledBackIsWhole
  BY Zenon DEF OwnInv, BackupInv, RolledBackIsWhole
<1> QED
  BY InitType, NextTypes, InitOwn, NextOwn, <1>1, PTL DEF Spec

-----------------------------------------------------------------------------
(* The journal names the backups.                                          *)

\* Destination i has a backup that m's journal does not mention.
Unnamed(m, i) ==
    /\ old[m][i] # Missing
    /\ i \notin journal[m].committed
    /\ i # journal[m].pending

\* At most one backup is not mentioned.
OneUnnamed(m) == \A i, j \in Dest : Unnamed(m, i) /\ Unnamed(m, j) => i = j

\* Only the rename that precedes the label jpend adds a backup, and a journal
\* write records what is in memory.
BackupStep(m) ==
    /\ pc[m] \notin Finished
    /\ pc'[m] = "jpend" \/ \A i \in Dest : old'[m][i] # Missing => old[m][i] # Missing
    /\ \/ journal'[m] = journal[m]
       \/ journal'[m].committed = committed[m] /\ journal'[m].pending = pending[m]

\* Every step of m is of that kind.
LEMMA OwnBackupStep ==
  ASSUME NEW m \in Managers, TypeInv, Advance(m) \/ Failure(m)
  PROVE  BackupStep(m)
<1> USE ImageAssumption DEF TypeInv, TypeOK, Contents, Dest, Journal, Outside, Early,
     Moving, Closure, Undoing, Finished, AtOperation, At, Goto, Return, Record, Abort,
     SetAside, PutBack, world, plan, store, memory, BackupStep
<1>1. CASE Prepare(m)
  BY <1>1, SMTT(20) DEF Prepare
<1>2. CASE Lock(m)
  BY <1>2, SMTT(20) DEF Lock
<1>3. CASE Revalidate(m)
  BY <1>3, SMTT(20) DEF Revalidate
<1>4. CASE Stage(m)
  BY <1>4, SMTT(20) DEF Stage
<1>5. CASE JournalPrepared(m)
  BY <1>5, SMTT(20) DEF JournalPrepared
<1>6. CASE Check(m)
  BY <1>6, SMTT(20) DEF Check
<1>7. CASE Open(m)
  BY <1>7, SMTT(20) DEF Open
<1>8. CASE JournalOpen(m)
  BY <1>8, SMTT(20) DEF JournalOpen
<1>9. CASE Link(m)
  BY <1>9, SMTT(20) DEF Link
<1>10. CASE Backup(m)
  BY <1>10, SMTT(20) DEF Backup
<1>11. CASE JournalPending(m)
  BY <1>11, SMTT(20) DEF JournalPending
<1>12. CASE Install(m)
  BY <1>12, SMTT(20) DEF Install
<1>13. CASE GiveBack(m)
  BY <1>13, SMTT(20) DEF GiveBack
<1>14. CASE JournalCommit(m)
  BY <1>14, SMTT(20) DEF JournalCommit
<1>15. CASE LoopEnd(m)
  BY <1>15, SMTT(20) DEF LoopEnd
<1>16. CASE JournalFinal(m)
  BY <1>16, SMTT(20) DEF JournalFinal
<1>17. CASE RestorePending(m)
  BY <1>17, SMTT(20) DEF RestorePending
<1>18. CASE UndoCheck(m)
  BY <1>18, SMTT(20) DEF UndoCheck
<1>19. CASE UndoTake(m)
  BY <1>19, SMTT(20) DEF UndoTake
<1>20. CASE UndoPut(m)
  BY <1>20, SMTT(20) DEF UndoPut
<1>21. CASE RemoveDirs(m)
  BY <1>21, SMTT(20) DEF RemoveDirs
<1>22. CASE JournalRollback(m)
  BY <1>22, SMTT(20) DEF JournalRollback
<1>23. CASE FaultReturn(m)
  BY <1>23, SMTT(20) DEF FaultReturn, FaultBudget
<1>24. CASE FaultCommit(m)
  BY <1>24, SMTT(20) DEF FaultCommit, FaultBudget
<1>25. CASE FaultRollback(m)
  BY <1>25, SMTT(20) DEF FaultRollback, FaultBudget
<1>26. CASE FaultJournalRollback(m)
  BY <1>26, SMTT(20) DEF FaultJournalRollback, FaultBudget
<1>27. CASE Crash(m)
  BY <1>27, SMTT(20) DEF Crash, FaultBudget
<1> QED
  BY <1>1, <1>2, <1>3, <1>4, <1>5, <1>6, <1>7, <1>8, <1>9, <1>10, <1>11, <1>12,
     <1>13, <1>14, <1>15, <1>16, <1>17, <1>18, <1>19, <1>20, <1>21, <1>22, <1>23,
     <1>24, <1>25, <1>26, <1>27, Zenon DEF Advance, Failure

\* Before the rollback the one backup not named is that of the operation at
\* hand.
LEMMA ForwardNames ==
  ASSUME NEW m \in Managers, BackupInv(m), JournalInv(m),
         pc[m] \in Outside \union Early \union Closure
  PROVE  OneUnnamed(m)
<1>1. CASE pc[m] \in Outside \union Early
  BY <1>1, SMTT(20) DEF BackupInv, OneUnnamed, Unnamed
<1>2. CASE pc[m] \in Closure \ {"jcommit"}
  BY <1>2, SMTT(20) DEF BackupInv, JournalInv, OneUnnamed, Unnamed
<1>3. CASE pc[m] = "jcommit"
  BY <1>3, ImageAssumption, SMTT(20) DEF BackupInv, JournalInv, OneUnnamed, Unnamed, Closure,
     Moving, Dest
<1> QED
  BY <1>1, <1>2, <1>3

\* A step of m leaves at most one backup unnamed.
LEMMA OwnNames ==
  ASSUME NEW m \in Managers, TypeInv, BackupInv(m), BackupInv(m)', JournalInv(m)',
         OneUnnamed(m), Advance(m) \/ Failure(m)
  PROVE  OneUnnamed(m)'
<1>1. BackupStep(m)
  BY OwnBackupStep
<1>2. CASE pc'[m] = "jpend"
  <2>1. (pc[m] \in Outside \union Early \union Closure)'
    BY <1>2 DEF Closure, Moving
  <2>2. (BackupInv(m) /\ JournalInv(m) /\ pc[m] \in Outside \union Early \union Closure
           => OneUnnamed(m))'
    BY ForwardNames, PTL
  <2> QED
    BY <2>1, <2>2
<1>3. ASSUME pc'[m] # "jpend", journal'[m] = journal[m] PROVE OneUnnamed(m)'
  BY <1>1, <1>3, SMTT(20) DEF BackupStep, OneUnnamed, Unnamed
<1>4. ASSUME pc'[m] # "jpend", journal'[m].committed = committed[m],
             journal'[m].pending = pending[m]
      PROVE  OneUnnamed(m)'
  <2>1. pc[m] \in Outside \union Early \union Closure \union Undoing
    BY <1>1, SMTT(20) DEF BackupStep, TypeInv, TypeOK, Labels
  <2>2. \A i \in Dest : ~Unnamed(m, i)'
    BY <1>1, <1>4, <2>1, SMTT(20) DEF BackupStep, BackupInv, Unnamed
  <2> QED
    BY <2>2 DEF OneUnnamed
<1> QED
  BY <1>1, <1>2, <1>3, <1>4 DEF BackupStep

\* So it is for every manager.
NamesInv == \A m \in Managers : OneUnnamed(m)

\* There is no backup at the start.
LEMMA InitNames == Init => NamesInv
  BY SMT DEF Init, NamesInv, OneUnnamed, Unnamed

\* NamesInv is inductive relative to OwnInv.
LEMMA NextNames ==
  TypeInv /\ OwnInv /\ OwnInv' /\ NamesInv /\ [Next]_vars => NamesInv'
<1> SUFFICES ASSUME TypeInv, OwnInv, OwnInv', NamesInv, [Next]_vars, NEW m \in Managers
             PROVE  OneUnnamed(m)'
  BY DEF NamesInv
<1>1. OneUnnamed(m) /\ BackupInv(m) /\ BackupInv(m)' /\ JournalInv(m)'
  BY DEF NamesInv, OwnInv
<1>2. ASSUME old'[m] = old[m], journal'[m] = journal[m] PROVE OneUnnamed(m)'
  BY <1>1, <1>2, SMTT(20) DEF OneUnnamed, Unnamed
<1>3. ASSUME NEW n \in Managers, Advance(n) \/ Failure(n) PROVE OneUnnamed(m)'
  <2>1. CASE n = m
    BY <1>1, <1>3, <2>1, OwnNames
  <2>2. CASE n # m
    <3>1. OwnStep(n)
      BY <1>3, OwnStepTyped
    <3>2. old'[m] = old[m] /\ journal'[m] = journal[m]
      BY <2>2, <3>1, SMTT(20) DEF TypeInv, TypeOK, OwnStep, UpdatedAt
    <3> QED
      BY <1>2, <3>2
  <2> QED
    BY <2>1, <2>2
<1>4. CASE Foreign
  BY <1>2, <1>4, ForeignFrame DEF store
<1>5. CASE UNCHANGED vars
  BY <1>2, <1>5 DEF vars, store
<1> QED
  BY <1>3, <1>4, <1>5 DEF Next

\* Whenever the process dies, its journal names every backup but at most one.
THEOREM JournalComplete == Spec => []JournalNamesBackups
<1>1. NamesInv => JournalNamesBackups
  BY DEF NamesInv, OneUnnamed, Unnamed, JournalNamesBackups
<1> QED
  BY InitType, NextTypes, InitOwn, NextOwn, InitNames, NextNames, <1>1, PTL DEF Spec

-----------------------------------------------------------------------------
(* Nothing is destroyed.                                                   *)

\* What was held for a destination still is.
HeldKept == \A j \in Dest : Held(j) \subseteq Held(j)'

\* A step that moves nothing keeps everything.
LEMMA StillKeeps == ASSUME UNCHANGED <<disk, store>> PROVE HeldKept
  BY SMT DEF store, HeldKept, Held

\* Installing onto a vacant destination hides nothing.
LEMMA PlaceKeeps ==
  ASSUME TypeInv, NEW m \in Managers, NEW i \in Dest, Vacant(i), Place(m, i),
         UNCHANGED store
  PROVE  HeldKept
  BY SMT DEF TypeInv, TypeOK, Contents, Vacant, Place, store, HeldKept, Held

\* Setting aside into an old-i that is not there overwrites no backup.
LEMMA SetAsideKeeps ==
  ASSUME TypeInv, NEW m \in Managers, NEW i \in Dest, old[m][i] = Missing,
         SetAside(m, i), UNCHANGED rolled
  PROVE  HeldKept
  BY SMT DEF TypeInv, TypeOK, Contents, SetAside, HeldKept, Held

\* Putting back onto a vacant destination hides nothing.
LEMMA PutBackKeeps ==
  ASSUME TypeInv, NEW m \in Managers, NEW i \in Dest, Vacant(i), PutBack(m, i),
         UNCHANGED rolled
  PROVE  HeldKept
  BY SMT DEF TypeInv, TypeOK, Contents, Vacant, PutBack, HeldKept, Held

\* Taking out into a rolled-back-i that is not there overwrites nothing.
LEMMA TakeOutKeeps ==
  ASSUME TypeInv, NEW m \in Managers, NEW i \in Dest, rolled[m][i] = Missing,
         TakeOut(m, i), UNCHANGED old
  PROVE  HeldKept
  BY SMT DEF TypeInv, TypeOK, Contents, TakeOut, HeldKept, Held

\* No step of a manager, failed or not, destroys an image: the invariants give
\* the absence the moves into the recovery directory need.
LEMMA OwnKeeps ==
  ASSUME NEW m \in Managers, TypeInv, BackupInv(m), MoveInv(m), Advance(m) \/ Failure(m)
  PROVE  HeldKept
<1> USE DEF TypeInv, TypeOK, AtOperation, At, store
<1>1. CASE Prepare(m)
  BY <1>1, StillKeeps DEF Prepare
<1>2. CASE Lock(m)
  BY <1>2, StillKeeps DEF Lock
<1>3. CASE Revalidate(m)
  BY <1>3, StillKeeps DEF Revalidate
<1>4. CASE Stage(m)
  BY <1>4, StillKeeps DEF Stage
<1>5. CASE JournalPrepared(m)
  BY <1>5, StillKeeps DEF JournalPrepared
<1>6. CASE Check(m)
  BY <1>6, StillKeeps DEF Check
<1>7. CASE Open(m)
  BY <1>7, StillKeeps DEF Open
<1>8. CASE JournalOpen(m)
  BY <1>8, StillKeeps DEF JournalOpen
<1>9. CASE Link(m)
  <2>1. CASE Vacant(cur[m])
    <3>1. Place(m, cur[m]) /\ UNCHANGED store /\ cur[m] \in Dest
      BY <1>9, <2>1, ImageAssumption, Zenon DEF Link, Vacant
    <3> QED
      BY <2>1, <3>1, PlaceKeeps
  <2>2. CASE ~Vacant(cur[m])
    BY <1>9, <2>2, StillKeeps DEF Link
  <2> QED
    BY <2>1, <2>2
<1>10. CASE Backup(m)
  <2>1. cur[m] \in Dest /\ UNCHANGED rolled
    BY <1>10 DEF Backup
  <2>2. CASE disk[cur[m]] # Missing
    <3>1. SetAside(m, cur[m])
      BY <1>10, <2>2 DEF Backup
    <3>2. pending[m] = 0 /\ cur[m] \notin committed[m] /\ cur[m] # 0
      BY <1>10, <2>1, ImageAssumption, SMTT(20) DEF Backup, BackupInv, MoveInv, Closure, Moving,
         Dest
    <3>3. old[m][cur[m]] = Missing
      BY <1>10, <2>1, <3>2, SMTT(20) DEF Backup, BackupInv, Closure
    <3> QED
      BY <2>1, <3>1, <3>3, SetAsideKeeps
  <2>3. CASE disk[cur[m]] = Missing
    BY <1>10, <2>3, StillKeeps DEF Backup
  <2> QED
    BY <2>2, <2>3
<1>11. CASE JournalPending(m)
  BY <1>11, StillKeeps DEF JournalPending
<1>12. CASE Install(m)
  <2>1. cur[m] \in Dest /\ UNCHANGED store
    BY <1>12 DEF Install
  <2>2. CASE Vacant(cur[m])
    BY <1>12, <2>1, <2>2, PlaceKeeps DEF Install
  <2>3. CASE ~Vacant(cur[m])
    BY <1>12, <2>1, <2>3, StillKeeps DEF Install
  <2> QED
    BY <2>2, <2>3
<1>13. CASE GiveBack(m)
  <2>1. cur[m] \in Dest /\ UNCHANGED rolled
    BY <1>13 DEF GiveBack
  <2>2. CASE Vacant(cur[m])
    BY <1>13, <2>1, <2>2, PutBackKeeps DEF GiveBack
  <2>3. CASE ~Vacant(cur[m])
    BY <1>13, <2>1, <2>3, StillKeeps DEF GiveBack
  <2> QED
    BY <2>2, <2>3
<1>14. CASE JournalCommit(m)
  BY <1>14, StillKeeps DEF JournalCommit
<1>15. CASE LoopEnd(m)
  BY <1>15, StillKeeps DEF LoopEnd
<1>16. CASE JournalFinal(m)
  BY <1>16, StillKeeps DEF JournalFinal
<1>17. CASE RestorePending(m)
  <2>1. CASE pending[m] = 0 \/ ~Vacant(pending[m])
    BY <1>17, <2>1, StillKeeps DEF RestorePending
  <2>2. CASE pending[m] # 0 /\ Vacant(pending[m])
    BY <1>17, <2>2, PutBackKeeps DEF RestorePending
  <2> QED
    BY <2>1, <2>2
<1>18. CASE UndoCheck(m)
  BY <1>18, StillKeeps DEF UndoCheck
<1>19. CASE UndoTake(m)
  <2>1. cur[m] \in Dest /\ UNCHANGED old /\ rolled[m][cur[m]] = Missing
    BY <1>19, SMTT(20) DEF UndoTake, MoveInv
  <2>2. CASE disk[cur[m]] # Missing
    BY <1>19, <2>1, <2>2, TakeOutKeeps DEF UndoTake
  <2>3. CASE disk[cur[m]] = Missing
    BY <1>19, <2>3, StillKeeps DEF UndoTake
  <2> QED
    BY <2>2, <2>3
<1>20. CASE UndoPut(m)
  <2>1. cur[m] \in Dest /\ UNCHANGED rolled
    BY <1>20 DEF UndoPut
  <2>2. CASE Vacant(cur[m])
    BY <1>20, <2>1, <2>2, PutBackKeeps DEF UndoPut
  <2>3. CASE ~Vacant(cur[m])
    BY <1>20, <2>1, <2>3, StillKeeps DEF UndoPut
  <2> QED
    BY <2>2, <2>3
<1>21. CASE RemoveDirs(m)
  BY <1>21, StillKeeps DEF RemoveDirs
<1>22. CASE JournalRollback(m)
  BY <1>22, StillKeeps DEF JournalRollback
<1>23. CASE FaultReturn(m)
  BY <1>23, StillKeeps DEF FaultReturn
<1>24. CASE FaultCommit(m)
  BY <1>24, StillKeeps DEF FaultCommit
<1>25. CASE FaultRollback(m)
  BY <1>25, StillKeeps DEF FaultRollback
<1>26. CASE FaultJournalRollback(m)
  BY <1>26, StillKeeps DEF FaultJournalRollback
<1>27. CASE Crash(m)
  BY <1>27, StillKeeps DEF Crash
<1> QED
  BY <1>1, <1>2, <1>3, <1>4, <1>5, <1>6, <1>7, <1>8, <1>9, <1>10, <1>11, <1>12,
     <1>13, <1>14, <1>15, <1>16, <1>17, <1>18, <1>19, <1>20, <1>21, <1>22, <1>23,
     <1>24, <1>25, <1>26, <1>27, Zenon DEF Advance, Failure

\* Foreign steps are told apart by their count.
LEMMA ForeignCounts == ASSUME TypeInv, Foreign PROVE writes' # writes
  BY SMT DEF TypeInv, TypeOK, Foreign, ForeignWrite, ForeignLitter, ForeignRmdir,
     WriteBudget

\* No step of a manager, no failure and no crash destroys an image.
THEOREM ImagesSurvive == Spec => NothingDestroyed
<1>1. TypeInv /\ OwnInv /\ [Next]_vars => [writes' = writes => HeldKept]_vars
  <2> SUFFICES ASSUME TypeInv, OwnInv, Next, writes' = writes PROVE HeldKept
    OBVIOUS
  <2>1. PICK m \in Managers : Advance(m) \/ Failure(m)
    BY ForeignCounts DEF Next
  <2> QED
    BY <2>1, OwnKeeps DEF OwnInv
<1>2. [writes' = writes => HeldKept]_vars
        => [writes' = writes => \A i \in Dest : Held(i) \subseteq Held(i)']_vars
  BY DEF HeldKept
<1> QED
  BY InitType, NextTypes, InitOwn, NextOwn, <1>1, <1>2, PTL DEF Spec, NothingDestroyed

-----------------------------------------------------------------------------
(* What an apply leaves behind when nobody else writes.                    *)

\* While it holds the lease, only m moves destinations.
Holding == Early \union Closure \union Undoing
LeaseInv(m) == pc[m] \in Holding => lease = m

\* What is at destination i of the plan: what was read (or what has filled the
\* seed), the payload with the backup in old-i, or nothing with the backup
\* in old-i.
Kept(m, i) == disk[i] = before[m][i] \/ (i \in Seed[m] /\ disk[i] \in FileImages)
Installed(m, i) ==
    disk[i] = Wanted[m][i] /\ (before[m][i] # Missing => old[m][i] = before[m][i])
Aside(m, i) == disk[i] = Missing /\ old[m][i] = before[m][i]

\* The operation at hand is what its label says.
StepInv(m) ==
    /\ \A i \in ops[m] \intersect Seed[m] : before[m][i] = Missing
    /\ pc[m] = "link" => cur[m] \in Seed[m]
    /\ pc[m] = "backup" => cur[m] \notin Seed[m]
    /\ pc[m] \in {"jpend", "giveback"} => pending[m] = cur[m]
    /\ pc[m] = "install" /\ before[m][cur[m]] # Missing => pending[m] = cur[m]
    /\ pc[m] = "jcommit" => cur[m] \in committed[m]
    /\ pc[m] = "jfinal" => cur[m] = N + 1
    /\ pc[m] = "rbdone" => created[m] = {}

\* Where the destinations of the plan stand, at each part of an apply.
ForwardInv(m) ==
    /\ pc[m] = "jprepared" => \A i \in ops[m] : Kept(m, i)
    /\ pc[m] \in Closure \union {"rbpending"} => \A i \in ops[m] :
           /\ i \in committed[m] => Installed(m, i)
           /\ i \notin committed[m] /\ i = pending[m] => Aside(m, i)
           /\ i \notin committed[m] /\ i # pending[m] => Kept(m, i)
    /\ pc[m] \in Closure => \A i \in ops[m] :
           i < cur[m] /\ i \notin committed[m] => i \in Seed[m] /\ disk[i] \in FileImages
BackwardInv(m) ==
    /\ pc[m] \in Restoring \ {"rbput"} => \A i \in ops[m] :
           /\ i \in undo[m] => Installed(m, i)
           /\ i \notin undo[m] => Kept(m, i)
    /\ pc[m] = "rbput" => \A i \in ops[m] :
           /\ i = cur[m] => Aside(m, i)
           /\ i \in undo[m] \ {cur[m]} => Installed(m, i)
           /\ i \notin undo[m] \union {cur[m]} => Kept(m, i)

OutcomeInv ==
    /\ \A m \in Managers : LeaseInv(m) /\ StepInv(m)
    /\ writes = 0 => \A m \in Managers : ForwardInv(m) /\ BackwardInv(m)

\* m keeps the lease as long as it holds it.
LEMMA OwnLease ==
  ASSUME NEW m \in Managers, TypeInv, LeaseInv(m), Advance(m) \/ Failure(m)
  PROVE  LeaseInv(m)'
<1> USE ImageAssumption, PlanAssumption DEF TypeInv, TypeOK, Contents, Dest, Outside, Early,
     Moving, Closure, Undoing, Finished, Holding, AtOperation, At, Goto, Return, Record, Abort,
     Place, SetAside, PutBack, TakeOut, FaultBudget, world, plan, store, memory, Restoring, LeaseInv
<1>1. CASE Prepare(m)
  BY <1>1, SMTT(20) DEF Prepare
<1>2. CASE Lock(m)
  BY <1>2, SMTT(20) DEF Lock
<1>3. CASE Revalidate(m)
  BY <1>3, SMTT(20) DEF Revalidate
<1>4. CASE Stage(m)
  BY <1>4, SMTT(20) DEF Stage
<1>5. CASE JournalPrepared(m)
  BY <1>5, SMTT(20) DEF JournalPrepared
<1>6. CASE Check(m)
  BY <1>6, SMTT(20) DEF Check
<1>7. CASE Open(m)
  BY <1>7, SMTT(20) DEF Open
<1>8. CASE JournalOpen(m)
  BY <1>8, SMTT(20) DEF JournalOpen
<1>9. CASE Link(m)
  BY <1>9, SMTT(20) DEF Link
<1>10. CASE Backup(m)
  BY <1>10, SMTT(20) DEF Backup
<1>11. CASE JournalPending(m)
  BY <1>11, SMTT(20) DEF JournalPending
<1>12. CASE Install(m)
  BY <1>12, SMTT(20) DEF Install
<1>13. CASE GiveBack(m)
  BY <1>13, SMTT(20) DEF GiveBack
<1>14. CASE JournalCommit(m)
  BY <1>14, SMTT(20) DEF JournalCommit
<1>15. CASE LoopEnd(m)
  BY <1>15, SMTT(20) DEF LoopEnd
<1>16. CASE JournalFinal(m)
  BY <1>16, SMTT(20) DEF JournalFinal
<1>17. CASE RestorePending(m)
  BY <1>17, SMTT(20) DEF RestorePending
<1>18. CASE UndoCheck(m)
  BY <1>18, SMTT(20) DEF UndoCheck
<1>19. CASE UndoTake(m)
  BY <1>19, SMTT(20) DEF UndoTake
<1>20. CASE UndoPut(m)
  BY <1>20, SMTT(20) DEF UndoPut
<1>21. CASE RemoveDirs(m)
  BY <1>21, SMTT(20) DEF RemoveDirs
<1>22. CASE JournalRollback(m)
  BY <1>22, SMTT(20) DEF JournalRollback
<1>23. CASE FaultReturn(m)
  BY <1>23, SMTT(20) DEF FaultReturn
<1>24. CASE FaultCommit(m)
  BY <1>24, SMTT(20) DEF FaultCommit
<1>25. CASE FaultRollback(m)
  BY <1>25, SMTT(20) DEF FaultRollback
<1>26. CASE FaultJournalRollback(m)
  BY <1>26, SMTT(20) DEF FaultJournalRollback
<1>27. CASE Crash(m)
  BY <1>27, SMTT(20) DEF Crash
<1> QED
  BY <1>1, <1>2, <1>3, <1>4, <1>5, <1>6, <1>7, <1>8, <1>9, <1>10, <1>11, <1>12,
     <1>13, <1>14, <1>15, <1>16, <1>17, <1>18, <1>19, <1>20, <1>21, <1>22, <1>23,
     <1>24, <1>25, <1>26, <1>27, Zenon DEF Advance, Failure

\* The operation at hand stays what its label says.
LEMMA OwnStepInv ==
  ASSUME NEW m \in Managers, TypeInv, BackupInv(m), StepInv(m), Advance(m) \/ Failure(m)
  PROVE  StepInv(m)'
<1> USE ImageAssumption, PlanAssumption DEF TypeInv, TypeOK, Contents, Dest, Outside, Early,
     Moving, Closure, Undoing, Finished, Holding, AtOperation, At, Goto, Return, Record, Abort,
     Place, SetAside, PutBack, TakeOut, FaultBudget, world, plan, store, memory, Restoring, BackupInv, StepInv
<1>1. CASE Prepare(m)
  BY <1>1, SMTT(20) DEF Prepare
<1>2. CASE Lock(m)
  BY <1>2, SMTT(20) DEF Lock
<1>3. CASE Revalidate(m)
  BY <1>3, SMTT(20) DEF Revalidate
<1>4. CASE Stage(m)
  BY <1>4, SMTT(20) DEF Stage
<1>5. CASE JournalPrepared(m)
  BY <1>5, SMTT(20) DEF JournalPrepared
<1>6. CASE Check(m)
  BY <1>6, SMTT(20) DEF Check
<1>7. CASE Open(m)
  BY <1>7, SMTT(20) DEF Open
<1>8. CASE JournalOpen(m)
  BY <1>8, SMTT(20) DEF JournalOpen
<1>9. CASE Link(m)
  BY <1>9, SMTT(20) DEF Link
<1>10. CASE Backup(m)
  BY <1>10, SMTT(20) DEF Backup
<1>11. CASE JournalPending(m)
  BY <1>11, SMTT(20) DEF JournalPending
<1>12. CASE Install(m)
  BY <1>12, SMTT(20) DEF Install
<1>13. CASE GiveBack(m)
  BY <1>13, SMTT(20) DEF GiveBack
<1>14. CASE JournalCommit(m)
  BY <1>14, SMTT(20) DEF JournalCommit
<1>15. CASE LoopEnd(m)
  BY <1>15, SMTT(20) DEF LoopEnd
<1>16. CASE JournalFinal(m)
  BY <1>16, SMTT(20) DEF JournalFinal
<1>17. CASE RestorePending(m)
  BY <1>17, SMTT(20) DEF RestorePending
<1>18. CASE UndoCheck(m)
  BY <1>18, SMTT(20) DEF UndoCheck
<1>19. CASE UndoTake(m)
  BY <1>19, SMTT(20) DEF UndoTake
<1>20. CASE UndoPut(m)
  BY <1>20, SMTT(20) DEF UndoPut
<1>21. CASE RemoveDirs(m)
  BY <1>21, SMTT(20) DEF RemoveDirs
<1>22. CASE JournalRollback(m)
  BY <1>22, SMTT(20) DEF JournalRollback
<1>23. CASE FaultReturn(m)
  BY <1>23, SMTT(20) DEF FaultReturn
<1>24. CASE FaultCommit(m)
  BY <1>24, SMTT(20) DEF FaultCommit
<1>25. CASE FaultRollback(m)
  BY <1>25, SMTT(20) DEF FaultRollback
<1>26. CASE FaultJournalRollback(m)
  BY <1>26, SMTT(20) DEF FaultJournalRollback
<1>27. CASE Crash(m)
  BY <1>27, SMTT(20) DEF Crash
<1> QED
  BY <1>1, <1>2, <1>3, <1>4, <1>5, <1>6, <1>7, <1>8, <1>9, <1>10, <1>11, <1>12,
     <1>13, <1>14, <1>15, <1>16, <1>17, <1>18, <1>19, <1>20, <1>21, <1>22, <1>23,
     <1>24, <1>25, <1>26, <1>27, Zenon DEF Advance, Failure

\* The commit moves one destination at a time.
LEMMA OwnForward ==
  ASSUME NEW m \in Managers, TypeInv, BackupInv(m), MoveInv(m), StepInv(m), ForwardInv(m),
         Advance(m) \/ Failure(m)
  PROVE  ForwardInv(m)'
<1> USE ImageAssumption, PlanAssumption DEF TypeInv, TypeOK, Contents, Dest, Outside, Early,
     Moving, Closure, Undoing, Finished, Holding, AtOperation, At, Goto, Return, Record, Abort,
     Place, SetAside, PutBack, TakeOut, FaultBudget, world, plan, store, memory, Restoring, BackupInv, MoveInv, StepInv, ForwardInv,
     Kept, Installed, Aside, Unmoved, Vacant
<1>1. CASE Prepare(m)
  BY <1>1, SMTT(20) DEF Prepare
<1>2. CASE Lock(m)
  BY <1>2, SMTT(20) DEF Lock
<1>3. CASE Revalidate(m)
  BY <1>3, SMTT(20) DEF Revalidate
<1>4. CASE Stage(m)
  BY <1>4, SMTT(20) DEF Stage
<1>5. CASE JournalPrepared(m)
  BY <1>5, SMTT(20) DEF JournalPrepared
<1>6. CASE Check(m)
  BY <1>6, SMTT(20) DEF Check
<1>7. CASE Open(m)
  BY <1>7, SMTT(20) DEF Open
<1>8. CASE JournalOpen(m)
  BY <1>8, SMTT(20) DEF JournalOpen
<1>9. CASE Link(m)
  BY <1>9, SMTT(20) DEF Link
<1>10. CASE Backup(m)
  <2>1. /\ pc[m] = "backup" /\ cur[m] \in Dest /\ cur[m] # 0
        /\ pending[m] = 0 /\ cur[m] \notin committed[m]
        /\ \A i \in committed[m] : i # cur[m] /\ i # 0
        /\ UNCHANGED <<before, committed, cur, ops>>
    <3>1. pc[m] = "backup" /\ cur[m] \in Dest /\ cur[m] # 0
      BY <1>10, SMTT(20) DEF Backup
    <3>2. pending[m] = 0 /\ \A i \in committed[m] : i < cur[m] /\ i \in Dest
      BY <1>10, <3>1, SMTT(20)
    <3>3. UNCHANGED <<before, committed, cur, ops>>
      BY <1>10 DEF Backup
    <3>4. \A i \in committed[m] : i # cur[m] /\ i # 0
      BY <3>1, <3>2, SMTT(20)
    <3> QED
      BY <3>1, <3>2, <3>3, <3>4
  <2>2. CASE disk[cur[m]] = Missing
    <3>1. pc'[m] = "rbpending" /\ UNCHANGED <<disk, old, pending>>
      BY <1>10, <2>2, SMTT(20) DEF Backup
    <3> QED
      BY <2>1, <3>1, SMTT(20)
  <2>3. CASE disk[cur[m]] # Missing
    <3>1. /\ pc'[m] = "jpend" /\ pending'[m] = cur[m]
          /\ old'[m][cur[m]] = disk[cur[m]] /\ disk'[cur[m]] = Missing
          /\ \A i \in Dest : i # cur[m] => old'[m][i] = old[m][i] /\ disk'[i] = disk[i]
      BY <1>10, <2>1, <2>3, SMTT(20) DEF Backup
    <3>2. ASSUME NEW i \in ops[m], i = cur[m]
          PROVE  i \notin committed'[m] /\ i = pending'[m] /\ Aside(m, i)'
      BY <2>1, <3>1, <3>2, SMTT(20)
    <3>3. ASSUME NEW i \in ops[m], i # cur[m]
          PROVE  /\ i \in committed'[m] => Installed(m, i)'
                 /\ i \notin committed'[m] => i # pending'[m] /\ Kept(m, i)'
                 /\ i < cur'[m] /\ i \notin committed'[m] =>
                        i \in Seed[m] /\ disk'[i] \in FileImages
      BY <2>1, <3>1, <3>3, SMTT(20)
    <3> HIDE DEF Kept, Installed, Aside
    <3> QED
      BY <2>1, <3>1, <3>2, <3>3, SMTT(20)
  <2> QED
    BY <2>2, <2>3
<1>11. CASE JournalPending(m)
  BY <1>11, SMTT(20) DEF JournalPending
<1>12. CASE Install(m)
  BY <1>12, SMTT(20) DEF Install
<1>13. CASE GiveBack(m)
  BY <1>13, SMTT(20) DEF GiveBack
<1>14. CASE JournalCommit(m)
  BY <1>14, SMTT(20) DEF JournalCommit
<1>15. CASE LoopEnd(m)
  BY <1>15, SMTT(20) DEF LoopEnd
<1>16. CASE JournalFinal(m)
  BY <1>16, SMTT(20) DEF JournalFinal
<1>17. CASE RestorePending(m)
  BY <1>17, SMTT(20) DEF RestorePending
<1>18. CASE UndoCheck(m)
  BY <1>18, SMTT(20) DEF UndoCheck
<1>19. CASE UndoTake(m)
  BY <1>19, SMTT(20) DEF UndoTake
<1>20. CASE UndoPut(m)
  BY <1>20, SMTT(20) DEF UndoPut
<1>21. CASE RemoveDirs(m)
  BY <1>21, SMTT(20) DEF RemoveDirs
<1>22. CASE JournalRollback(m)
  BY <1>22, SMTT(20) DEF JournalRollback
<1>23. CASE FaultReturn(m)
  BY <1>23, SMTT(20) DEF FaultReturn
<1>24. CASE FaultCommit(m)
  BY <1>24, SMTT(20) DEF FaultCommit
<1>25. CASE FaultRollback(m)
  BY <1>25, SMTT(20) DEF FaultRollback
<1>26. CASE FaultJournalRollback(m)
  BY <1>26, SMTT(20) DEF FaultJournalRollback
<1>27. CASE Crash(m)
  BY <1>27, SMTT(20) DEF Crash
<1> QED
  BY <1>1, <1>2, <1>3, <1>4, <1>5, <1>6, <1>7, <1>8, <1>9, <1>10, <1>11, <1>12,
     <1>13, <1>14, <1>15, <1>16, <1>17, <1>18, <1>19, <1>20, <1>21, <1>22, <1>23,
     <1>24, <1>25, <1>26, <1>27, Zenon DEF Advance, Failure

\* So does the rollback.
LEMMA OwnBackward ==
  ASSUME NEW m \in Managers, TypeInv, BackupInv(m), MoveInv(m), StepInv(m), ForwardInv(m),
         BackwardInv(m), Advance(m) \/ Failure(m)
  PROVE  BackwardInv(m)'
<1> USE ImageAssumption, PlanAssumption DEF TypeInv, TypeOK, Contents, Dest, Outside, Early,
     Moving, Closure, Undoing, Finished, Holding, AtOperation, At, Goto, Return, Record, Abort,
     Place, SetAside, PutBack, TakeOut, FaultBudget, world, plan, store, memory, Restoring, BackupInv, MoveInv, StepInv, ForwardInv,
     BackwardInv, Kept, Installed, Aside, Unmoved, Vacant
<1>1. CASE Prepare(m)
  BY <1>1, SMTT(20) DEF Prepare
<1>2. CASE Lock(m)
  BY <1>2, SMTT(20) DEF Lock
<1>3. CASE Revalidate(m)
  BY <1>3, SMTT(20) DEF Revalidate
<1>4. CASE Stage(m)
  BY <1>4, SMTT(20) DEF Stage
<1>5. CASE JournalPrepared(m)
  BY <1>5, SMTT(20) DEF JournalPrepared
<1>6. CASE Check(m)
  BY <1>6, SMTT(20) DEF Check
<1>7. CASE Open(m)
  BY <1>7, SMTT(20) DEF Open
<1>8. CASE JournalOpen(m)
  BY <1>8, SMTT(20) DEF JournalOpen
<1>9. CASE Link(m)
  BY <1>9, SMTT(20) DEF Link
<1>10. CASE Backup(m)
  BY <1>10, SMTT(20) DEF Backup
<1>11. CASE JournalPending(m)
  BY <1>11, SMTT(20) DEF JournalPending
<1>12. CASE Install(m)
  BY <1>12, SMTT(20) DEF Install
<1>13. CASE GiveBack(m)
  BY <1>13, SMTT(20) DEF GiveBack
<1>14. CASE JournalCommit(m)
  BY <1>14, SMTT(20) DEF JournalCommit
<1>15. CASE LoopEnd(m)
  BY <1>15, SMTT(20) DEF LoopEnd
<1>16. CASE JournalFinal(m)
  BY <1>16, SMTT(20) DEF JournalFinal
<1>17. CASE RestorePending(m)
  <2>1. /\ pc[m] = "rbpending" /\ undo[m] = committed[m] /\ ops[m] \subseteq Dest
        /\ UNCHANGED <<before, undo, cur, ops>>
    BY <1>17, SMTT(20) DEF RestorePending
  <2>2. CASE pending[m] = 0
    <3>1. pc'[m] = "rbcheck" /\ UNCHANGED <<disk, old, pending>>
      BY <1>17, <2>2, SMTT(20) DEF RestorePending
    <3> QED
      BY <2>1, <2>2, <3>1, SMTT(20)
  <2>3. CASE pending[m] # 0 /\ Vacant(pending[m])
    <3>1. /\ pc'[m] = "rbcheck" /\ disk[pending[m]] = Missing
          /\ disk'[pending[m]] = old[m][pending[m]]
          /\ \A i \in Dest : i # pending[m] => old'[m][i] = old[m][i] /\ disk'[i] = disk[i]
      BY <1>17, <2>3, SMTT(20) DEF RestorePending
    <3>2. ASSUME NEW i \in ops[m], i = pending[m]
          PROVE  i \notin undo'[m] /\ Kept(m, i)'
      BY <2>1, <3>1, <3>2, SMTT(20)
    <3>3. ASSUME NEW i \in ops[m], i # pending[m]
          PROVE  /\ i \in undo'[m] => Installed(m, i)'
                 /\ i \notin undo'[m] => Kept(m, i)'
      BY <2>1, <3>1, <3>3, SMTT(20)
    <3> HIDE DEF Kept, Installed, Aside
    <3> QED
      BY <2>1, <3>1, <3>2, <3>3, SMTT(20)
  <2>4. CASE pending[m] # 0 /\ ~Vacant(pending[m])
    BY <1>17, <2>4, SMTT(20) DEF RestorePending
  <2> QED
    BY <2>2, <2>3, <2>4
<1>18. CASE UndoCheck(m)
  BY <1>18, SMTT(20) DEF UndoCheck
<1>19. CASE UndoTake(m)
  BY <1>19, SMTT(20) DEF UndoTake
<1>20. CASE UndoPut(m)
  <2>1. CASE Vacant(cur[m])
    <3>1. /\ pc[m] = "rbput" /\ pc'[m] = "rbcheck" /\ undo'[m] = undo[m] \ {cur[m]}
          /\ ops[m] \subseteq Dest /\ UNCHANGED <<before, cur, ops>>
          /\ disk'[cur[m]] = old[m][cur[m]]
          /\ \A i \in Dest : i # cur[m] => old'[m][i] = old[m][i] /\ disk'[i] = disk[i]
      BY <1>20, <2>1, SMTT(20) DEF UndoPut
    <3>2. ASSUME NEW i \in ops[m]
          PROVE  /\ i \in undo'[m] => Installed(m, i)'
                 /\ i \notin undo'[m] => Kept(m, i)'
      BY <3>1, SMTT(20)
    <3> HIDE DEF Kept, Installed, Aside
    <3> QED
      BY <3>1, <3>2, SMTT(20)
  <2>2. CASE ~Vacant(cur[m])
    BY <1>20, <2>2, SMTT(20) DEF UndoPut
  <2> QED
    BY <2>1, <2>2
<1>21. CASE RemoveDirs(m)
  BY <1>21, SMTT(20) DEF RemoveDirs
<1>22. CASE JournalRollback(m)
  BY <1>22, SMTT(20) DEF JournalRollback
<1>23. CASE FaultReturn(m)
  BY <1>23, SMTT(20) DEF FaultReturn
<1>24. CASE FaultCommit(m)
  BY <1>24, SMTT(20) DEF FaultCommit
<1>25. CASE FaultRollback(m)
  BY <1>25, SMTT(20) DEF FaultRollback
<1>26. CASE FaultJournalRollback(m)
  BY <1>26, SMTT(20) DEF FaultJournalRollback
<1>27. CASE Crash(m)
  BY <1>27, SMTT(20) DEF Crash
<1> QED
  BY <1>1, <1>2, <1>3, <1>4, <1>5, <1>6, <1>7, <1>8, <1>9, <1>10, <1>11, <1>12,
     <1>13, <1>14, <1>15, <1>16, <1>17, <1>18, <1>19, <1>20, <1>21, <1>22, <1>23,
     <1>24, <1>25, <1>26, <1>27, Zenon DEF Advance, Failure

\* Without the lease a manager moves nothing.
LEMMA OutsideMovesNothing ==
  ASSUME NEW n \in Managers, TypeInv, lease # n, lease # None, LeaseInv(n),
         Advance(n) \/ Failure(n)
  PROVE  UNCHANGED <<disk, lease>>
<1>1. pc[n] \notin Early \union Closure \union Undoing
  BY DEF LeaseInv, Holding
<1> USE <1>1 DEF Early, Closure, Moving, Undoing, At, Goto
<1>2. ~ (\/ Revalidate(n) \/ Stage(n) \/ JournalPrepared(n)
         \/ Check(n) \/ Open(n) \/ JournalOpen(n) \/ Link(n) \/ Backup(n)
         \/ JournalPending(n) \/ Install(n) \/ GiveBack(n) \/ JournalCommit(n)
         \/ LoopEnd(n) \/ JournalFinal(n))
  BY SMTT(20) DEF Revalidate, Stage, JournalPrepared, Check, Open, JournalOpen, Link, Backup,
     JournalPending, Install, GiveBack, JournalCommit, LoopEnd, JournalFinal
<1>3. ~ (\/ RestorePending(n) \/ UndoCheck(n) \/ UndoTake(n) \/ UndoPut(n)
         \/ RemoveDirs(n) \/ JournalRollback(n) \/ Failure(n))
  BY SMTT(20) DEF RestorePending, UndoCheck, UndoTake, UndoPut, RemoveDirs, JournalRollback,
     Failure, FaultReturn, FaultCommit, FaultRollback, FaultJournalRollback, Crash
<1>4. Prepare(n) \/ Lock(n)
  BY <1>2, <1>3, Zenon DEF Advance
<1> QED
  BY <1>4, SMTT(20) DEF Prepare, Lock

\* What is said of m is about its own state, the destinations and the lease.
LEMMA SameOutcome ==
  ASSUME NEW m \in Managers, StepInv(m), ForwardInv(m), BackwardInv(m),
         pc[m] \in Holding => UNCHANGED <<disk, lease>>,
         pc'[m] = pc[m], before'[m] = before[m], ops'[m] = ops[m], cur'[m] = cur[m],
         committed'[m] = committed[m], undo'[m] = undo[m], pending'[m] = pending[m],
         created'[m] = created[m], old'[m] = old[m]
  PROVE  ForwardInv(m)' /\ BackwardInv(m)'
<1>1. CASE pc[m] \notin Holding
  BY <1>1, SMTT(20) DEF ForwardInv, BackwardInv, Holding, Early, Closure, Moving, Undoing,
     Restoring
<1>2. CASE pc[m] \in Holding
  <2>1. disk' = disk
    BY <1>2
  <2>2. \A i : /\ Kept(m, i)' = Kept(m, i) /\ Installed(m, i)' = Installed(m, i)
               /\ Aside(m, i)' = Aside(m, i)
    BY <2>1, SMTT(20) DEF Kept, Installed, Aside
  <2>3. ForwardInv(m)'
    BY <2>1, <2>2, SMTT(20) DEF ForwardInv
  <2>4. BackwardInv(m)'
    BY <2>1, <2>2, SMTT(20) DEF BackwardInv
  <2> QED
    BY <2>3, <2>4
<1> QED
  BY <1>1, <1>2

\* Another manager's step takes nothing from m.
LEMMA OthersOutcome ==
  ASSUME TypeInv, NEW m \in Managers, NEW n \in Managers, n # m, Advance(n) \/ Failure(n),
         LeaseInv(m), LeaseInv(n), StepInv(m)
  PROVE  /\ LeaseInv(m)' /\ StepInv(m)'
         /\ ForwardInv(m) /\ BackwardInv(m) => ForwardInv(m)' /\ BackwardInv(m)'
<1>1. OwnStep(n)
  BY OwnStepTyped
<1>2. /\ pc'[m] = pc[m] /\ before'[m] = before[m] /\ ops'[m] = ops[m] /\ cur'[m] = cur[m]
      /\ committed'[m] = committed[m] /\ undo'[m] = undo[m] /\ pending'[m] = pending[m]
      /\ created'[m] = created[m] /\ old'[m] = old[m]
  BY <1>1, SMTT(20) DEF TypeInv, TypeOK, OwnStep, UpdatedAt
<1>3. pc[m] \in Holding => UNCHANGED <<disk, lease>>
  <2> SUFFICES ASSUME pc[m] \in Holding PROVE UNCHANGED <<disk, lease>>
    OBVIOUS
  <2>1. lease # n /\ lease # None
    BY ImageAssumption DEF LeaseInv
  <2> QED
    BY <2>1, OutsideMovesNothing
<1>4. LeaseInv(m)'
  BY <1>2, <1>3 DEF LeaseInv
<1>5. StepInv(m)'
  BY <1>2, SMTT(20) DEF StepInv
<1> QED
  BY <1>2, <1>3, <1>4, <1>5, SameOutcome

\* Nothing is moved at the start.
LEMMA InitOutcome == Init => OutcomeInv
  BY SMTT(20) DEF Init, OutcomeInv, LeaseInv, StepInv, ForwardInv, BackwardInv, Holding, Early,
     Closure, Moving, Undoing, Restoring

\* OutcomeInv is inductive relative to TypeInv and OwnInv.
LEMMA NextOutcome == TypeInv /\ OwnInv /\ OutcomeInv /\ [Next]_vars => OutcomeInv'
<1> SUFFICES ASSUME TypeInv, OwnInv, OutcomeInv, [Next]_vars, NEW m \in Managers
             PROVE  /\ LeaseInv(m)' /\ StepInv(m)'
                    /\ writes' = 0 => ForwardInv(m)' /\ BackwardInv(m)'
  BY DEF OutcomeInv
<1>0. LeaseInv(m) /\ StepInv(m) /\ BackupInv(m) /\ MoveInv(m)
  BY DEF OutcomeInv, OwnInv
<1>1. ASSUME NEW n \in Managers, Advance(n) \/ Failure(n)
      PROVE  /\ LeaseInv(m)' /\ StepInv(m)'
             /\ writes' = 0 => ForwardInv(m)' /\ BackwardInv(m)'
  <2>1. writes' = 0 => ForwardInv(m) /\ BackwardInv(m)
    BY <1>1, OwnStepTyped DEF OwnStep, OutcomeInv
  <2>2. CASE n = m
    BY <1>0, <1>1, <2>1, <2>2, OwnLease, OwnStepInv, OwnForward, OwnBackward
  <2>3. CASE n # m
    <3>1. LeaseInv(n)
      BY DEF OutcomeInv
    <3> QED
      BY <1>0, <1>1, <2>1, <2>3, <3>1, OthersOutcome
  <2> QED
    BY <2>2, <2>3
<1>2. CASE Foreign
  <2>1. UNCHANGED <<lease, pc, plan, cur, memory, undo, store, journal, faults>>
    BY <1>2, ForeignFrame
  <2>2. LeaseInv(m)' /\ StepInv(m)'
    BY <1>0, <2>1, SMTT(20) DEF LeaseInv, StepInv, plan, memory
  <2>3. writes' # 0
    BY <1>2, SMTT(20) DEF TypeInv, TypeOK, Foreign, ForeignWrite, ForeignLitter, ForeignRmdir,
       WriteBudget
  <2> QED
    BY <2>2, <2>3
<1>3. CASE UNCHANGED vars
  <2>1. LeaseInv(m)' /\ StepInv(m)'
    BY <1>0, <1>3, SMTT(20) DEF LeaseInv, StepInv, vars, plan, memory
  <2>2. writes' = 0 => ForwardInv(m) /\ BackwardInv(m)
    BY <1>3 DEF vars, OutcomeInv
  <2>3. writes' = 0 => ForwardInv(m)' /\ BackwardInv(m)'
    BY <1>0, <1>3, <2>2, SameOutcome DEF vars, plan, memory, store
  <2> QED
    BY <2>1, <2>3
<1> QED
  BY <1>1, <1>2, <1>3 DEF Next

\* When nobody else writes, a commit that ends has installed its plan, and a
\* rollback that ends has put everything back, whatever failed on the way.
THEOREM Undisturbed == Spec => []UndisturbedOutcome
<1>1. TypeInv /\ OwnInv /\ OutcomeInv => UndisturbedOutcome
  <2> SUFFICES ASSUME TypeInv, OwnInv, OutcomeInv, writes = 0, NEW m \in Managers
               PROVE  /\ pc[m] = "jfinal" => \A i \in ops[m] :
                             disk[i] = Wanted[m][i] \/ (i \in Seed[m] /\ disk[i] \in FileImages)
                      /\ pc[m] = "rbdone" => Unmoved(m) /\ created[m] = {}
    BY DEF UndisturbedOutcome
  <2>1. ForwardInv(m) /\ BackwardInv(m) /\ StepInv(m) /\ BackupInv(m) /\ ops[m] \subseteq Dest
    BY SMTT(20) DEF OutcomeInv, OwnInv, TypeInv, TypeOK
  <2>2. ASSUME pc[m] = "jfinal", NEW i \in ops[m]
        PROVE  disk[i] = Wanted[m][i] \/ (i \in Seed[m] /\ disk[i] \in FileImages)
    <3>1. i < cur[m]
      BY <2>1, <2>2, ImageAssumption, SMTT(20) DEF StepInv, Dest
    <3> QED
      BY <2>1, <2>2, <3>1, SMTT(20) DEF ForwardInv, Closure, Moving, Installed
  <2>3. ASSUME pc[m] = "rbdone" PROVE Unmoved(m) /\ created[m] = {}
    BY <2>1, <2>3, SMTT(20) DEF BackwardInv, BackupInv, StepInv, Restoring, Kept, Unmoved
  <2> QED
    BY <2>2, <2>3
<1> QED
  BY InitType, NextTypes, InitOwn, NextOwn, InitOutcome, NextOutcome, <1>1, PTL DEF Spec
=============================================================================
