---------------------------- MODULE Install_proofs ----------------------------
(***************************************************************************)
(* Theorems about Install for any archives, outputs, commands, failures    *)
(* and deaths.                                                             *)
(*                                                                         *)
(* What is on disk is trusted by later commands, so the inductive          *)
(* invariant has to say of every label what the present command already    *)
(* knows of the outputs it has taken off its list: that they are whole,    *)
(* that it counts them as failed, or that it was told a record nobody      *)
(* earned.  The heart is that no worker writes to an archive's files       *)
(* while a record of the whole archive is on disk: it would have skipped   *)
(* the batch, or adoption would have put another record in its place.      *)
(***************************************************************************)
EXTENDS Install, TLAPS

\* The record of archive a is that of a batch of all its files; or one that
\* vouches for less, or for files nobody looked at.
Full(a) == sentinel[a] # None /\ ~sentinel[a].adopted /\ sentinel[a].files = FilesOf(a)
Bad(a)  == sentinel[a] # None /\ (sentinel[a].adopted \/ sentinel[a].files # FilesOf(a))

Whole(o) == Content(o) = "whole"

\* What the lists hold at each label.
PhaseInv ==
    /\ pc # "idle" => cmd \in Commands
    /\ pc # "batches" => \A a \in Archives : batch[a] = "done"
    /\ pc \in {"idle", "plan", "validate", "save"} => todo = {}
    /\ pc \in {"idle", "plan", "validate", "deploy", "save"} => writing = {}
    /\ pc = "inline" => todo \subseteq Inline
    /\ pc = "batches" => todo \subseteq Files \ omitted /\ writing \cap Patched = {}
    /\ pc = "bsa" => todo \subseteq Bsas
    /\ pc = "compress" => \A o \in todo : plain[o] # "absent"
    /\ pc \notin {"validate", "deploy", "save"} => ~fresh

DiskInv ==
    /\ \A a \in vouched : store[a] = "whole"
    /\ \A o \in Inline \cap Large : plain[o] = "absent"
    /\ EarnedIsWhole

\* Adoption has replaced the records this command cannot use.
PlanInv ==
    pc \in {"inline", "batches"} =>
        \A a \in Archives : Full(a) /\ Retained(a) # {} => Retained(a) = FilesOf(a)

\* What the worker of archive a knows.
BatchInv(a) ==
    /\ batch[a] \in {"waiting", "downloading"} =>
           /\ Retained(a) # {} /\ Retained(a) \subseteq todo
           /\ Retained(a) \cap writing = {}
    /\ batch[a] = "downloading" => store[a] = "partial"
    /\ batch[a] = "extracting" /\ Kind[a] # "game" => store[a] = "whole"
    /\ batch[a] \in {"downloading", "extracting"} => ~Full(a)
    /\ batch[a] = "extracting" =>
           \A f \in Retained(a) : f \in todo \/ f \in failed \/ Whole(f)
    /\ batch[a] \in {"pruning", "done"} => Retained(a) \cap todo = {}
    /\ batch[a] = "pruning" => \A f \in Retained(a) : Whole(f)
    /\ batch[a] = "done" => \A f \in Retained(a) : f \in failed \/ Whole(f) \/ Bad(a)

\* What the command knows of the outputs it has dealt with.
InlineInv ==
    /\ pc = "inline" => \A o \in Inline \ omitted : o \in todo \/ o \in failed \/ Whole(o)
    /\ pc = "batches" => \A o \in Inline \ omitted : o \in failed \/ Whole(o)

AfterBatches == pc \in {"bsa", "compress"} \/ (pc \in {"validate", "deploy", "save"} /\ fresh)

CleanInv ==
    AfterBatches /\ ~cmd.goOn =>
        /\ \A o \in Inline \ omitted : Whole(o)
        /\ \A f \in Files \ omitted : Whole(f) \/ Bad(From[f])

DeployInv ==
    pc = "deploy" \/ (pc = "save" /\ cmd.deploy) =>
        \A o \in Outputs : Mod[o] # None /\ Exists(o) => o \in todo \/ Played(o) = Content(o)

IInv ==
    /\ TypeOK
    /\ PhaseInv
    /\ DiskInv
    /\ PlanInv
    /\ pc = "batches" => \A a \in Archives : BatchInv(a)
    /\ InlineInv
    /\ CleanInv
    /\ DeployInv

-----------------------------------------------------------------------------
(* Outputs and what they hold.                                             *)

\* The outputs of an archive are the files taken from it.
LEMMA FilesAreOutputs ==
  /\ Files \subseteq Outputs /\ Inline \subseteq Outputs /\ Bsas \subseteq Outputs
  /\ \A a \in Archives : FilesOf(a) \subseteq Files /\ Retained(a) \subseteq FilesOf(a)
  /\ \A f \in Files : From[f] \in Archives /\ f \in FilesOf(From[f])
  /\ \A a, b \in Archives : a # b => FilesOf(a) \cap FilesOf(b) = {}
  BY InstallAssumption DEF Outputs, FilesOf, Retained

\* Writing one output says nothing about another.
LEMMA PutContent ==
  ASSUME TypeOK, DiskInv, NEW o \in Outputs, NEW c \in Contents \ {"absent"}, Put(o, c)
  PROVE  /\ plain' \in [Outputs -> Contents] /\ packed' \in [Outputs -> Contents]
         /\ Content(o)' = c
         /\ \A q \in Outputs : q # o => plain'[q] = plain[q] /\ packed'[q] = packed[q]
         /\ \A q \in Outputs : q # o => Content(q)' = Content(q)
         /\ o \notin Inline \cap Large => plain'[o] = c
         /\ \A q \in Inline \cap Large : plain'[q] = "absent"
<1> Inline \subseteq Outputs
  BY FilesAreOutputs
<1>1. CASE o \in Inline \cap Large
  <2>1. packed' = [packed EXCEPT ![o] = c] /\ plain' = plain
    BY <1>1 DEF Put, Packs
  <2> QED
    BY <2>1, <1>1 DEF TypeOK, DiskInv, Content, Contents
<1>2. CASE o \notin Inline \cap Large
  <2>1. plain' = [plain EXCEPT ![o] = c] /\ packed' = packed
    BY <1>2 DEF Put, Packs
  <2> QED
    BY <2>1, <1>2 DEF TypeOK, DiskInv, Content, Contents
<1> QED
  BY <1>1, <1>2

\* With the same forms, every output is what it was.
LEMMA SameContent ==
  ASSUME UNCHANGED <<plain, packed>>
  PROVE  \A o : Content(o)' = Content(o) /\ Exists(o)' = Exists(o) /\ Whole(o)' = Whole(o)
  BY DEF Content, Exists, Whole

LEMMA SameRecords ==
  ASSUME UNCHANGED sentinel
  PROVE  \A a : Full(a)' = Full(a) /\ Bad(a)' = Bad(a)
  BY DEF Full, Bad, FilesOf

\* A whole output exists.
LEMMA WholeExists ==
  ASSUME NEW o, Whole(o)
  PROVE  Exists(o)
  BY DEF Whole, Content, Exists

\* What is earned is known by this name in the invariant.
LEMMA EarnedByName == EarnedIsWhole <=> \A a \in Archives : Full(a) => \A f \in FilesOf(a) : Whole(f)
  BY DEF EarnedIsWhole, Full, Whole

LEMMA EarnedNext ==
  EarnedIsWhole' <=> \A a \in Archives : Full(a)' => \A f \in FilesOf(a) : Whole(f)'
  BY DEF EarnedIsWhole, Full, Whole, FilesOf

LEMMA UnlinkedType ==
  ASSUME TypeOK, NEW S
  PROVE  Unlinked(S) \in [Outputs -> Contents \cup {"linked"}]
  BY DEF TypeOK, Unlinked, Played

-----------------------------------------------------------------------------
(* The beginning and the end of a command.                                 *)

LEMMA InitInv == Init => IInv
<1> SUFFICES ASSUME Init PROVE IInv
  OBVIOUS
<1>0. 0 \in 0..MaxRuns /\ 0 \in 0..MaxCrashes
  BY InstallAssumption
<1>1. TypeOK
  BY <1>0 DEF Init, TypeOK, Contents
<1>2. PhaseInv /\ DiskInv
  BY DEF Init, PhaseInv, DiskInv, EarnedIsWhole, Outputs
<1>3. PlanInv /\ InlineInv /\ CleanInv /\ DeployInv
  BY DEF Init, PlanInv, InlineInv, CleanInv, AfterBatches, DeployInv
<1> QED
  BY <1>1, <1>2, <1>3 DEF Init, IInv

\* Whatever ends a command, on a disk that only the game's directory differs in.
LEMMA StoppedInv ==
  ASSUME IInv, Stopped, UNCHANGED <<store, vouched, plain, packed, sentinel, built>>,
         game' \in [Outputs -> Contents \cup {"linked"}],
         saved' \in BOOLEAN, runs' \in 0..MaxRuns, crashes' \in 0..MaxCrashes
  PROVE  IInv'
<1>1. TypeOK'
  BY DEF IInv, TypeOK, Stopped
<1>2. PhaseInv'
  BY DEF PhaseInv, Stopped
<1>3. DiskInv'
  BY SameContent DEF IInv, DiskInv, EarnedIsWhole, FilesOf
<1>4. PlanInv' /\ InlineInv' /\ CleanInv' /\ DeployInv'
  BY DEF Stopped, PlanInv, InlineInv, CleanInv, AfterBatches, DeployInv
<1> QED
  BY <1>1, <1>2, <1>3, <1>4 DEF IInv, Stopped

\* The process ends and nothing else happens: Stop, a crash, the end of Save.
LEMMA StopInv == IInv /\ Stop => IInv'
<1> SUFFICES ASSUME IInv, Stop PROVE IInv'
  OBVIOUS
<1>1. game' \in [Outputs -> Contents \cup {"linked"}]
  BY DEF IInv, TypeOK, Stop, disk
<1> QED
  BY <1>1, StoppedInv DEF Stop, disk, bounds, IInv, TypeOK

LEMMA CrashInv == IInv /\ Crash => IInv'
<1> SUFFICES ASSUME IInv, Crash PROVE IInv'
  OBVIOUS
<1>1. crashes' \in 0..MaxCrashes
  BY InstallAssumption DEF Crash, IInv, TypeOK
<1> QED
  BY <1>1, StoppedInv DEF Crash, disk, IInv, TypeOK

LEMMA SaveInv == IInv /\ Save => IInv'
<1> SUFFICES ASSUME IInv, Save PROVE IInv'
  OBVIOUS
<1>1. saved' \in BOOLEAN
  BY DEF Save, IInv, TypeOK
<1> QED
  BY <1>1, StoppedInv DEF Save, disk, bounds, IInv, TypeOK

LEMMA BeginInv == ASSUME NEW c \in Commands, IInv, Begin(c) PROVE IInv'
<1>1. runs' \in 0..MaxRuns
  BY InstallAssumption DEF IInv, TypeOK, Begin
<1>2. TypeOK'
  <2>1. CASE c.reset
    BY <1>1, <2>1, UnlinkedType DEF IInv, TypeOK, Begin, Contents
  <2>2. CASE ~c.reset
    BY <1>1, <2>2 DEF IInv, TypeOK, Begin
  <2> QED
    BY <2>1, <2>2
<1>3. PhaseInv'
  BY DEF IInv, PhaseInv, Begin
<1>4. DiskInv'
  <2>1. CASE c.reset
    BY <2>1, FilesAreOutputs DEF IInv, DiskInv, EarnedIsWhole, Begin
  <2>2. CASE ~c.reset
    BY <2>2, SameContent DEF IInv, DiskInv, EarnedIsWhole, FilesOf, Begin
  <2> QED
    BY <2>1, <2>2
<1>5. PlanInv' /\ InlineInv' /\ CleanInv' /\ DeployInv' /\ pc' # "batches"
  BY DEF IInv, PhaseInv, Begin, PlanInv, InlineInv, CleanInv, AfterBatches, DeployInv
<1> QED
  BY <1>2, <1>3, <1>4, <1>5 DEF IInv

\* Adoption: a record of a whole archive stays if this command wants the whole of it.
LEMMA PlanStepInv == IInv /\ Plan => IInv'
<1> SUFFICES ASSUME IInv, Plan, ~Stop PROVE IInv'
  BY StopInv DEF Plan
<1> DEFINE Wanted(a) == FilesOf(a) \ omitted'
           Adopt(a) == Wanted(a) # {} /\ ~SentinelValid(a, Wanted(a)) /\ \A f \in Wanted(a) : Exists(f)
           Record(a) == [files |-> Wanted(a), adopted |-> TRUE]
<1>1. /\ pc = "plan" /\ pc' = "inline"
      /\ omitted' = SkipPlan(cmd.policy)
      /\ sentinel' = [a \in Archives |-> IF Adopt(a) THEN Record(a) ELSE sentinel[a]]
      /\ built' = [b \in Bsas |-> IF ~BsaValid(b) /\ Exists(b) THEN "adopted" ELSE built[b]]
      /\ todo' = Inline \ omitted'
      /\ UNCHANGED <<store, vouched, plain, packed, game, cmd, batch, writing, failed,
                     fresh, saved, bounds>>
  BY DEF Plan
<1>2. \A a \in Archives : Retained(a)' = Wanted(a)
  BY DEF Retained, FilesOf
<1>3. TypeOK'
  <2>1. omitted' \subseteq Outputs
    <3>1. cmd.policy \in {"fail", "omitFiles", "omitMods"}
      BY <1>1, InstallAssumption DEF IInv, PhaseInv, Options
    <3> QED
      BY <1>1, <3>1 DEF SkipPlan, Outputs
  <2>2. sentinel' \in [Archives -> [files : SUBSET Files, adopted : BOOLEAN] \cup {None}]
    <3>1. \A a \in Archives : Record(a) \in [files : SUBSET Files, adopted : BOOLEAN]
      BY FilesAreOutputs
    <3>2. sentinel \in [Archives -> [files : SUBSET Files, adopted : BOOLEAN] \cup {None}]
      BY DEF IInv, TypeOK
    <3> DEFINE Records == [files : SUBSET Files, adopted : BOOLEAN] \cup {None}
               New(a) == IF Adopt(a) THEN Record(a) ELSE sentinel[a]
    <3>3. \A a \in Archives : New(a) \in Records
      BY <3>1, <3>2
    <3>4. sentinel' = [a \in Archives |-> New(a)]
      BY <1>1
    <3> HIDE DEF New, Records
    <3>5. sentinel' \in [Archives -> Records]
      BY <3>3, <3>4
    <3> QED
      BY <3>5 DEF Records
  <2>3. todo' \subseteq Outputs /\ writing' \subseteq todo'
    BY <1>1, FilesAreOutputs DEF IInv, PhaseInv
  <2>4. built' \in [Bsas -> {"none", "earned", "adopted"}]
    BY <1>1 DEF IInv, TypeOK
  <2> QED
    BY <1>1, <2>1, <2>2, <2>3, <2>4 DEF IInv, TypeOK, bounds
<1>4. PhaseInv'
  BY <1>1 DEF IInv, PhaseInv
<1>5. \A a \in Archives : Full(a)' => Full(a) /\ ~Adopt(a)
  BY <1>1 DEF Full, FilesOf
<1>6. DiskInv'
  <2>1. EarnedIsWhole
    BY DEF IInv, DiskInv
  <2>2. \A a \in Archives : Full(a)' => \A f \in FilesOf(a) : Whole(f)
    BY <2>1, <1>5, EarnedByName
  <2>3. \A f : Whole(f)' <=> Whole(f)
    BY <1>1, SameContent
  <2>4. EarnedIsWhole'
    BY <2>2, <2>3, EarnedNext
  <2> QED
    BY <1>1, <2>4 DEF IInv, DiskInv
<1>7. PlanInv'
  <2> SUFFICES ASSUME NEW a \in Archives, Full(a)', Retained(a)' # {}
               PROVE  Retained(a)' = FilesOf(a)'
    BY DEF PlanInv
  <2>1. Full(a) /\ ~Adopt(a)
    BY <1>5
  <2>0. EarnedIsWhole
    BY DEF IInv, DiskInv
  <2>2. \A f \in FilesOf(a) : Whole(f)
    BY <2>0, <2>1, EarnedByName
  <2>2a. \A f \in Wanted(a) : Exists(f)
    BY <2>2, WholeExists
  <2>3. SentinelValid(a, Wanted(a))
    BY <1>2, <2>1, <2>2a
  <2> QED
    BY <1>2, <2>1, <2>3 DEF SentinelValid, Full, FilesOf
<1>8. InlineInv' /\ CleanInv' /\ DeployInv'
  BY <1>1 DEF InlineInv, CleanInv, AfterBatches, DeployInv
<1> QED
  BY <1>1, <1>3, <1>4, <1>6, <1>7, <1>8 DEF IInv

-----------------------------------------------------------------------------
(* The inline files.                                                       *)

\* What is on disk is worth what it was if the store, the outputs and the
\* records are as they were.
LEMMA SameDisk ==
  ASSUME DiskInv, UNCHANGED <<store, vouched, plain, packed, sentinel>>
  PROVE  DiskInv'
<1>1. \A a \in Archives : Full(a)' => Full(a)
  BY SameRecords
<1>2. \A f : Whole(f)' <=> Whole(f)
  BY SameContent
<1>3. EarnedIsWhole'
  BY <1>1, <1>2, EarnedNext, EarnedByName DEF DiskInv
<1> QED
  BY <1>3 DEF DiskInv

\* An output no archive's record names may be written at any time.
LEMMA WriteOther ==
  ASSUME TypeOK, DiskInv, NEW o \in Outputs \ Files, NEW c \in Contents \ {"absent"}, Put(o, c),
         UNCHANGED <<store, vouched, sentinel>>
  PROVE  DiskInv'
<1>1. \A a \in Archives : Full(a)' => Full(a)
  BY SameRecords
<1>2. \A f \in Files : Whole(f)' <=> Whole(f)
  BY PutContent, FilesAreOutputs DEF Whole
<1>3. EarnedIsWhole'
  BY <1>1, <1>2, EarnedNext, EarnedByName, FilesAreOutputs DEF DiskInv
<1> QED
  BY <1>3, PutContent DEF DiskInv

LEMMA OpenInlineInv ==
  ASSUME IInv, pc = "inline", NEW o \in todo, Open(o)
  PROVE  IInv'
<1>0. o \in Inline /\ o \in Outputs \ Files /\ "torn" \in Contents \ {"absent"} /\ TypeOK /\ DiskInv
  BY InstallAssumption DEF IInv, PhaseInv, Outputs, Contents
<1>1. /\ Put(o, "torn") /\ writing' = writing \cup {o}
      /\ UNCHANGED <<store, vouched, sentinel, built, game, cmd, pc, omitted, batch, todo, failed,
                     fresh, saved, bounds>>
  BY DEF Open
<1>2. TypeOK'
  BY <1>0, <1>1, PutContent DEF TypeOK, bounds
<1>3. DiskInv'
  BY <1>0, <1>1, WriteOther
<1>4. PhaseInv'
  BY <1>1 DEF IInv, PhaseInv
<1>5. PlanInv'
  BY <1>1, SameRecords DEF IInv, PlanInv, Retained, FilesOf
<1>6. InlineInv'
  BY <1>0, <1>1, PutContent, FilesAreOutputs DEF IInv, InlineInv, Whole
<1>7. CleanInv' /\ DeployInv' /\ pc' # "batches"
  BY <1>1 DEF CleanInv, AfterBatches, DeployInv
<1> QED
  BY <1>2, <1>3, <1>4, <1>5, <1>6, <1>7 DEF IInv

LEMMA CloseInlineInv ==
  ASSUME IInv, pc = "inline", NEW o \in todo, Close(o, "whole")
  PROVE  IInv'
<1>0. o \in Inline /\ o \in Outputs \ Files /\ "whole" \in Contents \ {"absent"} /\ TypeOK /\ DiskInv
  BY InstallAssumption DEF IInv, PhaseInv, Outputs, Contents
<1>1. /\ Put(o, "whole") /\ writing' = writing \ {o} /\ todo' = todo \ {o}
      /\ UNCHANGED <<store, vouched, sentinel, built, game, cmd, pc, omitted, batch, failed,
                     fresh, saved, bounds>>
  BY DEF Close
<1>2. TypeOK'
  BY <1>0, <1>1, PutContent DEF TypeOK, bounds
<1>3. DiskInv'
  BY <1>0, <1>1, WriteOther
<1>4. PhaseInv'
  BY <1>1 DEF IInv, PhaseInv
<1>5. PlanInv'
  BY <1>1, SameRecords DEF IInv, PlanInv, Retained, FilesOf
<1>6. InlineInv'
  BY <1>0, <1>1, PutContent, FilesAreOutputs DEF IInv, InlineInv, Whole
<1>7. CleanInv' /\ DeployInv' /\ pc' # "batches"
  BY <1>1 DEF CleanInv, AfterBatches, DeployInv
<1> QED
  BY <1>2, <1>3, <1>4, <1>5, <1>6, <1>7 DEF IInv

LEMMA FailInlineInv ==
  ASSUME IInv, pc = "inline", NEW o \in todo, Fail({o})
  PROVE  IInv'
<1>1. /\ failed' = failed \cup {o} /\ todo' = todo \ {o} /\ writing' = writing \ {o}
      /\ UNCHANGED <<disk, cmd, pc, omitted, batch, fresh, saved, bounds>>
  BY DEF Fail
<1>2. TypeOK'
  BY <1>1 DEF IInv, TypeOK, disk, bounds
<1>3. DiskInv'
  BY <1>1, SameDisk DEF IInv, disk
<1>4. PhaseInv'
  BY <1>1 DEF IInv, PhaseInv
<1>5. PlanInv'
  BY <1>1, SameRecords DEF IInv, PlanInv, Retained, FilesOf, disk
<1>6. InlineInv'
  BY <1>1, SameContent DEF IInv, InlineInv, disk
<1>7. CleanInv' /\ DeployInv' /\ pc' # "batches"
  BY <1>1 DEF CleanInv, AfterBatches, DeployInv
<1> QED
  BY <1>2, <1>3, <1>4, <1>5, <1>6, <1>7 DEF IInv

\* The workers start with everything that is wanted of their archives to do.
LEMMA InlinePassInv == IInv /\ InlinePass => IInv'
<1> SUFFICES ASSUME IInv, InlinePass PROVE IInv'
  OBVIOUS
<1>1. CASE \E o \in todo : Open(o) \/ Close(o, "whole") \/ Fail({o})
  BY <1>1, OpenInlineInv, CloseInlineInv, FailInlineInv DEF InlinePass
<1>2. CASE /\ todo = {}
           /\ pc' = "batches"
           /\ todo' = Files \ omitted
           /\ batch' = [a \in Archives |-> IF Retained(a) = {} THEN "done" ELSE "waiting"]
           /\ UNCHANGED <<disk, cmd, omitted, writing, failed, fresh, saved, bounds>>
  <2>0. pc = "inline" /\ writing = {}
    BY <1>2 DEF InlinePass, IInv, TypeOK
  <2>1. TypeOK'
    BY <1>2, <2>0, FilesAreOutputs DEF IInv, TypeOK, disk, bounds
  <2>2. PhaseInv'
    BY <1>2, <2>0 DEF IInv, PhaseInv
  <2>3. DiskInv'
    BY <1>2, SameDisk DEF IInv, disk
  <2>4. PlanInv'
    BY <1>2, <2>0, SameRecords DEF IInv, PlanInv, Retained, FilesOf, disk
  <2>5. ASSUME NEW a \in Archives PROVE BatchInv(a)'
    <3>1. Retained(a)' = Retained(a) /\ Retained(a) \subseteq Files \ omitted
      BY <1>2 DEF Retained, FilesOf
    <3>2. batch'[a] = IF Retained(a) = {} THEN "done" ELSE "waiting"
      BY <1>2
    <3> QED
      BY <1>2, <2>0, <3>1, <3>2 DEF BatchInv
  <2>6. InlineInv'
    BY <1>2, <2>0, SameContent DEF IInv, InlineInv, disk
  <2>7. CleanInv' /\ DeployInv'
    BY <1>2 DEF CleanInv, AfterBatches, DeployInv
  <2> QED
    BY <2>1, <2>2, <2>3, <2>4, <2>5, <2>6, <2>7 DEF IInv
<1> QED
  BY <1>1, <1>2 DEF InlinePass

-----------------------------------------------------------------------------
(* The batches.                                                            *)

\* What a worker knows is not disturbed by what the others do.
LEMMA OtherBatch ==
  ASSUME NEW b \in Archives, BatchInv(b),
         batch'[b] = batch[b], store'[b] = store[b], sentinel'[b] = sentinel[b],
         omitted' = omitted, failed \subseteq failed',
         \A f \in Retained(b) : /\ Content(f)' = Content(f)
                                /\ f \in todo' <=> f \in todo
                                /\ f \in writing' <=> f \in writing
  PROVE  BatchInv(b)'
<1>1. Retained(b)' = Retained(b)
  BY DEF Retained, FilesOf
<1>2. Full(b)' <=> Full(b)
  BY DEF Full, FilesOf
<1>3. Bad(b)' <=> Bad(b)
  BY DEF Bad, FilesOf
<1>4. \A f \in Retained(b) : Whole(f)' <=> Whole(f)
  BY DEF Whole
<1> QED
  BY <1>1, <1>2, <1>3, <1>4 DEF BatchInv

\* What a step of the worker of archive a has to show.
LEMMA BatchStep ==
  ASSUME IInv, pc = "batches", NEW a \in Archives,
         UNCHANGED <<pc, cmd, omitted, fresh>>,
         TypeOK', DiskInv', BatchInv(a)',
         todo' \subseteq todo, writing' \cap Patched = {}, failed \subseteq failed',
         Full(a)' => Full(a) \/ Retained(a) = FilesOf(a),
         \A b \in Archives \ {a} :
             batch'[b] = batch[b] /\ store'[b] = store[b] /\ sentinel'[b] = sentinel[b],
         \A o \in Outputs \ Retained(a) : /\ Content(o)' = Content(o)
                                          /\ o \in todo' <=> o \in todo
                                          /\ o \in writing' <=> o \in writing
  PROVE  IInv'
<1>1. PhaseInv'
  BY DEF IInv, PhaseInv
<1>2. ASSUME NEW b \in Archives \ {a} PROVE BatchInv(b)'
  <2>1. \A f \in Retained(b) : f \in Outputs \ Retained(a)
    BY FilesAreOutputs
  <2>2. BatchInv(b)
    BY DEF IInv
  <2> QED
    BY <2>1, <2>2, OtherBatch
<1>3. PlanInv'
  <2> SUFFICES ASSUME NEW b \in Archives, Full(b)', Retained(b)' # {}
               PROVE  Retained(b)' = FilesOf(b)'
    BY DEF PlanInv
  <2>1. Retained(b)' = Retained(b) /\ FilesOf(b)' = FilesOf(b)
    BY DEF Retained, FilesOf
  <2>2. b # a => Full(b)
    BY DEF Full, FilesOf
  <2> QED
    BY <2>1, <2>2 DEF IInv, PlanInv
<1>4. InlineInv'
  <2>1. \A o \in Inline : o \in Outputs \ Retained(a)
    BY FilesAreOutputs, InstallAssumption
  <2>2. \A o \in Inline : Whole(o)' <=> Whole(o)
    BY <2>1 DEF Whole
  <2> QED
    BY <2>2 DEF IInv, InlineInv
<1>5. CleanInv' /\ DeployInv'
  BY DEF CleanInv, AfterBatches, DeployInv
<1> QED
  BY <1>1, <1>2, <1>3, <1>4, <1>5 DEF IInv

\* A record of the whole archive makes its worker skip the batch.
LEMMA FullIsValid ==
  ASSUME IInv, pc = "batches", NEW a \in Archives, Retained(a) # {}, Full(a)
  PROVE  SentinelValid(a, Retained(a))
<1>1. Retained(a) = FilesOf(a)
  BY DEF IInv, PlanInv
<1>2. EarnedIsWhole
  BY DEF IInv, DiskInv
<1>3. \A f \in FilesOf(a) : Exists(f)
  BY <1>2, EarnedByName, WholeExists
<1> QED
  BY <1>1, <1>3 DEF SentinelValid, Full

LEMMA TrustInv ==
  ASSUME IInv, pc = "batches", NEW a \in Archives, Trust(a)
  PROVE  IInv'
<1>0. /\ batch[a] = "waiting"
      /\ UNCHANGED <<plain, packed, sentinel, built, game, cmd, pc, omitted, fresh, saved, bounds>>
  BY DEF Trust
<1>1. Retained(a)' = Retained(a) /\ (Full(a)' <=> Full(a)) /\ (Bad(a)' <=> Bad(a))
  BY <1>0, SameRecords DEF Retained, FilesOf
<1>2. /\ \A o : Content(o)' = Content(o)
      /\ \A o : Whole(o)' <=> Whole(o)
  BY <1>0, SameContent
<1>3. TypeOK /\ PhaseInv /\ DiskInv /\ BatchInv(a)
  BY DEF IInv
<1>4. /\ Retained(a) # {} /\ Retained(a) \subseteq todo /\ Retained(a) \cap writing = {}
      /\ Retained(a) \subseteq Outputs
  BY <1>0, <1>3, FilesAreOutputs DEF BatchInv
<1>5. \A f : Full(a) /\ f \in FilesOf(a) => Whole(f)
  BY <1>3, EarnedByName DEF DiskInv
<1>6. UNCHANGED store /\ UNCHANGED vouched => DiskInv'
  BY <1>0, <1>3, SameDisk
<1>7. CASE /\ SentinelValid(a, Retained(a))
           /\ todo' = todo \ Retained(a)
           /\ Advance(a, "done")
           /\ UNCHANGED <<store, vouched, writing, failed>>
  <2>1. TypeOK'
    BY <1>0, <1>3, <1>4, <1>7 DEF TypeOK, Advance, bounds
  <2>2. Full(a) \/ Bad(a)
    BY <1>7 DEF SentinelValid, Full, Bad
  <2>3. BatchInv(a)'
    BY <1>1, <1>2, <1>3, <1>5, <1>7, <2>2, FilesAreOutputs DEF BatchInv, Advance, TypeOK
  <2> QED
    BY <1>0, <1>1, <1>2, <1>3, <1>6, <1>7, <2>1, <2>3, BatchStep DEF Advance, bounds, TypeOK, PhaseInv
<1>8. CASE GiveUp(a) /\ UNCHANGED <<store, vouched>>
  <2>1. TypeOK'
    BY <1>0, <1>3, <1>4, <1>8 DEF TypeOK, GiveUp, Advance, bounds
  <2>2. BatchInv(a)'
    BY <1>1, <1>3, <1>8 DEF BatchInv, GiveUp, Advance, TypeOK
  <2> QED
    BY <1>0, <1>1, <1>2, <1>3, <1>6, <1>8, <2>1, <2>2, BatchStep
    DEF GiveUp, Advance, bounds, TypeOK, PhaseInv
<1>9. CASE /\ ~SentinelValid(a, Retained(a))
           /\ \/ Kind[a] = "game" /\ Advance(a, "extracting") /\ UNCHANGED <<store, vouched>>
              \/ /\ a \in vouched \/ store[a] = "whole"
                 /\ vouched' = vouched \cup {a}
                 /\ Advance(a, "extracting")
                 /\ UNCHANGED store
              \/ /\ Kind[a] \notin {"game", "manual"} /\ store[a] = "absent"
                 /\ store' = [store EXCEPT ![a] = "partial"]
                 /\ Advance(a, "downloading")
                 /\ UNCHANGED vouched
           /\ UNCHANGED <<todo, writing, failed>>
  <2>1. ~Full(a)
    BY <1>4, <1>9, FullIsValid
  <2>2. a \in vouched => store[a] = "whole"
    BY <1>3 DEF DiskInv
  <2>3. TypeOK'
    BY <1>0, <1>3, <1>9 DEF TypeOK, Advance, bounds
  <2>4. EarnedIsWhole'
    BY <1>0, <1>2, <1>3, EarnedNext, EarnedByName, SameRecords DEF DiskInv
  <2>5. DiskInv'
    BY <1>0, <1>3, <1>9, <2>2, <2>4 DEF DiskInv, TypeOK
  <2>6. BatchInv(a)'
    BY <1>1, <1>3, <1>4, <1>9, <2>1, <2>2 DEF BatchInv, Advance, TypeOK
  <2>7. \A b \in Archives \ {a} : batch'[b] = batch[b] /\ store'[b] = store[b]
    BY <1>3, <1>9 DEF Advance, TypeOK
  <2> QED
    BY <1>0, <1>1, <1>2, <1>3, <1>9, <2>3, <2>5, <2>6, <2>7, BatchStep DEF bounds, PhaseInv
<1> QED
  BY <1>7, <1>8, <1>9 DEF Trust

LEMMA DownloadInv ==
  ASSUME IInv, pc = "batches", NEW a \in Archives, Download(a)
  PROVE  IInv'
<1>0. /\ batch[a] = "downloading"
      /\ UNCHANGED <<plain, packed, sentinel, built, game, cmd, pc, omitted, fresh, saved, bounds>>
  BY DEF Download
<1>1. Retained(a)' = Retained(a) /\ (Full(a)' <=> Full(a)) /\ (Bad(a)' <=> Bad(a))
  BY <1>0, SameRecords DEF Retained, FilesOf
<1>2. /\ \A o : Content(o)' = Content(o)
      /\ \A o : Whole(o)' <=> Whole(o)
  BY <1>0, SameContent
<1>3. TypeOK /\ PhaseInv /\ DiskInv /\ BatchInv(a)
  BY DEF IInv
<1>4. /\ Retained(a) \subseteq todo /\ Retained(a) \cap writing = {} /\ Retained(a) \subseteq Outputs
      /\ ~Full(a) /\ store[a] = "partial" /\ a \notin vouched
  BY <1>0, <1>3, FilesAreOutputs DEF BatchInv, DiskInv
<1>5. EarnedIsWhole'
  BY <1>0, <1>2, <1>3, EarnedNext, EarnedByName, SameRecords DEF DiskInv
<1>6. CASE /\ store' = [store EXCEPT ![a] = "whole"]
           /\ vouched' = vouched \cup {a}
           /\ Advance(a, "extracting")
           /\ UNCHANGED <<todo, writing, failed>>
  <2>1. TypeOK'
    BY <1>0, <1>3, <1>6 DEF TypeOK, Advance, bounds
  <2>2. DiskInv'
    BY <1>0, <1>3, <1>5, <1>6 DEF DiskInv, TypeOK
  <2>3. BatchInv(a)'
    BY <1>1, <1>3, <1>4, <1>6 DEF BatchInv, Advance, TypeOK
  <2> QED
    BY <1>0, <1>1, <1>2, <1>3, <1>6, <2>1, <2>2, <2>3, BatchStep DEF Advance, TypeOK, bounds, PhaseInv
<1>7. CASE /\ \/ store' \in {[store EXCEPT ![a] = c] : c \in {"absent", "whole"}}
              \/ Kind[a] # "direct" /\ UNCHANGED store
           /\ GiveUp(a)
           /\ UNCHANGED vouched
  <2>1. \A b \in Archives \ {a} : store'[b] = store[b]
    BY <1>3, <1>7 DEF TypeOK
  <2>2. store' \in [Archives -> {"absent", "partial", "whole"}]
    BY <1>3, <1>7 DEF TypeOK
  <2>3. TypeOK'
    BY <1>0, <1>3, <1>4, <1>7, <2>2 DEF TypeOK, GiveUp, Advance, bounds
  <2>4. DiskInv'
    BY <1>0, <1>3, <1>4, <1>5, <1>7, <2>1 DEF DiskInv, TypeOK
  <2>5. BatchInv(a)'
    BY <1>1, <1>3, <1>7 DEF BatchInv, GiveUp, Advance, TypeOK
  <2>6. \A b \in Archives \ {a} : batch'[b] = batch[b]
    BY <1>3, <1>7 DEF GiveUp, Advance, TypeOK
  <2> QED
    BY <1>0, <1>1, <1>2, <1>3, <1>7, <2>1, <2>3, <2>4, <2>5, <2>6, BatchStep
    DEF GiveUp, bounds, PhaseInv
<1> QED
  BY <1>6, <1>7 DEF Download

\* A worker that writes to its outputs breaks no record, for its own does not name them all.
LEMMA WriteMine ==
  ASSUME TypeOK, DiskInv, NEW a \in Archives, ~Full(a), NEW f \in FilesOf(a),
         NEW c \in Contents \ {"absent"}, Put(f, c),
         UNCHANGED <<store, vouched, sentinel>>
  PROVE  DiskInv'
<1>0. f \in Outputs
  BY FilesAreOutputs
<1>1. \A b \in Archives : Full(b)' => Full(b) /\ b # a
  BY SameRecords
<1>2. \A b \in Archives : b # a => \A q \in FilesOf(b) : q \in Outputs /\ q # f
  BY FilesAreOutputs
<1>3. \A q \in Outputs : q # f => (Whole(q)' <=> Whole(q))
  BY <1>0, PutContent DEF Whole
<1>4. EarnedIsWhole'
  BY <1>1, <1>2, <1>3, EarnedNext, EarnedByName DEF DiskInv
<1> QED
  BY <1>0, <1>4, PutContent DEF DiskInv

\* What a worker knows while it extracts.
LEMMA Extracting ==
  ASSUME IInv, pc = "batches", NEW a \in Archives, batch[a] = "extracting"
  PROVE  /\ TypeOK /\ PhaseInv /\ DiskInv /\ BatchInv(a)
         /\ ~Full(a)
         /\ Kind[a] # "game" => store[a] = "whole"
         /\ \A f \in Retained(a) : f \in todo \/ f \in failed \/ Whole(f)
         /\ Retained(a) \subseteq Files /\ Retained(a) \subseteq FilesOf(a)
         /\ Retained(a) \subseteq Outputs
         /\ writing \cap Patched = {} /\ writing \subseteq todo
  BY FilesAreOutputs DEF IInv, BatchInv, PhaseInv, TypeOK

LEMMA ExtractInv ==
  ASSUME IInv, pc = "batches", NEW a \in Archives, Extract(a)
  PROVE  IInv'
<1> DEFINE mine == Retained(a) \ Patched
<1>0. batch[a] = "extracting" /\ "torn" \in Contents \ {"absent"} /\ "whole" \in Contents \ {"absent"}
  BY DEF Extract, Contents
<1>1. /\ TypeOK /\ PhaseInv /\ DiskInv /\ BatchInv(a)
      /\ ~Full(a)
      /\ Kind[a] # "game" => store[a] = "whole"
      /\ \A f \in Retained(a) : f \in todo \/ f \in failed \/ Whole(f)
      /\ Retained(a) \subseteq FilesOf(a) /\ Retained(a) \subseteq Outputs
      /\ writing \cap Patched = {} /\ writing \subseteq todo
  BY <1>0, Extracting
<1>2. ASSUME NEW f \in mine, Open(f) PROVE IInv'
  <2>1. /\ f \in todo /\ writing' = writing \cup {f} /\ Put(f, "torn")
        /\ UNCHANGED <<store, vouched, sentinel, built, game, cmd, pc, omitted, batch, todo, failed,
                       fresh, saved, bounds>>
    BY <1>2 DEF Open
  <2>2. TypeOK'
    BY <1>0, <1>1, <2>1, PutContent DEF TypeOK, bounds
  <2>3. DiskInv'
    BY <1>0, <1>1, <2>1, WriteMine
  <2>4. Retained(a)' = Retained(a) /\ ~Full(a)'
    BY <1>1, <2>1, SameRecords DEF Retained, FilesOf
  <2>5. \A q \in Outputs : q # f => Content(q)' = Content(q)
    BY <1>0, <1>1, <2>1, PutContent
  <2>6. BatchInv(a)'
    BY <1>0, <1>1, <2>1, <2>4, <2>5 DEF BatchInv, Whole
  <2> QED
    BY <1>1, <2>1, <2>2, <2>3, <2>4, <2>5, <2>6, BatchStep DEF bounds
<1>3. ASSUME NEW f \in mine, Close(f, "whole") PROVE IInv'
  <2>1. /\ f \in todo /\ writing' = writing \ {f} /\ todo' = todo \ {f} /\ Put(f, "whole")
        /\ UNCHANGED <<store, vouched, sentinel, built, game, cmd, pc, omitted, batch, failed,
                       fresh, saved, bounds>>
    BY <1>1, <1>3 DEF Close
  <2>2. TypeOK'
    BY <1>0, <1>1, <2>1, PutContent DEF TypeOK, bounds
  <2>3. DiskInv'
    BY <1>0, <1>1, <2>1, WriteMine
  <2>4. Retained(a)' = Retained(a) /\ ~Full(a)'
    BY <1>1, <2>1, SameRecords DEF Retained, FilesOf
  <2>5. Whole(f)' /\ \A q \in Outputs : q # f => Content(q)' = Content(q)
    BY <1>0, <1>1, <2>1, PutContent DEF Whole
  <2>6. BatchInv(a)'
    BY <1>0, <1>1, <2>1, <2>4, <2>5 DEF BatchInv, Whole
  <2> QED
    BY <1>1, <2>1, <2>2, <2>3, <2>4, <2>5, <2>6, BatchStep DEF bounds
<1>4. ASSUME NEW S \in SUBSET Retained(a), Fail(S) PROVE IInv'
  <2>1. /\ failed' = failed \cup S /\ todo' = todo \ S /\ writing' = writing \ S
        /\ UNCHANGED <<store, vouched, plain, packed, sentinel, built, game, cmd, pc, omitted,
                       batch, fresh, saved, bounds>>
    BY <1>4 DEF Fail, disk
  <2>2. TypeOK'
    BY <1>1, <2>1 DEF TypeOK, bounds
  <2>3. DiskInv'
    BY <1>1, <2>1, SameDisk
  <2>4. Retained(a)' = Retained(a) /\ ~Full(a)'
    BY <1>1, <2>1, SameRecords DEF Retained, FilesOf
  <2>5. \A q : Content(q)' = Content(q)
    BY <2>1, SameContent
  <2>6. BatchInv(a)'
    BY <1>0, <1>1, <2>1, <2>4, <2>5 DEF BatchInv, Whole
  <2> QED
    BY <1>1, <2>1, <2>2, <2>3, <2>4, <2>5, <2>6, BatchStep DEF bounds
<1> QED
  <2>1. mine \in SUBSET Retained(a) /\ \A f \in mine : {f} \in SUBSET Retained(a)
    OBVIOUS
  <2> QED
    BY <1>2, <1>3, <1>4, <2>1 DEF Extract

\* A patch that fails may have removed the form that was there, of a file that then counts as
\* failed.
LEMMA PatchInv ==
  ASSUME IInv, pc = "batches", NEW a \in Archives, Patch(a)
  PROVE  IInv'
<1>0. /\ batch[a] = "extracting"
      /\ UNCHANGED <<store, vouched, sentinel, built, cmd, pc, omitted, batch, writing,
                     fresh, saved, bounds>>
  BY DEF Patch
<1>1. PICK f \in todo \cap Retained(a) \cap Patched :
        /\ todo' = todo \ {f}
        /\ \/ /\ packed' = [packed EXCEPT ![f] = "absent"]
              /\ plain' = [plain EXCEPT ![f] = "whole"]
              /\ game' = Unlinked({f})
              /\ UNCHANGED failed
           \/ /\ packed' \in {packed, [packed EXCEPT ![f] = "absent"]}
              /\ failed' = failed \cup {f}
              /\ UNCHANGED <<plain, game>>
  BY DEF Patch
<1>2. /\ TypeOK /\ PhaseInv /\ DiskInv /\ BatchInv(a)
      /\ ~Full(a)
      /\ Kind[a] # "game" => store[a] = "whole"
      /\ \A q \in Retained(a) : q \in todo \/ q \in failed \/ Whole(q)
      /\ Retained(a) \subseteq FilesOf(a) /\ Retained(a) \subseteq Outputs
      /\ writing \cap Patched = {} /\ writing \subseteq todo
  BY <1>0, Extracting
<1>3. f \in FilesOf(a) /\ f \in Outputs /\ f \notin writing /\ f \notin Inline
  BY <1>1, <1>2, InstallAssumption DEF FilesOf
<1>4. /\ plain' \in [Outputs -> Contents] /\ packed' \in [Outputs -> Contents]
      /\ \A q \in Outputs : q # f => plain'[q] = plain[q] /\ packed'[q] = packed[q]
      /\ plain'[f] = "whole" \/ f \in failed'
  BY <1>1, <1>2, <1>3 DEF TypeOK, Contents
<1>5. game' \in [Outputs -> Contents \cup {"linked"}]
  BY <1>1, <1>2, UnlinkedType DEF TypeOK
<1>6. /\ \A q \in Outputs : q # f => Content(q)' = Content(q) /\ (Whole(q)' <=> Whole(q))
      /\ Whole(f)' \/ f \in failed'
  BY <1>4 DEF Content, Whole
<1>7. TypeOK'
  BY <1>0, <1>1, <1>2, <1>3, <1>4, <1>5 DEF TypeOK, bounds
<1>8. DiskInv'
  <2>1. \A b \in Archives : Full(b)' => Full(b) /\ b # a
    BY <1>0, <1>2, SameRecords
  <2>2. \A b \in Archives : b # a => \A q \in FilesOf(b) : q \in Outputs /\ q # f
    BY <1>3, FilesAreOutputs
  <2>3. EarnedIsWhole'
    BY <1>2, <1>6, <2>1, <2>2, EarnedNext, EarnedByName DEF DiskInv
  <2> QED
    BY <1>0, <1>2, <1>3, <1>4, <2>3, FilesAreOutputs DEF DiskInv
<1>9. Retained(a)' = Retained(a) /\ ~Full(a)'
  BY <1>0, <1>2, SameRecords DEF Retained, FilesOf
<1>10. BatchInv(a)'
  BY <1>0, <1>1, <1>2, <1>6, <1>9 DEF BatchInv
<1> QED
  BY <1>0, <1>1, <1>2, <1>3, <1>6, <1>7, <1>8, <1>9, <1>10, BatchStep DEF bounds

LEMMA SealInv ==
  ASSUME IInv, pc = "batches", NEW a \in Archives, Seal(a)
  PROVE  IInv'
<1>0. /\ batch[a] = "extracting" /\ todo \cap Retained(a) = {}
      /\ UNCHANGED <<store, vouched, plain, packed, built, game, cmd, pc, omitted, todo, writing,
                     fresh, saved, bounds>>
  BY DEF Seal
<1>1. /\ TypeOK /\ PhaseInv /\ DiskInv /\ BatchInv(a)
      /\ ~Full(a)
      /\ \A f \in Retained(a) : f \in failed \/ Whole(f)
      /\ Retained(a) \subseteq Files /\ Retained(a) \subseteq FilesOf(a)
      /\ Retained(a) \subseteq Outputs
      /\ writing \cap Patched = {}
  BY <1>0, Extracting
<1>2. Retained(a)' = Retained(a) /\ FilesOf(a)' = FilesOf(a)
  BY <1>0 DEF Retained, FilesOf
<1>3. \A o : Content(o)' = Content(o) /\ (Whole(o)' <=> Whole(o))
  BY <1>0, SameContent
<1>4. CASE /\ failed \cap Retained(a) = {}
           /\ sentinel' = [sentinel EXCEPT ![a] = [files |-> Retained(a), adopted |-> FALSE]]
           /\ Advance(a, "pruning")
           /\ UNCHANGED failed
  <2>1. \A f \in Retained(a) : Whole(f)
    BY <1>1, <1>4
  <2>2. \A b \in Archives \ {a} : batch'[b] = batch[b] /\ sentinel'[b] = sentinel[b]
    BY <1>1, <1>4 DEF TypeOK, Advance
  <2>3. batch'[a] = "pruning" /\ sentinel'[a] = [files |-> Retained(a), adopted |-> FALSE]
    BY <1>1, <1>4 DEF TypeOK, Advance
  <2>4. TypeOK'
    <3> DEFINE Records == [files : SUBSET Files, adopted : BOOLEAN] \cup {None}
    <3>1. [files |-> Retained(a), adopted |-> FALSE] \in Records
      BY <1>1
    <3>2. sentinel \in [Archives -> Records]
      BY <1>1 DEF TypeOK
    <3> HIDE DEF Records
    <3>3. sentinel' \in [Archives -> Records]
      BY <1>4, <3>1, <3>2
    <3>4. batch' \in [Archives -> {"waiting", "downloading", "extracting", "pruning", "done"}]
      BY <1>1, <1>4 DEF TypeOK, Advance
    <3> QED
      BY <1>0, <1>1, <1>4, <3>3, <3>4 DEF TypeOK, bounds, Records
  <2>5. Full(a)' => Retained(a) = FilesOf(a)
    BY <1>2, <2>3 DEF Full
  <2>6. \A b \in Archives : b # a /\ Full(b)' => Full(b)
    BY <2>2 DEF Full, FilesOf
  <2>7. EarnedIsWhole'
    BY <1>1, <1>3, <2>1, <2>5, <2>6, EarnedNext, EarnedByName DEF DiskInv
  <2>8. DiskInv'
    BY <1>0, <1>1, <2>7 DEF DiskInv
  <2>9. BatchInv(a)'
    BY <1>0, <1>2, <1>3, <2>1, <2>3 DEF BatchInv
  <2> QED
    BY <1>0, <1>1, <1>2, <1>3, <1>4, <2>2, <2>4, <2>5, <2>8, <2>9, BatchStep DEF bounds
<1>5. CASE /\ failed' = failed \cup Retained(a)
           /\ Advance(a, "done")
           /\ UNCHANGED sentinel
  <2>1. batch' \in [Archives -> {"waiting", "downloading", "extracting", "pruning", "done"}]
    BY <1>1, <1>5 DEF TypeOK, Advance
  <2>2. TypeOK'
    BY <1>0, <1>1, <1>5, <2>1 DEF TypeOK, bounds
  <2>3. batch'[a] = "done" /\ \A b \in Archives \ {a} : batch'[b] = batch[b]
    BY <1>1, <1>5 DEF TypeOK, Advance
  <2>4. DiskInv'
    BY <1>0, <1>1, <1>5, SameDisk
  <2>5. BatchInv(a)'
    BY <1>0, <1>2, <1>5, <2>3 DEF BatchInv
  <2>6. ~Full(a)'
    BY <1>1, <1>5, SameRecords
  <2> QED
    BY <1>0, <1>1, <1>2, <1>3, <1>5, <2>2, <2>3, <2>4, <2>5, <2>6, BatchStep DEF bounds
<1> QED
  BY <1>4, <1>5 DEF Seal

LEMMA PruneInv ==
  ASSUME IInv, pc = "batches", NEW a \in Archives, Prune(a)
  PROVE  IInv'
<1>0. /\ batch[a] = "pruning" /\ Advance(a, "done")
      /\ UNCHANGED <<plain, packed, sentinel, built, game, cmd, pc, omitted, todo, writing, failed,
                     fresh, saved, bounds>>
      /\ \/ UNCHANGED <<store, vouched>>
         \/ store' = [store EXCEPT ![a] = "absent"] /\ vouched' = vouched \ {a}
  BY DEF Prune
<1>1. TypeOK /\ PhaseInv /\ DiskInv /\ BatchInv(a)
  BY DEF IInv
<1>2. /\ batch' \in [Archives -> {"waiting", "downloading", "extracting", "pruning", "done"}]
      /\ batch'[a] = "done" /\ \A b \in Archives \ {a} : batch'[b] = batch[b]
      /\ store' \in [Archives -> {"absent", "partial", "whole"}]
      /\ \A b \in Archives \ {a} : store'[b] = store[b]
  BY <1>0, <1>1 DEF TypeOK, Advance
<1>3. Retained(a)' = Retained(a) /\ (Full(a)' <=> Full(a))
  BY <1>0, SameRecords DEF Retained, FilesOf
<1>4. \A o : Content(o)' = Content(o) /\ (Whole(o)' <=> Whole(o))
  BY <1>0, SameContent
<1>5. TypeOK'
  BY <1>0, <1>1, <1>2 DEF TypeOK, bounds
<1>6. EarnedIsWhole'
  BY <1>0, <1>1, <1>4, EarnedNext, EarnedByName, SameRecords DEF DiskInv
<1>7. DiskInv'
  BY <1>0, <1>1, <1>6 DEF DiskInv, TypeOK
<1>8. BatchInv(a)'
  BY <1>0, <1>1, <1>2, <1>3, <1>4 DEF BatchInv
<1> QED
  BY <1>0, <1>1, <1>2, <1>3, <1>4, <1>5, <1>7, <1>8, BatchStep DEF bounds, PhaseInv

\* When all workers are done nothing is left to do, and a command that goes on only without
\* failures has made everything, but for what it was told is there.
LEMMA BatchPassInv == IInv /\ BatchPass => IInv'
<1> SUFFICES ASSUME IInv, BatchPass, ~Stop PROVE IInv'
  BY StopInv
<1>1. ASSUME NEW a \in Archives,
             Trust(a) \/ Download(a) \/ Extract(a) \/ Patch(a) \/ Seal(a) \/ Prune(a)
      PROVE  IInv'
  BY <1>1, TrustInv, DownloadInv, ExtractInv, PatchInv, SealInv, PruneInv DEF BatchPass
<1>2. CASE /\ \A a \in Archives : batch[a] = "done"
           /\ failed = {} \/ cmd.goOn
           /\ pc' = "bsa"
           /\ todo' = Bsas \ omitted
           /\ UNCHANGED <<disk, cmd, omitted, batch, writing, failed, fresh, saved, bounds>>
  <2>0. pc = "batches" /\ \A a \in Archives : BatchInv(a)
    BY DEF BatchPass, IInv
  <2>1. \A f \in Files \ omitted : From[f] \in Archives /\ f \in Retained(From[f])
    BY FilesAreOutputs DEF Retained
  <2>2. \A f \in Files \ omitted : f \notin todo /\ (f \in failed \/ Whole(f) \/ Bad(From[f]))
    BY <1>2, <2>0, <2>1 DEF BatchInv
  <2>3. todo = {} /\ writing = {}
    BY <2>0, <2>2 DEF IInv, PhaseInv, TypeOK
  <2>4. TypeOK'
    BY <1>2, <2>3, FilesAreOutputs DEF IInv, TypeOK, disk, bounds
  <2>5. PhaseInv'
    BY <1>2, <2>0, <2>3 DEF IInv, PhaseInv
  <2>6. DiskInv'
    BY <1>2, SameDisk DEF IInv, disk
  <2>7. CleanInv'
    <3> SUFFICES ASSUME ~cmd.goOn
                 PROVE  /\ \A o \in Inline \ omitted : Whole(o)'
                        /\ \A f \in Files \ omitted : Whole(f)' \/ Bad(From[f])'
      BY <1>2 DEF CleanInv
    <3>1. failed = {}
      BY <1>2
    <3> QED
      BY <1>2, <2>0, <2>2, <3>1, SameContent, SameRecords DEF IInv, InlineInv, disk
  <2>8. PlanInv' /\ InlineInv' /\ DeployInv'
    BY <1>2 DEF PlanInv, InlineInv, DeployInv
  <2> QED
    BY <1>2, <2>4, <2>5, <2>6, <2>7, <2>8 DEF IInv
<1> QED
  BY <1>1, <1>2 DEF BatchPass

-----------------------------------------------------------------------------
(* The passes after the batches.                                           *)

\* What a step that touches no file a record or the command vouches for has to show.
LEMMA LaterStep ==
  ASSUME IInv, pc \in {"bsa", "compress"}, pc' = pc,
         UNCHANGED <<cmd, omitted, batch, fresh, store, vouched, sentinel>>,
         TypeOK', PhaseInv',
         \A o \in Files \cup Inline : Content(o)' = Content(o),
         \A o \in Inline \cap Large : plain'[o] = "absent"
  PROVE  IInv'
<1>1. \A o \in Files \cup Inline : Whole(o)' <=> Whole(o)
  BY DEF Whole
<1>2. \A a : (Full(a)' <=> Full(a)) /\ (Bad(a)' <=> Bad(a))
  BY SameRecords
<1>3. EarnedIsWhole'
  BY <1>1, <1>2, EarnedNext, EarnedByName, FilesAreOutputs DEF IInv, DiskInv
<1>4. DiskInv'
  BY <1>3 DEF IInv, DiskInv
<1>5. CleanInv'
  BY <1>1, <1>2 DEF IInv, CleanInv, AfterBatches
<1>6. PlanInv' /\ InlineInv' /\ DeployInv'
  BY DEF PlanInv, InlineInv, DeployInv
<1> QED
  BY <1>4, <1>5, <1>6 DEF IInv

LEMMA BsaPassInv == IInv /\ BsaPass => IInv'
<1> SUFFICES ASSUME IInv, BsaPass, ~Stop PROVE IInv'
  BY StopInv
<1>0. /\ pc = "bsa" /\ TypeOK /\ PhaseInv /\ DiskInv /\ todo \subseteq Bsas /\ writing \subseteq todo
      /\ \A b \in Bsas : b \in Outputs /\ b \notin Files /\ b \notin Inline
      /\ {"torn", "whole", "hollow"} \subseteq Contents \ {"absent"}
  BY FilesAreOutputs, InstallAssumption DEF BsaPass, IInv, PhaseInv, TypeOK, Contents
<1>1. ASSUME NEW b \in todo,
             todo' = todo \ {b}, writing' \subseteq writing \ {b}, failed' \subseteq failed \cup {b},
             UNCHANGED <<disk, cmd, pc, omitted, batch, fresh, saved, bounds>>
      PROVE  IInv'
  <2>1. TypeOK'
    BY <1>0, <1>1 DEF TypeOK, disk, bounds
  <2>2. PhaseInv'
    BY <1>0, <1>1 DEF PhaseInv
  <2> QED
    BY <1>0, <1>1, <2>1, <2>2, SameContent, LaterStep DEF disk, DiskInv
<1>2. ASSUME NEW b \in todo, Open(b) PROVE IInv'
  <2>1. /\ writing' = writing \cup {b} /\ Put(b, "torn")
        /\ UNCHANGED <<store, vouched, sentinel, built, game, cmd, pc, omitted, batch, todo, failed,
                       fresh, saved, bounds>>
    BY <1>2 DEF Open
  <2>2. TypeOK'
    BY <1>0, <2>1, PutContent DEF TypeOK, bounds
  <2>3. PhaseInv'
    BY <1>0, <2>1 DEF PhaseInv
  <2> QED
    BY <1>0, <2>1, <2>2, <2>3, PutContent, FilesAreOutputs, LaterStep
<1>3. ASSUME NEW b \in todo, CloseBsa(b) PROVE IInv'
  <2>1. /\ writing' = writing \ {b} /\ todo' = todo \ {b}
        /\ plain' = [plain EXCEPT ![b] = BsaContent(b)]
        /\ built' = [built EXCEPT ![b] = "earned"]
        /\ UNCHANGED <<store, vouched, packed, sentinel, game, cmd, pc, omitted, batch, failed,
                       fresh, saved, bounds>>
    BY <1>3 DEF CloseBsa
  <2>2. BsaContent(b) \in Contents
    BY DEF BsaContent, Contents
  <2>3. TypeOK'
    BY <1>0, <2>1, <2>2 DEF TypeOK, bounds
  <2>4. PhaseInv'
    BY <1>0, <2>1 DEF PhaseInv
  <2>5. \A o \in Files \cup Inline : plain'[o] = plain[o]
    BY <1>0, <2>1 DEF TypeOK
  <2>6. \A o \in Files \cup Inline : Content(o)' = Content(o)
    BY <2>1, <2>5 DEF Content
  <2> QED
    BY <1>0, <2>1, <2>3, <2>4, <2>5, <2>6, LaterStep DEF DiskInv
<1>4. CASE /\ todo = {}
           /\ pc' = "compress"
           /\ todo' = {o \in Large : plain[o] # "absent"}
           /\ UNCHANGED <<disk, cmd, omitted, batch, writing, failed, fresh, saved, bounds>>
  <2>1. TypeOK'
    BY <1>0, <1>4, InstallAssumption DEF TypeOK, disk, bounds
  <2>2. PhaseInv'
    BY <1>0, <1>4 DEF PhaseInv, disk
  <2>3. DiskInv'
    BY <1>0, <1>4, SameDisk DEF disk
  <2>4. CleanInv'
    BY <1>0, <1>4, SameContent, SameRecords DEF IInv, CleanInv, AfterBatches, disk
  <2>5. PlanInv' /\ InlineInv' /\ DeployInv'
    BY <1>4 DEF PlanInv, InlineInv, DeployInv
  <2> QED
    BY <1>4, <2>1, <2>2, <2>3, <2>4, <2>5 DEF IInv
<1>5. ASSUME NEW b \in todo, Fail({b}) PROVE IInv'
  BY <1>1, <1>5 DEF Fail
<1>6. ASSUME NEW b \in todo, writing = {}, todo' = todo \ {b},
             UNCHANGED <<disk, cmd, pc, omitted, batch, writing, failed, fresh, saved, bounds>>
      PROVE  IInv'
  BY <1>1, <1>6
<1> QED
  BY <1>2, <1>3, <1>4, <1>5, <1>6 DEF BsaPass

\* Compression leaves the content of every output what it was.
LEMMA CompressContent ==
  ASSUME IInv, pc = "compress", NEW o \in todo, Compress(o)
  PROVE  /\ plain' \in [Outputs -> Contents] /\ packed' \in [Outputs -> Contents]
         /\ \A q \in Outputs : Content(q)' = Content(q)
         /\ \A q \in Outputs : q # o => plain'[q] = plain[q]
         /\ plain'[o] \in {plain[o], "absent"}
<1>1. TypeOK /\ o \in Outputs /\ plain[o] # "absent"
  BY DEF IInv, PhaseInv, TypeOK
<1>2. CASE packed' = [packed EXCEPT ![o] = "torn"] /\ UNCHANGED plain
  BY <1>1, <1>2 DEF TypeOK, Content, Contents
<1>3. CASE packed' = [packed EXCEPT ![o] = plain[o]] /\ UNCHANGED plain
  BY <1>1, <1>3 DEF TypeOK, Content, Contents
<1>4. CASE packed[o] = plain[o] /\ plain' = [plain EXCEPT ![o] = "absent"] /\ UNCHANGED packed
  BY <1>1, <1>4 DEF TypeOK, Content, Contents
<1> QED
  BY <1>2, <1>3, <1>4 DEF Compress

LEMMA CompressPassInv == IInv /\ CompressPass => IInv'
<1> SUFFICES ASSUME IInv, CompressPass, ~Stop PROVE IInv'
  BY StopInv
<1>0. pc = "compress" /\ TypeOK /\ PhaseInv /\ DiskInv
  BY DEF CompressPass, IInv
<1>1. ASSUME NEW o \in todo, Compress(o) PROVE IInv'
  <2>1. /\ UNCHANGED <<store, vouched, sentinel, built, cmd, pc, omitted, batch, failed,
                       fresh, saved, bounds>>
        /\ todo' \subseteq todo /\ writing' \subseteq todo'
        /\ o \in todo' => plain' = plain
        /\ game' \in {game, Unlinked({o})}
    BY <1>0, <1>1 DEF Compress, TypeOK
  <2>2. /\ plain' \in [Outputs -> Contents] /\ packed' \in [Outputs -> Contents]
        /\ \A q \in Outputs : Content(q)' = Content(q)
        /\ \A q \in Outputs : q # o => plain'[q] = plain[q]
        /\ plain'[o] \in {plain[o], "absent"}
    BY <1>0, <1>1, CompressContent
  <2>3. game' \in [Outputs -> Contents \cup {"linked"}]
    BY <1>0, <2>1, UnlinkedType DEF TypeOK
  <2>4. TypeOK'
    BY <1>0, <2>1, <2>2, <2>3 DEF TypeOK, bounds
  <2>5. PhaseInv'
    BY <1>0, <2>1, <2>2 DEF PhaseInv, TypeOK
  <2>6. \A q \in Inline \cap Large : plain'[q] = "absent"
    BY <1>0, <2>2, FilesAreOutputs DEF DiskInv
  <2> QED
    BY <1>0, <2>1, <2>2, <2>4, <2>5, <2>6, FilesAreOutputs, LaterStep
<1>2. CASE /\ todo = {}
           /\ pc' = "validate"
           /\ fresh' = TRUE
           /\ UNCHANGED <<disk, cmd, omitted, batch, todo, writing, failed, saved, bounds>>
  <2>1. TypeOK'
    BY <1>0, <1>2 DEF TypeOK, disk, bounds
  <2>2. PhaseInv'
    BY <1>0, <1>2 DEF PhaseInv, TypeOK
  <2>3. DiskInv'
    BY <1>0, <1>2, SameDisk DEF disk
  <2>4. CleanInv'
    BY <1>0, <1>2, SameContent, SameRecords DEF IInv, CleanInv, AfterBatches, disk
  <2>5. PlanInv' /\ InlineInv' /\ DeployInv'
    BY <1>2 DEF PlanInv, InlineInv, DeployInv
  <2> QED
    BY <1>2, <2>1, <2>2, <2>3, <2>4, <2>5 DEF IInv
<1> QED
  BY <1>1, <1>2 DEF CompressPass

LEMMA ValidateInv == IInv /\ Validate => IInv'
<1> SUFFICES ASSUME IInv, Validate, ~Stop PROVE IInv'
  BY StopInv
<1>1. /\ pc = "validate"
      /\ pc' = IF cmd.deploy THEN "deploy" ELSE "save"
      /\ todo' = IF cmd.deploy THEN Staged ELSE {}
      /\ UNCHANGED <<disk, cmd, omitted, batch, writing, failed, fresh, saved, bounds>>
  BY DEF Validate
<1>2. writing = {} /\ Staged \subseteq Outputs
  BY <1>1 DEF IInv, PhaseInv, Staged
<1>3. TypeOK'
  BY <1>1, <1>2 DEF IInv, TypeOK, disk, bounds
<1>4. PhaseInv'
  BY <1>1, <1>2 DEF IInv, PhaseInv
<1>5. DiskInv'
  BY <1>1, SameDisk DEF IInv, disk
<1>6. CleanInv'
  BY <1>1, SameContent, SameRecords DEF IInv, CleanInv, AfterBatches, disk
<1>7. DeployInv'
  <2> SUFFICES ASSUME cmd.deploy, NEW o \in Outputs, Mod[o] # None, Exists(o)'
               PROVE  o \in todo'
    BY <1>1 DEF DeployInv
  <2>1. Exists(o)
    BY <1>1, SameContent DEF disk
  <2> QED
    BY <1>1, <2>1 DEF Staged
<1>8. PlanInv' /\ InlineInv' /\ pc' # "batches"
  BY <1>1 DEF PlanInv, InlineInv
<1> QED
  BY <1>3, <1>4, <1>5, <1>6, <1>7, <1>8 DEF IInv

\* One file after the other comes to be what is staged.
LEMMA DeployPassInv == IInv /\ DeployPass => IInv'
<1> SUFFICES ASSUME IInv, DeployPass PROVE IInv'
  OBVIOUS
<1>0. /\ pc = "deploy" /\ TypeOK /\ PhaseInv /\ DiskInv /\ writing = {}
      /\ UNCHANGED <<store, vouched, plain, packed, sentinel, built, saved, bounds>>
  BY DEF DeployPass, IInv, PhaseInv
<1>1. \A o : Content(o)' = Content(o) /\ (Exists(o)' <=> Exists(o)) /\ (Whole(o)' <=> Whole(o))
  BY <1>0, SameContent
<1>2. ASSUME NEW o \in todo,
             game' \in {[game EXCEPT ![o] = c] :
                            c \in {Content(o)} \cup IF plain[o] # "absent" THEN {"linked"} ELSE {}},
             todo' = todo \ {o},
             UNCHANGED <<cmd, pc, omitted, batch, writing, failed, fresh>>
      PROVE  IInv'
  <2>1. o \in Outputs /\ Content(o) \in Contents
    BY <1>0 DEF TypeOK, Content
  <2>2. /\ game' \in [Outputs -> Contents \cup {"linked"}]
        /\ game'[o] = Content(o) \/ (game'[o] = "linked" /\ plain[o] # "absent")
        /\ \A q \in Outputs : q # o => game'[q] = game[q]
    BY <1>0, <1>2, <2>1 DEF TypeOK
  <2>3. TypeOK'
    BY <1>0, <1>2, <2>2 DEF TypeOK, bounds
  <2>4. PhaseInv'
    BY <1>0, <1>2 DEF PhaseInv
  <2>5. DiskInv'
    BY <1>0, SameDisk
  <2>6. CleanInv'
    BY <1>0, <1>1, <1>2, SameRecords DEF IInv, CleanInv, AfterBatches
  <2>7. Played(o)' = Content(o)
    BY <1>0, <2>1, <2>2 DEF Played, Content, Contents
  <2>8. \A q \in Outputs : q # o => Played(q)' = Played(q)
    BY <1>0, <2>2 DEF Played
  <2>9. DeployInv'
    BY <1>0, <1>1, <1>2, <2>7, <2>8 DEF IInv, DeployInv
  <2>10. PlanInv' /\ InlineInv' /\ pc' # "batches"
    BY <1>0, <1>2 DEF PlanInv, InlineInv
  <2> QED
    BY <2>3, <2>4, <2>5, <2>6, <2>9, <2>10 DEF IInv
<1>3. ASSUME Stopped, game' \in [Outputs -> Contents \cup {"linked"}] PROVE IInv'
  BY <1>0, <1>3, StoppedInv DEF bounds, TypeOK
<1>4. ASSUME NEW o \in todo, NEW c \in {"torn", "absent"}, game' = [game EXCEPT ![o] = c]
      PROVE  game' \in [Outputs -> Contents \cup {"linked"}]
  BY <1>0, <1>4 DEF TypeOK, Contents
<1>5. CASE /\ todo = {}
           /\ pc' = "save"
           /\ UNCHANGED <<game, cmd, omitted, batch, todo, writing, failed, fresh>>
  <2>1. TypeOK'
    BY <1>0, <1>5 DEF TypeOK, bounds
  <2>2. PhaseInv'
    BY <1>0, <1>5 DEF PhaseInv
  <2>3. DiskInv'
    BY <1>0, SameDisk
  <2>4. CleanInv'
    BY <1>0, <1>1, <1>5, SameRecords DEF IInv, CleanInv, AfterBatches
  <2>5. \A q : Played(q)' = Played(q)
    BY <1>0, <1>5 DEF Played
  <2>6. DeployInv'
    BY <1>0, <1>1, <1>5, <2>5 DEF IInv, DeployInv
  <2>7. PlanInv' /\ InlineInv' /\ pc' # "batches"
    BY <1>5 DEF PlanInv, InlineInv
  <2> QED
    BY <2>1, <2>2, <2>3, <2>4, <2>6, <2>7 DEF IInv
<1>6. UNCHANGED game => game' \in [Outputs -> Contents \cup {"linked"}]
  BY <1>0 DEF TypeOK
<1> QED
  BY <1>2, <1>3, <1>4, <1>5, <1>6 DEF DeployPass

LEMMA ImportInv ==
  ASSUME NEW a \in Archives, IInv, Import(a)
  PROVE  IInv'
<1>0. /\ pc = "idle" /\ TypeOK /\ PhaseInv /\ DiskInv
      /\ UNCHANGED <<plain, packed, sentinel, built, game, cmd, pc, omitted, batch, todo, writing,
                     failed, fresh, saved, runs>>
      /\ vouched' = vouched \ {a}
  BY DEF Import, IInv, command
<1>1. PICK content \in {"partial", "whole"} :
        /\ content = "partial" => crashes < MaxCrashes
        /\ crashes' = IF content = "partial" THEN crashes + 1 ELSE crashes
        /\ store' = [store EXCEPT ![a] = content]
  BY DEF Import
<1>2. crashes' \in 0..MaxCrashes
  BY <1>0, <1>1, InstallAssumption DEF TypeOK
<1>3. TypeOK'
  BY <1>0, <1>1, <1>2 DEF TypeOK
<1>4. PhaseInv'
  BY <1>0 DEF PhaseInv
<1>5. EarnedIsWhole'
  BY <1>0, SameContent, SameRecords, EarnedNext, EarnedByName DEF DiskInv
<1>6. DiskInv'
  BY <1>0, <1>1, <1>5 DEF DiskInv, TypeOK
<1>7. PlanInv' /\ InlineInv' /\ CleanInv' /\ DeployInv' /\ pc' # "batches"
  BY <1>0 DEF PlanInv, InlineInv, CleanInv, AfterBatches, DeployInv
<1> QED
  BY <1>3, <1>4, <1>6, <1>7 DEF IInv

-----------------------------------------------------------------------------
(* The theorems.                                                           *)

LEMMA StutterInv == IInv /\ UNCHANGED vars => IInv'
<1> SUFFICES ASSUME IInv, UNCHANGED vars PROVE IInv'
  OBVIOUS
<1>0. /\ UNCHANGED <<store, vouched, plain, packed, sentinel, built, game>>
      /\ UNCHANGED <<cmd, pc, omitted, batch, todo, writing, failed, fresh, saved, runs, crashes>>
  BY DEF vars, disk, command, bounds
<1>1. TypeOK' /\ PhaseInv'
  BY <1>0 DEF IInv, TypeOK, PhaseInv
<1>2. \A o : /\ Content(o)' = Content(o) /\ (Exists(o)' <=> Exists(o)) /\ (Whole(o)' <=> Whole(o))
             /\ Played(o)' = Played(o)
  BY <1>0, SameContent DEF Played
<1>3. \A a : /\ (Full(a)' <=> Full(a)) /\ (Bad(a)' <=> Bad(a))
             /\ Retained(a)' = Retained(a) /\ FilesOf(a)' = FilesOf(a)
  BY <1>0, SameRecords DEF Retained, FilesOf
<1>4. DiskInv'
  BY <1>0, SameDisk DEF IInv
<1>5. PlanInv' /\ InlineInv'
  BY <1>0, <1>2, <1>3 DEF IInv, PlanInv, InlineInv
<1>6. CleanInv'
  BY <1>0, <1>2, <1>3 DEF IInv, CleanInv, AfterBatches
<1>7. DeployInv'
  BY <1>0, <1>2 DEF IInv, DeployInv
<1>8. pc = "batches" => \A a \in Archives : BatchInv(a)'
  BY <1>0, <1>2, <1>3 DEF IInv, BatchInv
<1> QED
  BY <1>0, <1>1, <1>4, <1>5, <1>6, <1>7, <1>8 DEF IInv

LEMMA NextInv == IInv /\ [Next]_vars => IInv'
<1> SUFFICES ASSUME IInv, [Next]_vars PROVE IInv'
  OBVIOUS
<1>1. CASE Step
  BY <1>1, PlanStepInv, InlinePassInv, BatchPassInv, BsaPassInv, CompressPassInv, ValidateInv,
     DeployPassInv, SaveInv DEF Step
<1>2. CASE Crash
  BY <1>2, CrashInv
<1>3. ASSUME NEW c \in Commands, Begin(c) PROVE IInv'
  BY <1>3, BeginInv
<1>4. ASSUME NEW a \in Archives, Import(a) PROVE IInv'
  BY <1>4, ImportInv
<1>5. CASE UNCHANGED vars
  BY <1>5, StutterInv
<1> QED
  BY <1>1, <1>2, <1>3, <1>4, <1>5 DEF Next

\* The inductive invariant holds in every state of every behaviour.
THEOREM Invariance == Spec => []IInv
  BY InitInv, NextInv, PTL DEF Spec

\* The types of what is on disk, of the command and of its workers.
THEOREM TypeCorrect == Spec => []TypeOK
<1>1. IInv => TypeOK
  BY DEF IInv
<1> QED
  BY <1>1, Invariance, PTL

\* Whatever downloads and imports end in, files are only taken from an archive whose bytes are
\* those of its hash (trust.rs:12-33).
THEOREM ExtractsOnlyWhole == Spec => []ExtractsWhole
<1>1. IInv => ExtractsWhole
  BY DEF IInv, ExtractsWhole, PhaseInv, BatchInv
<1> QED
  BY <1>1, Invariance, PTL

\* A record of a complete batch is true for as long as it is on disk, whatever commands, failures
\* and deaths come after it (architecture.md:469).
THEOREM RecordsStayTrue == Spec => []EarnedIsWhole
<1>1. IInv => EarnedIsWhole
  BY DEF IInv, DiskInv
<1> QED
  BY <1>1, Invariance, PTL

\* A command that stops at failures and relied on no record but true ones reaches deployment
\* with every output whole that it does not leave out (install.rs:323-335).
THEOREM CleanRuns == Spec => []CleanRunIsWhole
<1>1. ASSUME IInv PROVE CleanRunIsWhole
  <2> SUFFICES ASSUME pc \in {"deploy", "save"}, fresh, ~cmd.goOn,
                      \A a \in Archives : sentinel[a] # None =>
                          ~sentinel[a].adopted /\ sentinel[a].files = FilesOf(a),
                      NEW o \in (Files \cup Inline) \ omitted
               PROVE  Whole(o)
    BY DEF CleanRunIsWhole, Whole
  <2>1. o \in Files => ~Bad(From[o])
    BY FilesAreOutputs DEF Bad
  <2> QED
    BY <1>1, <2>1 DEF IInv, CleanInv, AfterBatches
<1> QED
  BY <1>1, Invariance, PTL

\* After deployment the game reads what is staged in a mod's place (runner.rs:376-450).
THEOREM DeploymentIsStaged == Spec => []DeployedIsStaged
<1>1. IInv => DeployedIsStaged
  BY DEF IInv, DeployInv, PhaseInv, DeployedIsStaged
<1> QED
  BY <1>1, Invariance, PTL

\* An archive leaves the store only when its wanted outputs are whole (wabbajack.md:214).
THEOREM PruningKeepsOutputs == Spec => PruneKeepsOutputs
<1> DEFINE Kept == \A a \in Archives : store[a] = "whole" /\ store'[a] = "absent"
                       => \A f \in Retained(a) : Content(f) = "whole"
<1>1. ASSUME IInv, [Next]_vars PROVE Kept
  <2> SUFFICES ASSUME NEW a \in Archives, store[a] = "whole", store'[a] = "absent",
                      NEW f \in Retained(a)
               PROVE  Content(f) = "whole"
    OBVIOUS
  <2>0. store \in [Archives -> {"absent", "partial", "whole"}]
    BY <1>1 DEF IInv, TypeOK
  <2>1. ~UNCHANGED store
    BY <2>0
  <2>2. ~UNCHANGED disk /\ ~Stop /\ ~UNCHANGED vars
    BY <2>1 DEF disk, Stop, vars
  <2>3. \A b \in Archives : ~Import(b)
    BY <2>0 DEF Import
  <2>4. \A c \in Commands : ~Begin(c)
    BY <2>1 DEF Begin
  <2>5. BatchPass
    BY <1>1, <2>1, <2>2, <2>3, <2>4
    DEF Next, Step, Crash, Plan, InlinePass, Open, Close, Fail, BsaPass, CloseBsa, CompressPass,
        Compress, Validate, DeployPass, Save
  <2>6. PICK b \in Archives : Trust(b) \/ Download(b) \/ Prune(b)
    BY <2>1, <2>2, <2>5 DEF BatchPass, Extract, Open, Close, Fail, Patch, Seal
  <2>7. pc = "batches" /\ BatchInv(b)
    BY <1>1, <2>5 DEF BatchPass, IInv
  <2>8. ~Trust(b)
    BY <2>0 DEF Trust
  <2>9. ~Download(b)
    BY <2>0, <2>7 DEF Download, BatchInv
  <2>10. Prune(b) /\ b = a
    BY <2>0, <2>6, <2>8, <2>9 DEF Prune
  <2> QED
    BY <2>7, <2>10 DEF BatchInv, Prune, Whole
<1>2. IInv /\ [Next]_vars => [Kept]_vars
  BY <1>1
<1> QED
  BY <1>2, Invariance, PTL DEF Spec, PruneKeepsOutputs

\* Compression never changes what a reader of an output gets (staging.rs:230-234).
THEOREM CompressionKeepsContent == Spec => CompressKeepsContent
<1> DEFINE Same == pc = "compress" => \A o \in Outputs : Content(o)' = Content(o)
<1>1. ASSUME IInv, [Next]_vars PROVE Same
  <2> SUFFICES ASSUME pc = "compress", ~(UNCHANGED <<plain, packed>>)
               PROVE  \A o \in Outputs : Content(o)' = Content(o)
    BY SameContent
  <2>1. ~Stop /\ ~UNCHANGED disk /\ ~UNCHANGED vars
    BY DEF Stop, disk, vars
  <2>2. PICK o \in todo : Compress(o)
    BY <1>1, <2>1 DEF Next, Step, Crash, Begin, Import, Plan, InlinePass, BatchPass, BsaPass,
       CompressPass, Validate, DeployPass, Save
  <2> QED
    BY <1>1, <2>2, CompressContent
<1>2. IInv /\ [Next]_vars => [Same]_vars
  BY <1>1
<1> QED
  BY <1>2, Invariance, PTL DEF Spec, CompressKeepsContent
=============================================================================
