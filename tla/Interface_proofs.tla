---------------------------- MODULE Interface_proofs ----------------------------
(***************************************************************************)
(* Theorems about Interface for any games, profiles and jobs, and answers  *)
(* in any order.                                                           *)
(*                                                                         *)
(* What is shown is right because of what an answer that still counts must *)
(* be: a job of the present generation was started for the selected game,  *)
(* or the dialog is open, and every way to close it counts on or leaves no *)
(* game selected.                                                          *)
(***************************************************************************)
EXTENDS Interface, TLAPS

Replies == [ok : BOOLEAN, previous : Names \cup {None}]

ContextJob == [kind : {"context"}, gen : Nat, request : Request,
               answer : Loads \cup {Failed, None}]
WriteJob == [kind : {"write"}, gen : Nat,
             op : {"edit", "lock", "create", "fork", "delete", "try", "rollback", "commit"},
             name : Names \cup {None}, game : Games \cup {None}, source : Names \cup {None},
             read : Profiles \cup {None}, answer : Replies \cup {None}]
ReportJob == [kind : {"data", "diagnostics"}, gen : Nat, of : Versions]
OtherJob == [kind : {"tools"}, gen : Nat, game : Games] \cup [kind : {"folder"}, game : Games]
            \cup [kind : {"file"}]

\* Everything but the jobs
ModelTypes ==
    /\ stored \in [Profiles -> Nat] /\ clock \in Nat
    /\ current \in [Games -> Profiles \cup {None}]
    /\ selected \in Games \cup {None} /\ active \in Names \cup {None}
    /\ loaded \in Versions \cup {None} /\ conflicts \in Versions \cup {None}
    /\ listed \subseteq Profiles /\ paths \subseteq Games
    /\ dialog \in [game : Games, previous : Games \cup {None}] \cup {None}
    /\ view \in {"diagnostics", "other"}
    /\ diagnostics \in Report
    /\ tools \in Games \cup {None} /\ toolsLoading \in BOOLEAN
    /\ contextGen \in Nat /\ dataGen \in Nat /\ diagGen \in Nat /\ toolGen \in Nat

\* A version that was read: the row is not older, if it is there.
Seen(v) == v.version <= clock /\ (stored[v.profile] = 0 \/ v.version <= stored[v.profile])

OfSelected(v) == v = None \/ v.profile.game = selected

\* What a load that still counts was asked, and found.
ContextInv(j) ==
    /\ j.gen <= contextGen
    /\ j.gen = contextGen /\ Settled => j.request.selected = selected /\ OfSelected(j.request.fallback)
    /\ j.answer \in Loads =>
        LET l == j.answer.loaded IN
        /\ j.answer.conflicts \in {None, l, j.request.fallback}
        /\ l # None =>
            /\ j.request.selected # None => l.profile.game = j.request.selected
            /\ Seen(l)
            /\ j.gen = contextGen /\ loaded # None /\ loaded.profile = l.profile
                => loaded.version <= l.version

\* A new profile is for the game that was selected, which a dialog may have covered since.
WriteInv(j) ==
    /\ j.gen <= contextGen
    /\ j.op = "create" =>
        /\ j.game \in Games
        /\ j.gen = contextGen => j.game = IF dialog = None THEN selected ELSE dialog.previous

ReportInv(j) ==
    LET gen == IF j.kind = "data" THEN dataGen ELSE diagGen
    IN  j.gen <= gen /\ (j.gen = gen /\ Settled => OfSelected(j.of))

JobInv(j) ==
    \/ j \in ContextJob /\ ContextInv(j)
    \/ j \in WriteJob /\ WriteInv(j)
    \/ j \in ReportJob /\ ReportInv(j)
    \/ j \in OtherJob

\* Two loads never have the same generation.
OneLoad == \A j, k \in jobs : j.kind = "context" /\ k.kind = "context" /\ j.gen = k.gen => j = k

ShownInv ==
    /\ \A p \in Profiles : stored[p] <= clock
    /\ loaded # None => Seen(loaded)
    /\ Settled => OfSelected(loaded) /\ OfSelected(conflicts) /\ OfSelected(diagnostics.of)

IInv == ModelTypes /\ ShownInv /\ OneLoad /\ \A j \in jobs : JobInv(j)

-----------------------------------------------------------------------------
(* Jobs *)

\* What the fields of a job are, and that jobs of different kinds are different.
LEMMA ContextFields ==
  ASSUME NEW j \in ContextJob
  PROVE  /\ j.kind = "context" /\ j.gen \in Nat
         /\ j.request \in Request /\ j.answer \in Loads \cup {Failed, None}
  BY DEF ContextJob

LEMMA WriteFields ==
  ASSUME NEW j \in WriteJob
  PROVE  /\ j.kind = "write" /\ j.gen \in Nat
         /\ j.name \in Names \cup {None} /\ j.game \in Games \cup {None}
         /\ j.read \in Profiles \cup {None} /\ j.answer \in Replies \cup {None}
  BY DEF WriteJob

LEMMA ReportFields ==
  ASSUME NEW j \in ReportJob
  PROVE  j.kind \in {"data", "diagnostics"} /\ j.gen \in Nat /\ j.of \in Versions
  BY DEF ReportJob

LEMMA OtherKinds ==
  ASSUME NEW j \in OtherJob
  PROVE  /\ j.kind \in {"tools", "folder", "file"}
         /\ j.kind \in {"tools", "folder"} => j.game \in Games
  BY DEF OtherJob

LEMMA RequestFields ==
  ASSUME NEW r \in Request
  PROVE  /\ r.selected \in Games \cup {None} /\ r.active \in Names \cup {None}
         /\ r.recompute \in BOOLEAN /\ r.rerun \in BOOLEAN
         /\ r.fallback \in Versions \cup {None} /\ r.tools \in Games \cup {None}
  BY DEF Request

LEMMA LoadFields ==
  ASSUME NEW a \in Loads
  PROVE  /\ a.ok = TRUE /\ a.listed \subseteq Profiles /\ a.active \in Names \cup {None}
         /\ a.loaded \in Versions \cup {None} /\ a.keep \in BOOLEAN
         /\ a.conflicts \in Versions \cup {None}
  BY DEF Loads

LEMMA VersionFields ==
  ASSUME NEW v \in Versions
  PROVE  v.profile \in Profiles /\ v.version \in Nat /\ v.profile.game \in Games
  BY InterfaceAssumption DEF Versions

\* Each kind has its own part of the invariant.
LEMMA ByKind ==
  ASSUME NEW j, JobInv(j)
  PROVE  /\ j.kind = "context" => j \in ContextJob /\ ContextInv(j)
         /\ j.kind = "write" => j \in WriteJob /\ WriteInv(j)
         /\ j.kind \in {"data", "diagnostics"} => j \in ReportJob /\ ReportInv(j)
         /\ j.kind \in {"tools", "folder", "file"} => j \in OtherJob
  BY ContextFields, WriteFields, ReportFields, OtherKinds DEF JobInv

\* A job is what it was while the generations count on, what was seen stays seen, and whatever
\* makes another game the selected one counts on.
LEMMA JobKept ==
  ASSUME NEW j, JobInv(j), ModelTypes, ModelTypes',
         contextGen' >= contextGen, dataGen' >= dataGen, diagGen' >= diagGen,
         \A v \in Versions : Seen(v) => Seen(v)',
         Settled' => (Settled /\ selected' = selected)
                       \/ (contextGen' # contextGen /\ dataGen' # dataGen /\ diagGen' # diagGen),
         loaded' \in {loaded, None} \/ contextGen' # contextGen
            \/ j.kind # "context" \/ j.gen # contextGen,
         contextGen' = contextGen =>
            \A g \in Games : g = (IF dialog = None THEN selected ELSE dialog.previous)
                => g = (IF dialog' = None THEN selected' ELSE dialog'.previous)
  PROVE  JobInv(j)'
<1> contextGen \in Nat /\ contextGen' \in Nat /\ dataGen \in Nat /\ dataGen' \in Nat
    /\ diagGen \in Nat /\ diagGen' \in Nat
  BY DEF ModelTypes
<1>1. CASE j \in ContextJob /\ ContextInv(j)
  <2>1. j.gen \in Nat /\ j.kind = "context"
    BY <1>1, ContextFields
  <2>2. (j.gen <= contextGen)'
    BY <1>1, <2>1 DEF ContextInv
  <2>3. (j.gen = contextGen /\ Settled => j.request.selected = selected /\ OfSelected(j.request.fallback))'
    BY <1>1, <2>1 DEF ContextInv, OfSelected
  <2>4. ASSUME j.answer \in Loads
        PROVE  LET l == j.answer.loaded IN
               /\ j.answer.conflicts \in {None, l, j.request.fallback}
               /\ l # None =>
                    /\ j.request.selected # None => l.profile.game = j.request.selected
                    /\ Seen(l)'
                    /\ j.gen = contextGen' /\ loaded' # None /\ loaded'.profile = l.profile
                        => loaded'.version <= l.version
    <3>1. j.answer.loaded \in Versions \cup {None}
      BY <2>4, LoadFields
    <3> QED
      BY <1>1, <2>1, <2>4, <3>1 DEF ContextInv
  <2> QED
    BY <1>1, <2>2, <2>3, <2>4 DEF JobInv, ContextInv
<1>2. CASE j \in WriteJob /\ WriteInv(j)
  <2>1. j.gen \in Nat
    BY <1>2, WriteFields
  <2> QED
    BY <1>2, <2>1 DEF JobInv, WriteInv
<1>3. CASE j \in ReportJob /\ ReportInv(j)
  <2>1. j.gen \in Nat
    BY <1>3, ReportFields
  <2> QED
    BY <1>3, <2>1 DEF JobInv, ReportInv, OfSelected
<1>4. CASE j \in OtherJob
  BY <1>4 DEF JobInv
<1> QED
  BY <1>1, <1>2, <1>3, <1>4 DEF JobInv

-----------------------------------------------------------------------------
(* Starting jobs *)

\* A load leaves every job behind but its own.
LEMMA DispatchInv ==
  ASSUME IInv, ModelTypes', UNCHANGED <<stored, clock>>,
         NEW rest \in SUBSET jobs, NEW request \in Request, Dispatch(rest, request),
         Settled' => /\ request.selected = selected'
                     /\ request.fallback = None \/ request.fallback.profile.game = selected'
  PROVE  OneLoad' /\ \A j \in jobs' : JobInv(j)'
<1> DEFINE new == [kind |-> "context", gen |-> contextGen + 1, request |-> request, answer |-> None]
<1> contextGen \in Nat /\ dataGen \in Nat /\ diagGen \in Nat
  BY DEF IInv, ModelTypes
<1>1. /\ contextGen' = contextGen + 1 /\ dataGen' = dataGen + 1 /\ diagGen' = diagGen + 1
      /\ jobs' = rest \cup {new}
  BY DEF Dispatch
<1>2. ASSUME NEW j \in rest PROVE JobInv(j)'
  <2>1. \A v \in Versions : Seen(v) => Seen(v)'
    BY DEF Seen
  <2>2. contextGen' >= contextGen /\ dataGen' >= dataGen /\ diagGen' >= diagGen
        /\ contextGen' # contextGen /\ dataGen' # dataGen /\ diagGen' # diagGen
    BY <1>1
  <2>3. JobInv(j) /\ ModelTypes
    BY DEF IInv
  <2> QED
    BY <2>1, <2>2, <2>3, JobKept
<1>3. ASSUME NEW j, j = new PROVE JobInv(j)'
  <2>1. j \in ContextJob
    BY <1>3 DEF ContextJob
  <2>2. j.answer \in Loads => FALSE
    BY <1>3, InterfaceAssumption
  <2>3. j.gen = contextGen' /\ j.request = request
    BY <1>1, <1>3
  <2>4. ContextInv(j)'
    BY <2>2, <2>3, <1>1 DEF ContextInv, OfSelected
  <2> QED
    BY <2>1, <2>4 DEF JobInv
<1>4. ASSUME NEW j \in rest, j.kind = "context" PROVE j.gen \in Nat /\ j.gen <= contextGen
  <2>1. j \in ContextJob /\ ContextInv(j)
    BY <1>4, ByKind DEF IInv
  <2> QED
    BY <2>1, ContextFields DEF ContextInv
<1>5. OneLoad'
  <2> SUFFICES ASSUME NEW j \in jobs', NEW k \in jobs', j.kind = "context", k.kind = "context",
                      j.gen = k.gen
               PROVE  j = k
    BY DEF OneLoad
  <2>1. new.gen = contextGen + 1
    OBVIOUS
  <2>2. CASE j \in rest /\ k \in rest
    BY <2>2 DEF IInv, OneLoad
  <2> QED
    BY <1>1, <1>4, <2>1, <2>2
<1> QED
  BY <1>1, <1>2, <1>3, <1>5

\* Another game is selected, and what belonged to the old one forgotten.
LEMMA SwitchContextInv ==
  ASSUME IInv, UNCHANGED database,
         NEW rest \in SUBSET jobs, NEW g \in Games, SwitchContext(rest, g), selected' = g,
         active' \in Names \cup {None}, listed' \subseteq Profiles, paths' \subseteq Games,
         dialog' \in [game : Games, previous : Games \cup {None}] \cup {None},
         view' \in {"diagnostics", "other"}
  PROVE  IInv'
<1> DEFINE request == [selected |-> g, active |-> None, recompute |-> TRUE,
                       fallback |-> None, tools |-> g, rerun |-> FALSE]
<1>1. /\ loaded' = None /\ conflicts' = None /\ diagnostics' = Idle
      /\ Dispatch(rest, request) /\ UNCHANGED <<tools, toolGen>>
  BY DEF SwitchContext
<1>2. request \in Request
  BY DEF Request
<1>3. Idle \in Report /\ Idle.of = None
  BY DEF Idle, Report
<1>4. ModelTypes'
  <2>1. /\ contextGen' \in Nat /\ dataGen' \in Nat /\ diagGen' \in Nat
        /\ toolsLoading' \in BOOLEAN
    BY <1>1 DEF Dispatch, IInv, ModelTypes
  <2> QED
    BY <1>1, <1>3, <2>1 DEF IInv, ModelTypes, database
<1>5. UNCHANGED <<stored, clock>>
  BY DEF database
<1>6. request.selected = g /\ request.fallback = None
  OBVIOUS
<1>7. OneLoad' /\ \A j \in jobs' : JobInv(j)'
  <2> HIDE DEF request
  <2> QED
    BY <1>1, <1>2, <1>4, <1>5, <1>6, DispatchInv DEF OfSelected
<1>8. ShownInv'
  BY <1>1, <1>3, <1>5 DEF IInv, ShownInv, OfSelected
<1> QED
  BY <1>4, <1>7, <1>8 DEF IInv

\* The same profile is read again, and what is shown stays meanwhile.
LEMMA ReloadInv ==
  ASSUME IInv, UNCHANGED <<database, loaded, conflicts, diagnostics, tools, dialog>>,
         NEW rest \in SUBSET jobs, NEW recompute \in BOOLEAN, NEW rerun \in BOOLEAN,
         Reload(rest, recompute, rerun),
         selected' \in Games \cup {None}, active' \in Names \cup {None},
         listed' \subseteq Profiles, paths' \subseteq Games, view' \in {"diagnostics", "other"},
         Settled' => Settled /\ selected' = selected
  PROVE  IInv'
<1> DEFINE request == [selected |-> selected', active |-> active', recompute |-> recompute,
                       fallback |-> loaded', tools |-> GameOf(loaded', selected'), rerun |-> rerun]
<1>1. Dispatch(rest, request) /\ UNCHANGED toolGen
  BY DEF Reload
<1>2. request \in Request
  <2>1. loaded' \in Versions \cup {None}
    BY DEF IInv, ModelTypes
  <2>2. GameOf(loaded', selected') \in Games \cup {None}
    BY <2>1, VersionFields DEF GameOf
  <2> QED
    BY <2>1, <2>2 DEF Request
<1>4. ModelTypes'
  <2>1. /\ contextGen' \in Nat /\ dataGen' \in Nat /\ diagGen' \in Nat
        /\ toolsLoading' \in BOOLEAN
    BY <1>1 DEF Dispatch, IInv, ModelTypes
  <2> QED
    BY <1>1, <2>1 DEF IInv, ModelTypes, database
<1>5. UNCHANGED <<stored, clock>>
  BY DEF database
<1>6. request.selected = selected' /\ request.fallback = loaded'
  OBVIOUS
<1>7. Settled' => OfSelected(loaded)' /\ OfSelected(conflicts)' /\ OfSelected(diagnostics.of)'
  BY DEF IInv, ShownInv, OfSelected
<1>8. OneLoad' /\ \A j \in jobs' : JobInv(j)'
  <2>1. Settled' => /\ request.selected = selected'
                    /\ request.fallback = None \/ request.fallback.profile.game = selected'
    BY <1>6, <1>7 DEF OfSelected
  <2> HIDE DEF request
  <2> QED
    BY <1>1, <1>2, <1>4, <1>5, <2>1, DispatchInv
<1>9. ShownInv'
  BY <1>5, <1>7 DEF IInv, ShownInv, Seen
<1> QED
  BY <1>4, <1>8, <1>9 DEF IInv

\* The jobs other than those of an answer just used, while nothing is counted on and the
\* selection stays.
LEMMA RestKept ==
  ASSUME IInv, ModelTypes',
         contextGen' >= contextGen, dataGen' >= dataGen, diagGen' >= diagGen,
         \A v \in Versions : Seen(v) => Seen(v)',
         UNCHANGED <<selected, dialog>>,
         loaded' = loaded \/ contextGen' # contextGen
  PROVE  \A j \in jobs : JobInv(j)'
<1> SUFFICES ASSUME NEW j \in jobs PROVE JobInv(j)'
  OBVIOUS
<1>1. JobInv(j) /\ ModelTypes
  BY DEF IInv
<1>2. Settled' => Settled /\ selected' = selected
  BY DEF Settled
<1> QED
  BY <1>1, <1>2, JobKept

\* A write that starts leaves every job behind, and is one that WriteInv knows.
LEMMA StartWriteInv ==
  ASSUME IInv, NEW rest \in SUBSET jobs,
         NEW op \in {"edit", "lock", "create", "fork", "delete", "try", "rollback", "commit"},
         NEW name \in Names \cup {None}, NEW game \in Games \cup {None},
         StartWrite(rest, op, name, game),
         op = "create" => dialog = None /\ game = selected /\ game \in Games
  PROVE  IInv'
<1> DEFINE new == [kind |-> "write", gen |-> contextGen + 1, op |-> op, name |-> name,
                   game |-> game, source |-> active, read |-> None, answer |-> None]
<1> contextGen \in Nat /\ dataGen \in Nat /\ diagGen \in Nat /\ active \in Names \cup {None}
  BY DEF IInv, ModelTypes
<1>1. /\ contextGen' = contextGen + 1 /\ jobs' = rest \cup {new}
      /\ UNCHANGED <<database, choice, view, derived, dataGen, diagGen, toolGen>>
  BY DEF StartWrite
<1>2. ModelTypes'
  BY <1>1 DEF IInv, ModelTypes, database, choice, derived
<1>3. \A j \in jobs : JobInv(j)'
  <2>1. \A v \in Versions : Seen(v) => Seen(v)'
    BY <1>1 DEF Seen, database
  <2>2. /\ contextGen' >= contextGen /\ dataGen' >= dataGen /\ diagGen' >= diagGen
        /\ UNCHANGED <<selected, dialog>> /\ loaded' = loaded
    BY <1>1 DEF choice
  <2> QED
    BY <1>2, <2>1, <2>2, RestKept
<1>4. ASSUME NEW j, j = new PROVE JobInv(j)'
  <2>1. j \in WriteJob
    BY <1>4 DEF WriteJob
  <2>2. j.gen = contextGen' /\ j.op = op /\ j.game = game
    BY <1>1, <1>4
  <2>3. WriteInv(j)'
    BY <1>1, <2>2 DEF WriteInv, choice
  <2> QED
    BY <2>1, <2>3 DEF JobInv
<1>5. OneLoad'
  <2>1. new.kind = "write"
    OBVIOUS
  <2> QED
    BY <1>1, <2>1 DEF IInv, OneLoad
<1>6. ShownInv'
  BY <1>1 DEF IInv, ShownInv, Seen, Settled, OfSelected, database, choice, derived
<1> QED
  BY <1>1, <1>2, <1>3, <1>4, <1>5, <1>6 DEF IInv

\* An answer that is dropped, and a job that is none of the first three kinds.
LEMMA JobsKeptInv ==
  ASSUME IInv, UNCHANGED <<database, choice, view, derived, generations>>,
         \A j \in jobs' : j \in jobs \/ j \in OtherJob
  PROVE  IInv'
<1>1. ModelTypes'
  BY DEF IInv, ModelTypes, database, choice, derived, generations
<1>2. \A j \in jobs : JobInv(j)'
  <2>1. \A v \in Versions : Seen(v) => Seen(v)'
    BY DEF Seen, database
  <2>2. /\ contextGen' >= contextGen /\ dataGen' >= dataGen /\ diagGen' >= diagGen
        /\ UNCHANGED <<selected, dialog>> /\ loaded' = loaded
    BY DEF IInv, ModelTypes, choice, generations
  <2> QED
    BY <1>1, <2>1, <2>2, RestKept
<1>3. \A j \in jobs' : JobInv(j)'
  BY <1>2 DEF JobInv
<1>4. OneLoad'
  BY OtherKinds DEF IInv, OneLoad
<1>5. ShownInv'
  BY DEF IInv, ShownInv, Seen, Settled, OfSelected, database, choice, derived
<1> QED
  BY <1>1, <1>3, <1>4, <1>5 DEF IInv

-----------------------------------------------------------------------------
(* What the user does *)

LEMMA SelectGameInv ==
  ASSUME IInv, NEW g \in Games, SelectGame(g)
  PROVE  IInv'
<1>1. CASE SwitchContext(jobs, g) /\ UNCHANGED dialog
  BY <1>1, SwitchContextInv DEF SelectGame, IInv, ModelTypes
<1>2. CASE /\ dialog' = [game |-> g, previous |-> selected]
           /\ UNCHANGED <<loaded, derived, generations, jobs>>
  <2> contextGen \in Nat /\ dataGen \in Nat /\ diagGen \in Nat
    BY DEF IInv, ModelTypes
  <2>1. /\ UNCHANGED <<database, active, listed, paths, view>> /\ selected' = g /\ dialog = None
        /\ UNCHANGED <<stored, clock, contextGen, dataGen, diagGen>>
    BY <1>2 DEF SelectGame, database, generations
  <2>2. dialog' \in [game : Games, previous : Games \cup {None}] /\ dialog' # None
        /\ dialog'.previous = selected
    BY <1>2, InterfaceAssumption DEF IInv, ModelTypes
  <2>3. ModelTypes'
    BY <1>2, <2>1, <2>2 DEF IInv, ModelTypes, database, derived, generations
  <2>4. ~Settled'
    BY <2>2 DEF Settled
  <2>5. ASSUME NEW j \in jobs PROVE JobInv(j)'
    <3>1. \A v \in Versions : Seen(v) => Seen(v)'
      BY <2>1 DEF Seen
    <3>2. contextGen' >= contextGen /\ dataGen' >= dataGen /\ diagGen' >= diagGen
          /\ loaded' = loaded
      BY <1>2, <2>1
    <3>3. JobInv(j) /\ ModelTypes
      BY DEF IInv
    <3>4. \A h \in Games : h = (IF dialog = None THEN selected ELSE dialog.previous)
                => h = (IF dialog' = None THEN selected' ELSE dialog'.previous)
      BY <2>1, <2>2
    <3> QED
      BY <2>3, <2>4, <3>1, <3>2, <3>3, <3>4, JobKept
  <2>6. ShownInv' /\ OneLoad'
    BY <1>2, <2>1, <2>4 DEF IInv, ShownInv, OneLoad, Seen
  <2> QED
    BY <1>2, <2>3, <2>5, <2>6 DEF IInv
<1> QED
  BY <1>1, <1>2 DEF SelectGame

LEMMA BrowseFolderInv ==
  ASSUME IInv, BrowseFolder
  PROVE  IInv'
<1>1. dialog.game \in Games
  BY DEF BrowseFolder, IInv, ModelTypes
<1>2. [kind |-> "folder", game |-> dialog.game] \in OtherJob
  BY <1>1 DEF OtherJob
<1> QED
  BY <1>2, JobsKeptInv DEF BrowseFolder

LEMMA CancelDialogInv ==
  ASSUME IInv, CancelDialog
  PROVE  IInv'
<1>1. /\ dialog \in [game : Games, previous : Games \cup {None}] /\ dialog' = None
      /\ selected' = dialog.previous /\ UNCHANGED <<database, paths, view>>
      /\ dialog.previous \in Games \cup {None} /\ dialog # None
  BY DEF CancelDialog, IInv, ModelTypes
<1>2. CASE dialog.previous # None
  <2>1. SwitchContext(jobs, dialog.previous) /\ UNCHANGED <<active, listed>>
    BY <1>2 DEF CancelDialog
  <2> QED
    BY <1>1, <1>2, <2>1, SwitchContextInv DEF IInv, ModelTypes
<1>3. CASE dialog.previous = None
  <2> contextGen \in Nat /\ dataGen \in Nat /\ diagGen \in Nat
    BY DEF IInv, ModelTypes
  <2>1. /\ loaded' = None /\ active' = None /\ listed' = {}
        /\ conflicts' = None /\ diagnostics' = Idle
        /\ UNCHANGED <<tools, toolsLoading, generations, jobs>>
    BY <1>3 DEF CancelDialog
  <2>2. Idle \in Report
    BY DEF Idle, Report
  <2>3. ModelTypes'
    BY <1>1, <1>3, <2>1, <2>2 DEF IInv, ModelTypes, database, generations
  <2>4. ~Settled'
    BY <1>1, <1>3 DEF Settled
  <2>5. UNCHANGED <<stored, clock, contextGen, dataGen, diagGen>>
    BY <1>1, <2>1 DEF database, generations
  <2>6. ASSUME NEW j \in jobs PROVE JobInv(j)'
    <3>1. \A v \in Versions : Seen(v) => Seen(v)'
      BY <2>5 DEF Seen
    <3>2. contextGen' >= contextGen /\ dataGen' >= dataGen /\ diagGen' >= diagGen
          /\ loaded' = None
      BY <2>1, <2>5
    <3>3. JobInv(j) /\ ModelTypes
      BY DEF IInv
    <3>4. \A h \in Games : h = (IF dialog = None THEN selected ELSE dialog.previous)
                => h = (IF dialog' = None THEN selected' ELSE dialog'.previous)
      BY <1>1, <1>3
    <3> QED
      BY <2>3, <2>4, <3>1, <3>2, <3>3, <3>4, JobKept
  <2>7. ShownInv' /\ OneLoad'
    BY <2>1, <2>4, <2>5 DEF IInv, ShownInv, OneLoad
  <2> QED
    BY <2>1, <2>3, <2>6, <2>7 DEF IInv
<1> QED
  BY <1>2, <1>3

LEMMA SwitchProfileInv ==
  ASSUME IInv, NEW p \in Profiles, SwitchProfile(p)
  PROVE  IInv'
<1>1. p.name \in Names
  BY DEF Names
<1> QED
  BY <1>1, ReloadInv DEF SwitchProfile, IInv, ModelTypes, Settled

\* Steps that leave the selection alone.
LEMMA SelectionKept ==
  ASSUME IInv, ModelTypes', ShownInv',
         contextGen' >= contextGen, dataGen' >= dataGen, diagGen' >= diagGen,
         \A v \in Versions : Seen(v) => Seen(v)',
         UNCHANGED <<selected, dialog, loaded>>,
         \A j \in jobs' : j \in jobs \/ (j.kind # "context" /\ JobInv(j)')
  PROVE  IInv'
<1>1. \A j \in jobs : JobInv(j)'
  BY RestKept
<1>2. OneLoad'
  BY DEF IInv, OneLoad
<1> QED
  BY <1>1, <1>2 DEF IInv

\* A report or a table is of what is loaded.
LEMMA NewReport ==
  ASSUME NEW j, j \in ReportJob, ModelTypes', ShownInv', j.of = loaded', loaded' # None,
         j.gen = IF j.kind = "data" THEN dataGen' ELSE diagGen'
  PROVE  JobInv(j)' /\ j.kind # "context"
<1>1. j.kind \in {"data", "diagnostics"} /\ j.gen \in Nat
  BY ReportFields
<1>2. ReportInv(j)'
  BY <1>1 DEF ReportInv, ShownInv, OfSelected
<1> QED
  BY <1>1, <1>2 DEF JobInv

\* Nothing seen is forgotten while no row changes.
LEMMA SeenKept ==
  ASSUME UNCHANGED <<stored, clock>>
  PROVE  \A v \in Versions : Seen(v) => Seen(v)'
  BY DEF Seen

LEMMA OpenDiagnosticsInv ==
  ASSUME IInv, OpenDiagnostics
  PROVE  IInv'
<1> contextGen \in Nat /\ dataGen \in Nat /\ diagGen \in Nat
  BY DEF IInv, ModelTypes
<1>1. /\ view' = "diagnostics" /\ UNCHANGED loaded /\ StartDiagnostics(jobs)
      /\ UNCHANGED <<stored, current, clock, selected, active, listed, dialog, paths,
                     conflicts, tools, toolsLoading, contextGen, dataGen, toolGen>>
  BY DEF OpenDiagnostics, database
<1>2. CASE loaded = None
  <2>1. diagnostics' = [state |-> "error", of |-> None] /\ UNCHANGED <<jobs, diagGen>>
    BY <1>1, <1>2 DEF StartDiagnostics
  <2>2. diagnostics' \in Report /\ diagnostics'.of = None
    BY <2>1 DEF Report
  <2>3. ModelTypes'
    BY <1>1, <2>1, <2>2 DEF IInv, ModelTypes
  <2>4. ShownInv'
    BY <1>1, <2>2 DEF IInv, ShownInv, Seen, Settled, OfSelected
  <2> QED
    BY <1>1, <2>1, <2>3, <2>4, SeenKept, SelectionKept
<1>3. CASE loaded # None
  <2> DEFINE new == [kind |-> "diagnostics", gen |-> diagGen + 1, of |-> loaded]
  <2>1. /\ diagnostics' = [state |-> "running", of |-> None] /\ diagGen' = diagGen + 1
        /\ jobs' = jobs \cup {new}
    BY <1>1, <1>3 DEF StartDiagnostics
  <2>2. diagnostics' \in Report /\ diagnostics'.of = None
    BY <2>1 DEF Report
  <2>3. ModelTypes'
    BY <1>1, <2>1, <2>2 DEF IInv, ModelTypes
  <2>4. ShownInv'
    BY <1>1, <2>2 DEF IInv, ShownInv, Seen, Settled, OfSelected
  <2>5. ASSUME NEW j, j = new PROVE JobInv(j)' /\ j.kind # "context"
    <3>1. j \in ReportJob /\ j.gen = diagGen' /\ j.kind = "diagnostics" /\ j.of = loaded'
      BY <1>1, <1>3, <2>1, <2>5 DEF ReportJob, IInv, ModelTypes
    <3> QED
      BY <1>1, <1>3, <2>3, <2>4, <3>1, NewReport
  <2>6. diagGen' >= diagGen /\ \A j \in jobs' : j \in jobs \/ (j.kind # "context" /\ JobInv(j)')
    BY <2>1, <2>5
  <2> QED
    BY <1>1, <2>3, <2>4, <2>6, SeenKept, SelectionKept
<1> QED
  BY <1>2, <1>3

LEMMA OpenDataTabInv ==
  ASSUME IInv, OpenDataTab
  PROVE  IInv'
<1> contextGen \in Nat /\ dataGen \in Nat /\ diagGen \in Nat
  BY DEF IInv, ModelTypes
<1>1. /\ view' = "other"
      /\ UNCHANGED <<stored, current, clock, selected, active, loaded, listed, dialog, paths,
                     diagnostics, tools, toolsLoading, contextGen, diagGen, toolGen>>
      /\ \/ loaded = None /\ conflicts' = None /\ UNCHANGED <<dataGen, jobs>>
         \/ /\ loaded # None /\ dataGen' = dataGen + 1 /\ UNCHANGED conflicts
            /\ jobs' = jobs \cup {[kind |-> "data", gen |-> dataGen + 1, of |-> loaded]}
  BY DEF OpenDataTab, database, choice
<1>2. dataGen' >= dataGen /\ dataGen' \in Nat /\ conflicts' \in {conflicts, None}
  BY <1>1
<1>3. ModelTypes'
  BY <1>1, <1>2 DEF IInv, ModelTypes
<1>4. ShownInv'
  BY <1>1, <1>2 DEF IInv, ShownInv, Seen, Settled, OfSelected
<1>5. ASSUME NEW j \in jobs', j \notin jobs PROVE JobInv(j)' /\ j.kind # "context"
  <2>1. /\ j = [kind |-> "data", gen |-> dataGen + 1, of |-> loaded]
        /\ dataGen' = dataGen + 1 /\ loaded # None
    BY <1>1, <1>5
  <2>2. j \in ReportJob /\ j.gen = dataGen' /\ j.kind = "data" /\ j.of = loaded'
    BY <1>1, <2>1 DEF ReportJob, IInv, ModelTypes
  <2> QED
    BY <1>1, <1>3, <1>4, <2>1, <2>2, NewReport
<1> QED
  BY <1>1, <1>2, <1>3, <1>4, <1>5, SeenKept, SelectionKept

LEMMA OpenToolsInv ==
  ASSUME IInv, OpenTools
  PROVE  IInv'
<1> contextGen \in Nat /\ dataGen \in Nat /\ diagGen \in Nat /\ toolGen \in Nat
  BY DEF IInv, ModelTypes
<1> DEFINE g == GameOf(loaded, selected)
<1>1. /\ view' = "other"
      /\ UNCHANGED <<stored, current, clock, selected, active, loaded, listed, dialog, paths,
                     conflicts, diagnostics, contextGen, dataGen, diagGen>>
      /\ \/ g = None /\ tools' = None /\ toolsLoading' = FALSE /\ UNCHANGED <<toolGen, jobs>>
         \/ /\ g # None /\ toolGen' = toolGen + 1 /\ toolsLoading' = TRUE /\ UNCHANGED tools
            /\ jobs' = jobs \cup {[kind |-> "tools", gen |-> toolGen + 1, game |-> g]}
  BY DEF OpenTools, database, choice
<1>2. g \in Games \cup {None}
  BY VersionFields DEF GameOf, IInv, ModelTypes
<1>3. ModelTypes'
  <2>1. tools' \in Games \cup {None} /\ toolGen' \in Nat
    BY <1>1 DEF IInv, ModelTypes
  <2>2. toolsLoading' \in BOOLEAN
    BY <1>1
  <2> QED
    BY <1>1, <2>1, <2>2 DEF IInv, ModelTypes
<1>4. ShownInv'
  BY <1>1 DEF IInv, ShownInv, Seen, Settled, OfSelected
<1>5. ASSUME NEW j \in jobs', j \notin jobs PROVE j.kind # "context" /\ JobInv(j)'
  <2>1. j = [kind |-> "tools", gen |-> toolGen + 1, game |-> g] /\ g \in Games
    BY <1>1, <1>2, <1>5
  <2>2. j \in OtherJob
    BY <2>1 DEF OtherJob
  <2> QED
    BY <2>2, OtherKinds DEF JobInv
<1> QED
  BY <1>1, <1>3, <1>4, <1>5, SeenKept, SelectionKept

LEMMA OpenOtherInv ==
  ASSUME IInv, OpenOther
  PROVE  IInv'
<1>1. /\ view' = "other" /\ UNCHANGED <<database, choice, derived, generations, jobs>>
  BY DEF OpenOther
<1>2. ModelTypes'
  BY <1>1 DEF IInv, ModelTypes, database, choice, derived, generations
<1>3. ShownInv'
  BY <1>1 DEF IInv, ShownInv, Seen, Settled, OfSelected, database, choice, derived
<1>4. /\ contextGen' >= contextGen /\ dataGen' >= dataGen /\ diagGen' >= diagGen
      /\ UNCHANGED <<stored, clock, selected, dialog, loaded>>
  BY <1>1 DEF IInv, ModelTypes, database, choice, generations
<1> QED
  BY <1>1, <1>2, <1>3, <1>4, SeenKept, SelectionKept

LEMMA ChooseModInv ==
  ASSUME IInv, ChooseMod
  PROVE  IInv'
<1>1. [kind |-> "file"] \in OtherJob
  BY DEF OtherJob
<1> QED
  BY <1>1, JobsKeptInv DEF ChooseMod

LEMMA EditInv ==
  ASSUME IInv, NEW op \in {"edit", "lock"}, Edit(op)
  PROVE  IInv'
<1>1. StartWrite(jobs, op, active, None) /\ active \in Names \cup {None}
  BY DEF Edit, IInv, ModelTypes
<1> QED
  BY <1>1, StartWriteInv

LEMMA CreateInv ==
  ASSUME IInv, NEW n \in Names, Create(n)
  PROVE  IInv'
  BY StartWriteInv DEF Create, IInv, ModelTypes

LEMMA DeleteInv ==
  ASSUME IInv, Delete
  PROVE  IInv'
  BY StartWriteInv DEF Delete, IInv, ModelTypes

LEMMA ForkInv ==
  ASSUME IInv, NEW n \in Names, Fork(n)
  PROVE  IInv'
<1>1. loaded.profile.game \in Games
  BY VersionFields DEF Fork, IInv, ModelTypes
<1> QED
  BY <1>1, StartWriteInv DEF Fork

LEMMA ExperimentInv ==
  ASSUME IInv, NEW op \in {"try", "rollback", "commit"}, Experiment(op)
  PROVE  IInv'
<1>1. loaded.profile.game \in Games /\ active \in Names \cup {None}
  BY VersionFields DEF Experiment, IInv, ModelTypes
<1> QED
  BY <1>1, StartWriteInv DEF Experiment

LEMMA ExternalRefreshInv ==
  ASSUME IInv, ExternalRefresh
  PROVE  IInv'
  BY ReloadInv DEF ExternalRefresh, IInv, ModelTypes, Settled

-----------------------------------------------------------------------------
(* What the jobs do, and a terminal *)

\* A row becomes the newest, or goes: what was seen of it is not newer.
LEMMA RowChanged ==
  ASSUME IInv, NEW p \in Profiles, NEW n \in {0, clock + 1},
         stored' = [stored EXCEPT ![p] = n], clock' \in {clock, clock + 1}, n <= clock',
         UNCHANGED <<choice, derived>>
  PROVE  /\ stored' \in [Profiles -> Nat] /\ clock' \in Nat
         /\ ShownInv' /\ \A v \in Versions : Seen(v) => Seen(v)'
<1>1. clock \in Nat /\ stored \in [Profiles -> Nat] /\ loaded \in Versions \cup {None}
  BY DEF IInv, ModelTypes
<1>2. clock' \in Nat /\ clock' >= clock /\ n \in Nat
  BY <1>1
<1>3. stored' \in [Profiles -> Nat] /\ \A q \in Profiles : stored'[q] = IF q = p THEN n ELSE stored[q]
  BY <1>1, <1>2
<1>4. \A v \in Versions : Seen(v) => Seen(v)'
  <2> SUFFICES ASSUME NEW v \in Versions, Seen(v) PROVE Seen(v)'
    OBVIOUS
  <2>1. v.profile \in Profiles /\ v.version \in Nat
    BY VersionFields
  <2> QED
    BY <1>1, <1>2, <1>3, <2>1 DEF Seen
<1>5. \A q \in Profiles : stored'[q] <= clock'
  BY <1>1, <1>2, <1>3 DEF IInv, ShownInv
<1>6. loaded' # None => Seen(loaded)'
  BY <1>1, <1>4 DEF IInv, ShownInv, Seen, choice
<1>7. (Settled => OfSelected(loaded) /\ OfSelected(conflicts) /\ OfSelected(diagnostics.of))'
  BY DEF IInv, ShownInv, Settled, OfSelected, choice, derived
<1> QED
  BY <1>1, <1>2, <1>3, <1>4, <1>5, <1>6, <1>7 DEF ShownInv

\* While no row changes, nor what is shown.
LEMMA ShownKept ==
  ASSUME IInv, UNCHANGED <<stored, clock, choice, derived>>
  PROVE  ShownInv'
  BY DEF IInv, ShownInv, Seen, Settled, OfSelected, choice, derived

LEMMA ElsewhereInv ==
  ASSUME IInv, NEW p \in Profiles, Elsewhere(p)
  PROVE  IInv'
<1>1. PICK n \in {0, clock + 1} : stored' = [stored EXCEPT ![p] = n]
  BY DEF Elsewhere
<1>2. /\ clock' = clock + 1 /\ UNCHANGED <<choice, view, derived, generations, jobs>>
      /\ current' = [g \in Games |-> IF stored'[p] = 0 /\ current[g] = p THEN None ELSE current[g]]
  BY DEF Elsewhere
<1>3. clock \in Nat
  BY DEF IInv, ModelTypes
<1>4. /\ stored' \in [Profiles -> Nat] /\ clock' \in Nat
      /\ ShownInv' /\ \A v \in Versions : Seen(v) => Seen(v)'
  <2>1. n <= clock'
    BY <1>1, <1>2, <1>3
  <2> QED
    BY <1>1, <1>2, <2>1, RowChanged
<1>5. ModelTypes'
  <2>1. current' \in [Games -> Profiles \cup {None}]
    BY <1>2 DEF IInv, ModelTypes
  <2> QED
    BY <1>2, <1>4, <2>1 DEF IInv, ModelTypes, choice, derived, generations
<1>6. /\ contextGen' >= contextGen /\ dataGen' >= dataGen /\ diagGen' >= diagGen
      /\ UNCHANGED <<selected, dialog, loaded>>
  BY <1>2 DEF IInv, ModelTypes, choice, generations
<1> QED
  BY <1>2, <1>4, <1>5, <1>6, SelectionKept

\* A write that works on stays the write it was.
LEMMA WriteWorkInv ==
  ASSUME IInv, ModelTypes', ShownInv', UNCHANGED <<choice, generations>>,
         \A v \in Versions : Seen(v) => Seen(v)',
         NEW j \in jobs, j.kind = "write",
         NEW k \in WriteJob, k.gen = j.gen, k.op = j.op, k.game = j.game,
         jobs' = (jobs \ {j}) \cup {k}
  PROVE  IInv'
<1>1. WriteInv(j)
  BY ByKind DEF IInv
<1>2. WriteInv(k)'
  BY <1>1 DEF WriteInv, choice, generations
<1>3. JobInv(k)' /\ k.kind # "context"
  BY <1>2, WriteFields DEF JobInv
<1>4. /\ contextGen' >= contextGen /\ dataGen' >= dataGen /\ diagGen' >= diagGen
      /\ UNCHANGED <<selected, dialog, loaded>>
  BY DEF IInv, ModelTypes, choice, generations
<1>5. \A i \in jobs' : i \in jobs \/ (i.kind # "context" /\ JobInv(i)')
  BY <1>3
<1> QED
  BY <1>4, <1>5, SelectionKept

\* The two ways a write changes: it has found its row, or has its answer.
LEMMA WriteRead ==
  ASSUME NEW j \in WriteJob, NEW p \in Profiles, NEW k, k = [j EXCEPT !.read = p]
  PROVE  k \in WriteJob /\ k.gen = j.gen /\ k.op = j.op /\ k.game = j.game
  BY DEF WriteJob

LEMMA WriteAnswered ==
  ASSUME NEW j \in WriteJob, NEW a \in Replies, NEW k, k = [j EXCEPT !.answer = a]
  PROVE  k \in WriteJob /\ k.gen = j.gen /\ k.op = j.op /\ k.game = j.game
  BY DEF WriteJob

LEMMA RepliesAre ==
  /\ Done \in Replies /\ Failed \in Replies
  /\ \A n \in Names : [Done EXCEPT !.previous = n] \in Replies
  BY DEF Done, Failed, Replies

\* A write answers, whatever it has done to the rows.
LEMMA AnsweredInv ==
  ASSUME IInv, ModelTypes', ShownInv', UNCHANGED <<choice, generations>>,
         \A v \in Versions : Seen(v) => Seen(v)',
         NEW j \in jobs, j.kind = "write", NEW a \in Replies, Answered(j, a)
  PROVE  IInv'
<1> DEFINE k == [j EXCEPT !.answer = a]
<1>1. j \in WriteJob
  BY ByKind DEF IInv
<1>2. k \in WriteJob /\ k.gen = j.gen /\ k.op = j.op /\ k.game = j.game
  BY <1>1, WriteAnswered
<1>3. jobs' = (jobs \ {j}) \cup {k}
  BY DEF Answered
<1> HIDE DEF k
<1> QED
  BY <1>2, <1>3, WriteWorkInv

LEMMA ReadRowInv ==
  ASSUME IInv, NEW j \in jobs, ReadRow(j)
  PROVE  IInv'
<1>1. j.kind = "write" /\ UNCHANGED <<database, choice, view, derived, generations>>
  BY DEF ReadRow
<1>2. ModelTypes' /\ ShownInv' /\ \A v \in Versions : Seen(v) => Seen(v)'
  BY <1>1, ShownKept, SeenKept DEF IInv, ModelTypes, database, choice, derived, generations
<1>3. CASE \E p \in Found(j.name, None) : jobs' = (jobs \ {j}) \cup {[j EXCEPT !.read = p]}
  <2>1. PICK p \in Found(j.name, None) : jobs' = (jobs \ {j}) \cup {[j EXCEPT !.read = p]}
    BY <1>3
  <2>2. p \in Profiles
    BY DEF Found, Rows
  <2> DEFINE k == [j EXCEPT !.read = p]
  <2>3. k \in WriteJob /\ k.gen = j.gen /\ k.op = j.op /\ k.game = j.game
    BY <1>1, <2>2, ByKind, WriteRead DEF IInv
  <2>4. jobs' = (jobs \ {j}) \cup {k}
    BY <2>1
  <2> HIDE DEF k
  <2> QED
    BY <1>1, <1>2, <2>3, <2>4, WriteWorkInv
<1>4. CASE Answered(j, Failed)
  BY <1>1, <1>2, <1>4, RepliesAre, AnsweredInv
<1> QED
  BY <1>3, <1>4 DEF ReadRow

\* A row written, with its answer.
LEMMA PutInv ==
  ASSUME IInv, NEW j \in jobs, j.kind = "write", NEW p \in Profiles, Put(p), Answered(j, Done),
         UNCHANGED <<current, choice, view, derived, generations>>
  PROVE  IInv'
<1>1. stored' = [stored EXCEPT ![p] = clock + 1] /\ clock' = clock + 1 /\ clock \in Nat
  BY DEF Put, IInv, ModelTypes
<1>2. clock + 1 \in {0, clock + 1} /\ clock + 1 <= clock' /\ clock' \in {clock, clock + 1}
  BY <1>1
<1>3. /\ stored' \in [Profiles -> Nat] /\ clock' \in Nat
      /\ ShownInv' /\ \A v \in Versions : Seen(v) => Seen(v)'
  BY <1>1, <1>2, RowChanged
<1>4. ModelTypes'
  BY <1>3 DEF IInv, ModelTypes, choice, derived, generations
<1> QED
  BY <1>3, <1>4, RepliesAre, AnsweredInv

\* No row changed, though another may be the active one of its game.
LEMMA NoPutInv ==
  ASSUME IInv, NEW j \in jobs, j.kind = "write", NEW a \in Replies, Answered(j, a),
         UNCHANGED <<stored, clock, choice, view, derived, generations>>,
         current' \in [Games -> Profiles \cup {None}]
  PROVE  IInv'
<1>1. ModelTypes' /\ ShownInv' /\ \A v \in Versions : Seen(v) => Seen(v)'
  BY ShownKept, SeenKept DEF IInv, ModelTypes, choice, derived, generations
<1> QED
  BY <1>1, AnsweredInv

LEMMA SaveRowInv ==
  ASSUME IInv, NEW j \in jobs, SaveRow(j)
  PROVE  IInv'
<1>1. /\ j.kind = "write" /\ j.read # None
      /\ UNCHANGED <<current, choice, view, derived, generations>>
  BY DEF SaveRow
<1>2. j.read \in Profiles
  BY <1>1, ByKind, WriteFields DEF IInv
<1>3. CASE Put(j.read) /\ Answered(j, Done)
  BY <1>1, <1>2, <1>3, PutInv
<1>4. CASE UNCHANGED <<stored, clock>> /\ Answered(j, Failed)
  BY <1>1, <1>4, RepliesAre, NoPutInv DEF IInv, ModelTypes
<1> QED
  BY <1>3, <1>4 DEF SaveRow

LEMMA DeleteRowInv ==
  ASSUME IInv, NEW j \in jobs, DeleteRow(j)
  PROVE  IInv'
<1>1. /\ j.kind = "write" /\ j.read # None
      /\ UNCHANGED <<clock, choice, view, derived, generations>>
  BY DEF DeleteRow
<1>2. j.read \in Profiles
  BY <1>1, ByKind, WriteFields DEF IInv
<1>3. CASE /\ stored' = [stored EXCEPT ![j.read] = 0] /\ Answered(j, Done)
           /\ current' = [g \in Games |-> IF current[g] = j.read THEN None ELSE current[g]]
  <2>1. 0 <= clock' /\ clock' \in {clock, clock + 1}
    BY <1>1 DEF IInv, ModelTypes
  <2>2. /\ stored' \in [Profiles -> Nat] /\ clock' \in Nat
        /\ ShownInv' /\ \A v \in Versions : Seen(v) => Seen(v)'
    BY <1>1, <1>2, <1>3, <2>1, RowChanged
  <2>3. current' \in [Games -> Profiles \cup {None}]
    BY <1>3 DEF IInv, ModelTypes
  <2>4. ModelTypes'
    BY <1>1, <2>2, <2>3 DEF IInv, ModelTypes, choice, derived, generations
  <2> QED
    BY <1>1, <1>3, <2>2, <2>4, RepliesAre, AnsweredInv
<1>4. CASE UNCHANGED <<stored, current>> /\ Answered(j, Failed)
  BY <1>1, <1>4, RepliesAre, NoPutInv DEF IInv, ModelTypes
<1> QED
  BY <1>3, <1>4 DEF DeleteRow

LEMMA MakeRowInv ==
  ASSUME IInv, NEW j \in jobs, MakeRow(j)
  PROVE  IInv'
<1>1. j.kind = "write" /\ UNCHANGED <<current, choice, view, derived, generations>>
  BY DEF MakeRow
<1>2. CASE \E p \in Profiles \ Rows : Put(p) /\ Answered(j, Done)
  BY <1>1, <1>2, PutInv
<1>3. CASE UNCHANGED <<stored, clock>> /\ Answered(j, Failed)
  BY <1>1, <1>3, RepliesAre, NoPutInv DEF IInv, ModelTypes
<1> QED
  BY <1>2, <1>3 DEF MakeRow

LEMMA MoveExperimentInv ==
  ASSUME IInv, NEW j \in jobs, MoveExperiment(j)
  PROVE  IInv'
<1>1. j.kind = "write" /\ UNCHANGED <<stored, clock, choice, view, derived, generations>>
  BY DEF MoveExperiment
<1>2. current' \in [Games -> Profiles \cup {None}]
  BY DEF MoveExperiment, Found, Rows, IInv, ModelTypes
<1>3. \E a \in Replies : Answered(j, a)
  <2>1. \A p \in Profiles : p.name \in Names
    BY DEF Names
  <2> QED
    BY <2>1, RepliesAre DEF MoveExperiment, Rows
<1> QED
  BY <1>1, <1>2, <1>3, NoPutInv

\* A load reads what is there, at its newest.
LEMMA LoadContextInv ==
  ASSUME IInv, NEW j \in jobs, LoadContext(j)
  PROVE  IInv'
<1> DEFINE r == j.request
           list == {p \in Rows : r.selected # None => p.game = r.selected}
           chosen == IF ~r.recompute THEN {r.active}
                     ELSE IF r.selected # None /\ current[r.selected] # None
                          THEN {current[r.selected].name}
                          ELSE IF list = {} THEN {None} ELSE {p.name : p \in list}
<1>1. j.kind = "context" /\ UNCHANGED <<database, choice, view, derived, generations>>
  BY DEF LoadContext
<1>2. j \in ContextJob /\ ContextInv(j)
  BY <1>1, ByKind DEF IInv
<1>3. /\ j.gen \in Nat /\ r \in Request
      /\ r.selected \in Games \cup {None} /\ r.active \in Names \cup {None}
      /\ r.fallback \in Versions \cup {None}
  BY <1>2, ContextFields, RequestFields
<1>4. ModelTypes' /\ ShownInv' /\ \A v \in Versions : Seen(v) => Seen(v)'
  BY <1>1, ShownKept, SeenKept DEF IInv, ModelTypes, database, choice, derived, generations
<1>5. ASSUME NEW a, Answered(j, a),
             \/ a = Failed
             \/ \E name \in chosen :
                  LET rows == IF name = None THEN {} ELSE Found(name, r.selected)
                      kept == IF name = None THEN None ELSE r.fallback
                  IN  \E l \in IF rows = {} THEN {None} ELSE {Version(p) : p \in rows} :
                          a = [ok |-> TRUE, listed |-> list, active |-> name, loaded |-> l,
                               keep |-> l = None /\ name # None,
                               conflicts |-> IF l = None THEN kept ELSE l]
      PROVE  IInv'
  <2> DEFINE k == [j EXCEPT !.answer = a]
  <2>1. k.kind = "context" /\ k.gen = j.gen /\ k.request = j.request /\ k.answer = a
    BY <1>2 DEF ContextJob
  <2>2. /\ a \in Loads \cup {Failed}
        /\ a \in Loads => 
             /\ a.conflicts \in {None, a.loaded, r.fallback}
             /\ a.loaded # None => \E p \in Rows :
                  a.loaded = Version(p) /\ (r.selected # None => p.game = r.selected)
    <3>1. CASE a = Failed
      <4>1. Failed \notin Loads
        BY DEF Failed, Loads
      <4> QED
        BY <3>1, <4>1
    <3>2. CASE a # Failed
      <4>1. PICK name \in chosen :
               LET rows == IF name = None THEN {} ELSE Found(name, r.selected)
                   kept == IF name = None THEN None ELSE r.fallback
               IN  \E l \in IF rows = {} THEN {None} ELSE {Version(p) : p \in rows} :
                       a = [ok |-> TRUE, listed |-> list, active |-> name, loaded |-> l,
                            keep |-> l = None /\ name # None,
                            conflicts |-> IF l = None THEN kept ELSE l]
        BY <1>5, <3>2
      <4>2. \A p \in Profiles : p.name \in Names
        BY DEF Names
      <4>3. current \in [Games -> Profiles \cup {None}]
        BY DEF IInv, ModelTypes
      <4>4. name \in Names \cup {None}
        BY <1>3, <4>2, <4>3 DEF Rows
      <4>5. PICK l \in IF (IF name = None THEN {} ELSE Found(name, r.selected)) = {} THEN {None}
                       ELSE {Version(p) : p \in IF name = None THEN {} ELSE Found(name, r.selected)} :
               a = [ok |-> TRUE, listed |-> list, active |-> name, loaded |-> l,
                    keep |-> l = None /\ name # None,
                    conflicts |-> IF l = None THEN IF name = None THEN None ELSE r.fallback ELSE l]
        BY <4>1
      <4>6. l # None => \E p \in Rows :
                l = Version(p) /\ (r.selected # None => p.game = r.selected)
        BY <4>5 DEF Found
      <4>7. \A p \in Rows : Version(p) \in Versions
        BY DEF Rows, Version, Versions, IInv, ModelTypes
      <4>8. l \in Versions \cup {None} /\ list \subseteq Profiles
        BY <4>6, <4>7 DEF Rows
      <4>9. a \in Loads
        BY <1>3, <4>4, <4>5, <4>8 DEF Loads
      <4>10. a.loaded = l
             /\ a.conflicts = IF l = None THEN IF name = None THEN None ELSE r.fallback ELSE l
        BY <4>5
      <4> QED
        BY <4>6, <4>9, <4>10
    <3> QED
      BY <3>1, <3>2
  <2>3. k \in ContextJob
    BY <1>2, <2>2 DEF ContextJob
  <2>4. UNCHANGED <<stored, clock, selected, dialog, loaded, contextGen>>
    BY <1>1 DEF database, choice, generations
  <2>5. ASSUME NEW i, i = k PROVE ContextInv(i)'
    <3>1. i.gen = j.gen /\ i.request = r /\ i.answer = a
      BY <2>1, <2>5
    <3>2. ASSUME a \in Loads, a.loaded # None
          PROVE  /\ r.selected # None => a.loaded.profile.game = r.selected
                 /\ Seen(a.loaded)'
                 /\ loaded # None /\ loaded.profile = a.loaded.profile
                      => loaded.version <= a.loaded.version
      <4>1. PICK p \in Rows : a.loaded = Version(p) /\ (r.selected # None => p.game = r.selected)
        BY <2>2, <3>2
      <4>2. p \in Profiles /\ stored[p] # 0 /\ stored[p] \in Nat /\ stored[p] <= clock
        BY <4>1 DEF Rows, IInv, ModelTypes, ShownInv
      <4>3. a.loaded.profile = p /\ a.loaded.version = stored[p]
        BY <4>1 DEF Version
      <4>4. loaded # None => Seen(loaded)
        BY DEF IInv, ShownInv
      <4> QED
        BY <2>4, <4>1, <4>2, <4>3, <4>4 DEF Seen
    <3> QED
      BY <1>2, <2>2, <2>4, <3>1, <3>2 DEF ContextInv, Settled, OfSelected
  <2>6. jobs' = (jobs \ {j}) \cup {k}
    BY <1>5 DEF Answered
  <2> HIDE DEF k
  <2>7. JobInv(k)'
    BY <2>3, <2>5 DEF JobInv
  <2>8. \A i \in jobs : JobInv(i)'
    <3>1. /\ contextGen' >= contextGen /\ dataGen' >= dataGen /\ diagGen' >= diagGen
          /\ UNCHANGED <<selected, dialog, loaded>>
      BY <1>1 DEF IInv, ModelTypes, choice, generations
    <3> QED
      BY <1>4, <3>1, RestKept
  <2>9. OneLoad'
    BY <1>1, <2>1, <2>6 DEF IInv, OneLoad
  <2> QED
    BY <1>4, <2>6, <2>7, <2>8, <2>9 DEF IInv
<1>6. CASE Answered(j, Failed)
  BY <1>5, <1>6
<1>7. CASE ~Answered(j, Failed)
  <2>1. PICK name \in chosen :
           \E l \in IF (IF name = None THEN {} ELSE Found(name, r.selected)) = {} THEN {None}
                    ELSE {Version(p) : p \in IF name = None THEN {} ELSE Found(name, r.selected)} :
             Answered(j, [ok |-> TRUE, listed |-> list, active |-> name, loaded |-> l,
                          keep |-> l = None /\ name # None,
                          conflicts |-> IF l = None THEN IF name = None THEN None ELSE r.fallback
                                        ELSE l])
    BY <1>7, Zenon DEF LoadContext
  <2> HIDE DEF r, list, chosen
  <2> QED
    BY <2>1, <1>5
<1> QED
  BY <1>6, <1>7

-----------------------------------------------------------------------------
(* Answers *)

LEMMA DropInv ==
  ASSUME IInv, NEW j \in jobs, Drop(j)
  PROVE  IInv'
  BY JobsKeptInv DEF Drop

\* The answer of the only load that counts: what it found is of the selected game, or the dialog
\* is open.
LEMMA ContextLoadedInv ==
  ASSUME IInv, NEW j \in jobs, ContextLoaded(j)
  PROVE  IInv'
<1> contextGen \in Nat /\ dataGen \in Nat /\ diagGen \in Nat
  BY DEF IInv, ModelTypes
<1>1. j.kind = "context" /\ j.answer # None /\ UNCHANGED database
  BY DEF ContextLoaded
<1>2. j \in ContextJob /\ ContextInv(j)
  BY <1>1, ByKind DEF IInv
<1>3. CASE j.gen # contextGen /\ Drop(j)
  BY <1>3, DropInv
<1>4. CASE /\ toolsLoading' = FALSE /\ jobs' = jobs \ {j}
           /\ UNCHANGED <<choice, view, conflicts, diagnostics, tools, generations>>
  <2>1. ModelTypes'
    BY <1>1, <1>4 DEF IInv, ModelTypes, database, choice, generations
  <2>2. ShownInv'
    BY <1>1, <1>4 DEF IInv, ShownInv, Seen, Settled, OfSelected, database, choice
  <2>3. /\ contextGen' >= contextGen /\ dataGen' >= dataGen /\ diagGen' >= diagGen
        /\ UNCHANGED <<stored, clock, selected, dialog, loaded>>
    BY <1>1, <1>4 DEF database, choice, generations
  <2> QED
    BY <1>4, <2>1, <2>2, <2>3, SeenKept, SelectionKept
<1>5. CASE /\ j.gen = contextGen /\ j.answer.ok
           /\ listed' = j.answer.listed
           /\ active' = j.answer.active
           /\ loaded' = IF j.answer.keep THEN loaded ELSE j.answer.loaded
           /\ conflicts' = j.answer.conflicts
           /\ tools' = j.request.tools
           /\ toolsLoading' = FALSE
           /\ IF j.request.rerun /\ view = "diagnostics"
              THEN StartDiagnostics(jobs \ {j})
              ELSE diagnostics' = Idle /\ jobs' = jobs \ {j} /\ UNCHANGED diagGen
           /\ UNCHANGED <<selected, dialog, paths, view, contextGen, dataGen, toolGen>>
  <2>1. j.answer \in Loads
    <3>1. Failed.ok = FALSE
      BY DEF Failed
    <3> QED
      BY <1>1, <1>2, <1>5, <3>1, ContextFields
  <2>2. j.request \in Request /\ j.gen \in Nat
    BY <1>2, ContextFields
  <2> DEFINE a == j.answer
             r == j.request
  <2>3. /\ a.listed \subseteq Profiles /\ a.active \in Names \cup {None}
        /\ a.loaded \in Versions \cup {None} /\ a.conflicts \in Versions \cup {None}
        /\ r.tools \in Games \cup {None} /\ r.fallback \in Versions \cup {None}
    BY <2>1, <2>2, LoadFields, RequestFields
  <2>4. UNCHANGED <<stored, clock, current>>
    BY <1>1 DEF database
  <2>5. loaded' \in {loaded, a.loaded} /\ loaded' \in Versions \cup {None}
    BY <1>5, <2>3 DEF IInv, ModelTypes
  <2>6. /\ diagnostics' \in Report /\ diagnostics'.of = None
        /\ diagGen' \in Nat /\ diagGen' >= diagGen
        /\ \A i \in jobs' \ (jobs \ {j}) :
              /\ loaded' # None
              /\ i = [kind |-> "diagnostics", gen |-> diagGen', of |-> loaded']
    <3>1. [state |-> "error", of |-> None] \in Report /\ [state |-> "running", of |-> None] \in Report
          /\ Idle \in Report /\ Idle.of = None
      BY DEF Report, Idle
    <3> QED
      BY <1>5, <3>1 DEF StartDiagnostics
  <2>7. ModelTypes'
    BY <1>5, <2>3, <2>4, <2>5, <2>6 DEF IInv, ModelTypes
  <2>8. ShownInv'
    <3>1. \A p \in Profiles : stored'[p] <= clock'
      BY <2>4 DEF IInv, ShownInv
    <3>2. loaded' # None => Seen(loaded)'
      BY <1>2, <2>1, <2>4, <2>5 DEF IInv, ShownInv, ContextInv, Seen
    <3>3. ASSUME Settled
          PROVE  OfSelected(loaded)' /\ OfSelected(conflicts)' /\ OfSelected(diagnostics.of)'
      <4>1. r.selected = selected /\ selected # None /\ OfSelected(r.fallback)
        <5>1. j.gen = contextGen /\ selected # None
          BY <1>5, <3>3 DEF Settled
        <5> QED
          BY <1>2, <3>3, <5>1 DEF ContextInv
      <4>2. OfSelected(a.loaded) /\ OfSelected(loaded)
        BY <1>2, <2>1, <3>3, <4>1 DEF ContextInv, OfSelected, IInv, ShownInv
      <4>3. a.conflicts \in {None, a.loaded, r.fallback}
        BY <1>2, <2>1 DEF ContextInv
      <4> QED
        BY <1>5, <2>5, <2>6, <4>1, <4>2, <4>3 DEF OfSelected
    <3>4. Settled' => Settled
      BY <1>5 DEF Settled
    <3> QED
      BY <3>1, <3>2, <3>3, <3>4 DEF ShownInv
  <2>9. ASSUME NEW i \in jobs \ {j} PROVE JobInv(i)'
    <3>1. i.kind # "context" \/ i.gen # contextGen
      BY <1>1, <1>5 DEF IInv, OneLoad
    <3>2. \A v \in Versions : Seen(v) => Seen(v)'
      BY <2>4, SeenKept
    <3>3. JobInv(i) /\ ModelTypes
      BY DEF IInv
    <3>4. Settled' => Settled /\ selected' = selected
      BY <1>5 DEF Settled
    <3>5. contextGen' >= contextGen /\ dataGen' >= dataGen /\ UNCHANGED <<selected, dialog>>
      BY <1>5
    <3> QED
      BY <2>6, <2>7, <3>1, <3>2, <3>3, <3>4, <3>5, JobKept
  <2>10. ASSUME NEW i \in jobs' \ (jobs \ {j}) PROVE JobInv(i)' /\ i.kind # "context"
    <3>1. loaded' # None /\ i = [kind |-> "diagnostics", gen |-> diagGen', of |-> loaded']
      BY <2>6, <2>10
    <3>2. i \in ReportJob /\ i.kind = "diagnostics" /\ i.gen = diagGen' /\ i.of = loaded'
      BY <2>5, <2>6, <3>1 DEF ReportJob
    <3> QED
      BY <2>7, <2>8, <3>1, <3>2, NewReport
  <2>11. OneLoad'
    BY <2>10 DEF IInv, OneLoad
  <2> QED
    BY <2>7, <2>8, <2>9, <2>10, <2>11 DEF IInv
<1> QED
  BY <1>3, <1>4, <1>5 DEF ContextLoaded

\* What a write made is loaded, unless the user has moved on.
LEMMA WriteDoneInv ==
  ASSUME IInv, NEW j \in jobs, WriteDone(j)
  PROVE  IInv'
<1>1. j.kind = "write" /\ j \in WriteJob /\ WriteInv(j)
  BY ByKind DEF WriteDone, IInv
<1>2. CASE Drop(j)
  BY <1>2, DropInv
<1>3. CASE /\ j.gen = contextGen /\ j.answer.ok
           /\ selected' = IF j.op = "create" THEN j.game ELSE selected
           /\ active' = IF j.op \in {"create", "fork"} THEN j.name ELSE active
           /\ IF j.op = "delete" /\ selected # None
              THEN SwitchContext(jobs \ {j}, selected)
              ELSE /\ UNCHANGED loaded
                   /\ Reload(jobs \ {j}, j.op = "delete" /\ active = j.name, FALSE)
                   /\ UNCHANGED <<conflicts, diagnostics, tools>>
           /\ UNCHANGED <<database, listed, dialog, paths, view>>
  <2>1. /\ selected' \in Games \cup {None} /\ active' \in Names \cup {None}
        /\ listed' \subseteq Profiles /\ paths' \subseteq Games
        /\ dialog' \in [game : Games, previous : Games \cup {None}] \cup {None}
        /\ view' \in {"diagnostics", "other"}
    BY <1>1, <1>3, WriteFields DEF IInv, ModelTypes
  <2>2. CASE j.op = "delete" /\ selected # None
    <3>1. selected \in Games /\ selected' = selected /\ SwitchContext(jobs \ {j}, selected)
      BY <1>3, <2>2 DEF IInv, ModelTypes
    <3> QED
      BY <1>3, <2>1, <3>1, SwitchContextInv
  <2>3. CASE ~(j.op = "delete" /\ selected # None)
    <3>1. Settled' => Settled /\ selected' = selected
      BY <1>1, <1>3, InterfaceAssumption DEF Settled, WriteInv
    <3>2. (j.op = "delete" /\ active = j.name) \in BOOLEAN
      OBVIOUS
    <3> QED
      BY <1>3, <2>1, <2>3, <3>1, <3>2, ReloadInv
  <2> QED
    BY <2>2, <2>3
<1> QED
  BY <1>2, <1>3 DEF WriteDone

LEMMA ExperimentDoneInv ==
  ASSUME IInv, NEW j \in jobs, ExperimentDone(j)
  PROVE  IInv'
<1>1. j.kind = "write" /\ j \in WriteJob /\ j.answer # None
  BY ByKind DEF ExperimentDone, IInv
<1>2. CASE Drop(j)
  BY <1>2, DropInv
<1>3. CASE /\ active' = IF j.answer.previous # None THEN j.answer.previous ELSE active
           /\ UNCHANGED <<selected, loaded>>
           /\ Reload(jobs \ {j}, FALSE, FALSE)
           /\ UNCHANGED <<database, listed, dialog, paths, view, conflicts, diagnostics, tools>>
  <2>1. j.answer \in Replies
    BY <1>1, WriteFields
  <2>2. active' \in Names \cup {None}
    BY <1>3, <2>1 DEF Replies, IInv, ModelTypes
  <2>3. Settled' => Settled /\ selected' = selected
    BY <1>3 DEF Settled
  <2> QED
    BY <1>3, <2>2, <2>3, ReloadInv DEF IInv, ModelTypes
<1> QED
  BY <1>2, <1>3 DEF ExperimentDone

LEMMA DataLoadedInv ==
  ASSUME IInv, NEW j \in jobs, DataLoaded(j)
  PROVE  IInv'
<1>1. j.kind = "data" /\ j \in ReportJob /\ ReportInv(j) /\ j.of \in Versions
  BY ByKind, ReportFields DEF DataLoaded, IInv
<1>2. CASE Drop(j)
  BY <1>2, DropInv
<1>3. CASE /\ j.gen = dataGen /\ conflicts' \in {j.of, None} /\ jobs' = jobs \ {j}
           /\ UNCHANGED <<database, choice, view, diagnostics, tools, toolsLoading, generations>>
  <2>1. ModelTypes'
    BY <1>1, <1>3 DEF IInv, ModelTypes, database, choice, generations
  <2>2. /\ contextGen' >= contextGen /\ dataGen' >= dataGen /\ diagGen' >= diagGen
        /\ UNCHANGED <<stored, clock, selected, dialog, loaded, diagnostics>>
    BY <1>3 DEF IInv, ModelTypes, database, choice, generations
  <2>3. ShownInv'
    <3>1. Settled => OfSelected(j.of)
      BY <1>1, <1>3 DEF ReportInv
    <3> QED
      BY <1>3, <2>2, <3>1 DEF IInv, ShownInv, Seen, Settled, OfSelected
  <2> QED
    BY <1>3, <2>1, <2>2, <2>3, SeenKept, SelectionKept
<1> QED
  BY <1>2, <1>3 DEF DataLoaded

LEMMA DiagnosticsDoneInv ==
  ASSUME IInv, NEW j \in jobs, DiagnosticsDone(j)
  PROVE  IInv'
<1>1. j.kind = "diagnostics" /\ j \in ReportJob /\ ReportInv(j) /\ j.of \in Versions
  BY ByKind, ReportFields DEF DiagnosticsDone, IInv
<1>2. CASE Drop(j)
  BY <1>2, DropInv
<1>3. CASE /\ j.gen = diagGen
           /\ \/ diagnostics' = [state |-> "complete", of |-> j.of] /\ conflicts' = j.of
              \/ diagnostics' = [state |-> "error", of |-> None] /\ UNCHANGED conflicts
           /\ jobs' = jobs \ {j}
           /\ UNCHANGED <<database, choice, view, tools, toolsLoading, generations>>
  <2>1. /\ diagnostics' \in Report /\ diagnostics'.of \in {j.of, None}
        /\ conflicts' \in {conflicts, j.of}
    BY <1>1, <1>3 DEF Report
  <2>2. ModelTypes'
    BY <1>1, <1>3, <2>1 DEF IInv, ModelTypes, database, choice, generations
  <2>3. /\ contextGen' >= contextGen /\ dataGen' >= dataGen /\ diagGen' >= diagGen
        /\ UNCHANGED <<stored, clock, selected, dialog, loaded>>
    BY <1>3 DEF IInv, ModelTypes, database, choice, generations
  <2>4. ShownInv'
    <3>1. Settled => OfSelected(j.of)
      BY <1>1, <1>3 DEF ReportInv
    <3> QED
      BY <2>1, <2>3, <3>1 DEF IInv, ShownInv, Seen, Settled, OfSelected
  <2> QED
    BY <1>3, <2>2, <2>3, <2>4, SeenKept, SelectionKept
<1> QED
  BY <1>2, <1>3 DEF DiagnosticsDone

LEMMA ToolsLoadedInv ==
  ASSUME IInv, NEW j \in jobs, ToolsLoaded(j)
  PROVE  IInv'
<1>1. j.kind = "tools" /\ j.game \in Games
  BY ByKind, OtherKinds DEF ToolsLoaded, IInv
<1>2. CASE Drop(j)
  BY <1>2, DropInv
<1>3. CASE /\ tools' \in {j.game, tools} /\ toolsLoading' = FALSE /\ jobs' = jobs \ {j}
           /\ UNCHANGED <<database, choice, view, conflicts, diagnostics, generations>>
  <2>1. ModelTypes'
    BY <1>1, <1>3 DEF IInv, ModelTypes, database, choice, generations
  <2>2. ShownInv'
    BY <1>3 DEF IInv, ShownInv, Seen, Settled, OfSelected, database, choice
  <2>3. /\ contextGen' >= contextGen /\ dataGen' >= dataGen /\ diagGen' >= diagGen
        /\ UNCHANGED <<stored, clock, selected, dialog, loaded>>
    BY <1>3 DEF IInv, ModelTypes, database, choice, generations
  <2> QED
    BY <1>3, <2>1, <2>2, <2>3, SeenKept, SelectionKept
<1> QED
  BY <1>2, <1>3 DEF ToolsLoaded

LEMMA FolderPickedInv ==
  ASSUME IInv, NEW j \in jobs, FolderPicked(j)
  PROVE  IInv'
<1>1. j.game \in Games
  BY ByKind, OtherKinds DEF FolderPicked, IInv
<1>2. CASE Drop(j)
  BY <1>2, DropInv
<1>3. CASE /\ paths' = paths \cup {j.game} /\ selected' = j.game /\ dialog' = None
           /\ SwitchContext(jobs \ {j}, j.game)
           /\ UNCHANGED <<database, active, listed, view>>
  BY <1>1, <1>3, SwitchContextInv DEF IInv, ModelTypes
<1> QED
  BY <1>2, <1>3 DEF FolderPicked

LEMMA FilePickedInv ==
  ASSUME IInv, NEW j \in jobs, FilePicked(j)
  PROVE  IInv'
<1>1. active \in Names \cup {None}
  BY DEF IInv, ModelTypes
<1>2. CASE StartWrite(jobs \ {j}, "edit", active, None)
  BY <1>1, <1>2, StartWriteInv
<1> QED
  BY <1>2, DropInv DEF FilePicked

-----------------------------------------------------------------------------
(* The invariant *)

LEMMA InitInv ==
  Init => IInv
<1> SUFFICES ASSUME Init PROVE IInv
  OBVIOUS
<1>1. /\ selected \in Games /\ selected # None /\ loaded = None /\ conflicts = None
      /\ diagnostics = Idle /\ Idle \in Report /\ Idle.of = None
      /\ contextGen \in {0, 1} /\ dataGen = contextGen /\ diagGen = contextGen
  BY InterfaceAssumption DEF Init, Idle, Report
<1>2. dialog \in [game : Games, previous : Games \cup {None}] \cup {None}
  BY <1>1 DEF Init
<1>3. current \in [Games -> Profiles \cup {None}] /\ stored \in [Profiles -> Nat]
  BY InterfaceAssumption DEF Init
<1>4. toolsLoading \in BOOLEAN
  BY DEF Init
<1>5. ModelTypes
  BY <1>1, <1>2, <1>3, <1>4 DEF Init, ModelTypes
<1>6. ShownInv
  BY <1>1 DEF Init, ShownInv, OfSelected
<1>7. ASSUME NEW j \in jobs PROVE JobInv(j)
  <2> DEFINE r == [selected |-> selected, active |-> None, recompute |-> TRUE,
                   fallback |-> None, tools |-> selected, rerun |-> FALSE]
  <2>1. j = [kind |-> "context", gen |-> 1, answer |-> None, request |-> r]
        /\ contextGen = 1
    BY <1>7 DEF Init
  <2>2. r \in Request
    BY <1>1 DEF Request
  <2>3. r.selected = selected /\ r.fallback = None
    OBVIOUS
  <2> HIDE DEF r
  <2>4. j \in ContextJob /\ j.gen = 1 /\ j.request = r /\ j.answer = None
    BY <2>1, <2>2 DEF ContextJob
  <2>5. ContextInv(j)
    BY <2>1, <2>3, <2>4, InterfaceAssumption DEF ContextInv, OfSelected
  <2> QED
    BY <2>4, <2>5 DEF JobInv
<1>8. OneLoad
  BY DEF Init, OneLoad
<1> QED
  BY <1>5, <1>6, <1>7, <1>8 DEF IInv

LEMMA NextInv ==
  IInv /\ [Next]_vars => IInv'
<1> SUFFICES ASSUME IInv, [Next]_vars PROVE IInv'
  OBVIOUS
<1>1. CASE User
  BY <1>1, SelectGameInv, BrowseFolderInv, CancelDialogInv, SwitchProfileInv,
     OpenDiagnosticsInv, OpenDataTabInv, OpenToolsInv, OpenOtherInv, EditInv, ChooseModInv,
     CreateInv, ForkInv, DeleteInv, ExperimentInv DEF User
<1>2. CASE ExternalRefresh
  BY <1>2, ExternalRefreshInv
<1>3. CASE \E p \in Profiles : Elsewhere(p)
  BY <1>3, ElsewhereInv
<1>4. ASSUME NEW j \in jobs, Work(j) PROVE IInv'
  BY <1>4, LoadContextInv, ReadRowInv, SaveRowInv, DeleteRowInv, MakeRowInv,
     MoveExperimentInv DEF Work
<1>5. ASSUME NEW j \in jobs, Deliver(j) PROVE IInv'
  BY <1>5, ContextLoadedInv, WriteDoneInv, ExperimentDoneInv, DataLoadedInv,
     DiagnosticsDoneInv, ToolsLoadedInv, FolderPickedInv, FilePickedInv DEF Deliver
<1>6. CASE UNCHANGED vars
  BY <1>6, JobsKeptInv DEF vars
<1> QED
  BY <1>1, <1>2, <1>3, <1>4, <1>5, <1>6 DEF Next

\* What an answer that still counts must be, in every state (ContextInv, WriteInv, ReportInv),
\* and with it what is on the screen: the facts the theorems below rest on.
THEOREM Invariance == Spec => []IInv
<1>1. Init => IInv
  BY InitInv
<1>2. IInv /\ [Next]_vars => IInv'
  BY NextInv
<1> QED
  BY <1>1, <1>2, PTL DEF Spec

-----------------------------------------------------------------------------
(* Theorems *)

\* Every table of the database, part of the model and job in flight has its type, whatever the
\* order of handlers and answers (the handlers of crates/modde-ui/src/app).
THEOREM TypeCorrect == Spec => []TypeOK
<1>1. IInv => TypeOK
  <2> SUFFICES ASSUME IInv PROVE TypeOK
    OBVIOUS
  <2>1. Loads \cup {Failed} \subseteq Answer /\ Replies \subseteq Answer
    <3>1. Failed \in Replies /\ Answer = Loads \cup Replies
      BY RepliesAre DEF Answer, Replies
    <3> QED
      BY <3>1
  <2>2. ContextJob \subseteq Job /\ WriteJob \subseteq Job
    BY <2>1 DEF ContextJob, WriteJob, Job
  <2>3. ReportJob \subseteq Job /\ OtherJob \subseteq Job
    BY DEF ReportJob, OtherJob, Job
  <2>4. \A j \in jobs : j \in Job
    BY <2>2, <2>3 DEF IInv, JobInv
  <2> QED
    BY <2>4 DEF IInv, ModelTypes, TypeOK
<1> QED
  BY <1>1, Invariance, PTL

\* With no dialog open, the profile on the screen is one of the selected game, for any number of
\* games, profiles, jobs and late answers (dispatch_profile_context and the guard of
\* apply_profile_context).
THEOREM ShowsSelected == Spec => []LoadedIsSelected
<1>1. IInv => LoadedIsSelected
  BY DEF IInv, ShownInv, LoadedIsSelected, OfSelected
<1> QED
  BY <1>1, Invariance, PTL

\* So are the profiles that the conflict table and the report were made from, whose jobs and
\* generations are others (apply_diagnostics_computed, DataTabConflictsLoaded).
THEOREM DerivesFromSelected == Spec => []DerivedIsSelected
<1>1. IInv => DerivedIsSelected
  BY DEF IInv, ShownInv, DerivedIsSelected, OfSelected
<1> QED
  BY <1>1, Invariance, PTL

\* Only the answer of the load that counts changes the profile on the screen to another that is
\* there; every other step keeps it or clears it.
LEMMA LoadedStep ==
  ASSUME IInv, [Next]_vars
  PROVE  \/ loaded' \in {loaded, None}
         \/ \E j \in jobs : /\ j.kind = "context" /\ j.gen = contextGen
                            /\ j.answer \in Loads /\ loaded' = j.answer.loaded
<1>1. CASE User
  <2>1. ASSUME NEW g \in Games, SelectGame(g) PROVE loaded' \in {loaded, None}
    BY <2>1 DEF SelectGame, SwitchContext
  <2>2. CASE CancelDialog
    BY <2>2 DEF CancelDialog, SwitchContext, choice
  <2>3. ASSUME NEW p \in Profiles, SwitchProfile(p) PROVE loaded' = loaded
    BY <2>3 DEF SwitchProfile
  <2>4. CASE BrowseFolder \/ OpenDiagnostics \/ OpenDataTab \/ OpenTools \/ OpenOther \/ ChooseMod
    BY <2>4 DEF BrowseFolder, OpenDiagnostics, OpenDataTab, OpenTools, OpenOther, ChooseMod, choice
  <2>5. ASSUME \/ \E op \in {"edit", "lock"} : Edit(op)
               \/ \E n \in Names : Create(n) \/ Fork(n)
               \/ Delete
               \/ \E op \in {"try", "rollback", "commit"} : Experiment(op)
        PROVE  loaded' = loaded
    BY <2>5 DEF Edit, Create, Fork, Delete, Experiment, StartWrite, choice
  <2> QED
    BY <1>1, <2>1, <2>2, <2>3, <2>4, <2>5 DEF User
<1>2. CASE ExternalRefresh \/ \E p \in Profiles : Elsewhere(p)
  BY <1>2 DEF ExternalRefresh, Elsewhere, choice
<1>3. ASSUME NEW j \in jobs, Work(j) PROVE loaded' = loaded
  BY <1>3 DEF Work, LoadContext, ReadRow, SaveRow, DeleteRow, MakeRow, MoveExperiment, choice
<1>4. ASSUME NEW j \in jobs, Drop(j) PROVE loaded' = loaded
  BY <1>4 DEF Drop, choice
<1>5. ASSUME NEW j \in jobs, ContextLoaded(j)
      PROVE  \/ loaded' = loaded
             \/ /\ j.kind = "context" /\ j.gen = contextGen
                /\ j.answer \in Loads /\ loaded' = j.answer.loaded
  <2>1. j \in ContextJob /\ j.answer # None
    BY <1>5, ByKind DEF ContextLoaded, IInv
  <2>2. j.answer.ok => j.answer \in Loads
    <3>1. Failed.ok = FALSE
      BY DEF Failed
    <3> QED
      BY <2>1, <3>1, ContextFields
  <2> QED
    BY <1>4, <1>5, <2>2 DEF ContextLoaded, choice
<1>6. ASSUME NEW j \in jobs, WriteDone(j) \/ ExperimentDone(j) PROVE loaded' \in {loaded, None}
  BY <1>4, <1>6 DEF WriteDone, ExperimentDone, SwitchContext
<1>7. ASSUME NEW j \in jobs, DataLoaded(j) \/ DiagnosticsDone(j) \/ ToolsLoaded(j)
      PROVE  loaded' = loaded
  BY <1>4, <1>7 DEF DataLoaded, DiagnosticsDone, ToolsLoaded, choice
<1>8. ASSUME NEW j \in jobs, FolderPicked(j) \/ FilePicked(j) PROVE loaded' \in {loaded, None}
  BY <1>4, <1>8 DEF FolderPicked, FilePicked, SwitchContext, StartWrite, choice
<1>9. CASE UNCHANGED vars
  BY <1>9 DEF vars, choice
<1> QED
  BY <1>1, <1>2, <1>3, <1>5, <1>6, <1>7, <1>8, <1>9 DEF Next, Deliver

\* The screen never goes back to an older version of the profile it shows, whatever writes,
\* terminals and late loads do (the generation that dispatch_profile_context counts on).
THEOREM ShowsNothingOlder == Spec => NeverOlder
<1>1. IInv /\ [Next]_vars =>
        [(loaded # None /\ loaded' # None /\ loaded.profile = loaded'.profile)
            => loaded.version <= loaded'.version]_vars
  <2> SUFFICES ASSUME IInv, [Next]_vars, loaded # None, loaded' # None,
                      loaded.profile = loaded'.profile
               PROVE  loaded.version <= loaded'.version
    OBVIOUS
  <2>1. CASE loaded' = loaded
    <3>1. loaded.version \in Nat
      BY VersionFields DEF IInv, ModelTypes
    <3> QED
      BY <2>1, <3>1
  <2>2. CASE \E j \in jobs : /\ j.kind = "context" /\ j.gen = contextGen
                             /\ j.answer \in Loads /\ loaded' = j.answer.loaded
    <3>1. PICK j \in jobs : /\ j.kind = "context" /\ j.gen = contextGen
                            /\ j.answer \in Loads /\ loaded' = j.answer.loaded
      BY <2>2
    <3>2. ContextInv(j)
      BY <3>1, ByKind DEF IInv
    <3> QED
      BY <3>1, <3>2 DEF ContextInv
  <2> QED
    BY <2>1, <2>2, LoadedStep
<1> QED
  BY <1>1, Invariance, PTL DEF Spec, NeverOlder
=============================================================================
