------------------------------ MODULE Interface ------------------------------
(***************************************************************************)
(* The graphical interface (crates/modde-ui/src/app): one event loop whose *)
(* handlers never wait. A handler that needs the database starts a job on  *)
(* another thread; the job's answer comes back as a message, in any order  *)
(* with other answers and with whatever the user does meanwhile. Answers   *)
(* carry the generation of the handler that started the job, and some are  *)
(* dropped when a later handler has counted on.                            *)
(***************************************************************************)
EXTENDS Naturals, FiniteSets

CONSTANTS
    Games,
    Profiles,       \* the profiles there may be: records [name, game]
    First,          \* the profiles there are when the interface starts
    Activated,      \* Activated[g]: the active one of game g then, or None
    Undetected,     \* games whose directory only the user knows
    None,
    MaxContext,     \* bound: handlers that count on contextGen
    MaxReports,     \* bound: the generations of reports, loads included
    MaxTables,      \* bound: the generations of conflict tables, loads included
    MaxTools,       \* bound: tool lists asked for by themselves
    MaxWrites,      \* bound: writes before those of commands in a terminal
    MaxJobs         \* bound: jobs running at a time, and one file chooser of a kind

\* A version of a profile is the profile and the write that made it what it is.
Names == {p.name : p \in Profiles}
Versions == [profile : Profiles, version : Nat]
Loads == [ok : {TRUE}, listed : SUBSET Profiles, active : Names \cup {None},
          loaded : Versions \cup {None}, keep : BOOLEAN, conflicts : Versions \cup {None}]

ASSUME InterfaceAssumption ==
    /\ \A p \in Profiles : p = [name |-> p.name, game |-> p.game] /\ p.game \in Games
    /\ First \subseteq Profiles
    /\ Undetected \subseteq Games
    /\ Activated \in [Games -> First \cup {None}]
    /\ \A g \in Games : Activated[g] # None => Activated[g].game = g
    /\ None \notin Games
    /\ None \notin Names /\ None \notin Versions /\ None \notin Loads
    /\ None \notin [game : Games, previous : Games \cup {None}]
    /\ MaxContext \in Nat /\ MaxReports \in Nat /\ MaxTables \in Nat
    /\ MaxTools \in Nat /\ MaxWrites \in Nat /\ MaxJobs \in Nat

VARIABLES
    \* the database
    stored,         \* stored[p]: the write that made row p what it is, 0 if absent
    current,        \* current[g]: the active profile of game g
    clock,          \* the number of the last write
    \* the model of the interface
    selected, active, loaded, listed, dialog, paths, view,
    conflicts, diagnostics, tools, toolsLoading,
    \* the generations
    contextGen, dataGen, diagGen, toolGen,
    \* what runs elsewhere, and answers on their way back
    jobs

database == <<stored, current, clock>>
derived == <<conflicts, diagnostics, tools, toolsLoading>>
choice == <<selected, active, loaded, listed, dialog, paths>>
generations == <<contextGen, dataGen, diagGen, toolGen>>
vars == <<database, choice, view, derived, generations, jobs>>

Idle == [state |-> "idle", of |-> None]
Rows == {p \in Profiles : stored[p] # 0}
Version(p) == [profile |-> p, version |-> stored[p]]

\* Mutant: the whole profile where its game is meant.
ProfileOf(l, g) == IF l # None THEN l.profile ELSE g

\* current_game_id: the loaded profile decides before the selection.
GameOf(l, g) == IF l # None THEN l.profile.game ELSE g

-----------------------------------------------------------------------------
(* Starting jobs *)

\* Mutants: the load does not count; it does not count the tables' generation on; the old
\* game's profile stays on the screen while the new one's loads.
DispatchUncounted(rest, request) ==
    /\ dataGen < MaxTables
    /\ diagGen' = diagGen + 1
    /\ dataGen' = dataGen + 1
    /\ toolsLoading' = (toolsLoading \/ request.tools # None)
    /\ jobs' = rest \cup {[kind |-> "context", gen |-> contextGen,
                           request |-> request, answer |-> None]}
    /\ UNCHANGED contextGen

DispatchBesideTables(rest, request) ==
    /\ contextGen < MaxContext
    /\ contextGen' = contextGen + 1
    /\ diagGen' = diagGen + 1
    /\ toolsLoading' = (toolsLoading \/ request.tools # None)
    /\ jobs' = rest \cup {[kind |-> "context", gen |-> contextGen + 1,
                           request |-> request, answer |-> None]}
    /\ UNCHANGED dataGen

\* dispatch_profile_context: counts three generations on and starts a load.
Dispatch(rest, request) ==
    /\ contextGen < MaxContext
    /\ contextGen' = contextGen + 1
    /\ diagGen' = diagGen + 1
    /\ dataGen' = dataGen + 1
    /\ toolsLoading' = (toolsLoading \/ request.tools # None)
    /\ jobs' = rest \cup {[kind |-> "context", gen |-> contextGen + 1,
                           request |-> request, answer |-> None]}

\* reload_request: in place, for what is selected and active now.
Reload(rest, recompute, rerun) ==
    /\ Dispatch(rest, [selected |-> selected', active |-> active', recompute |-> recompute,
                       fallback |-> loaded', tools |-> GameOf(loaded', selected'),
                       rerun |-> rerun])
    /\ UNCHANGED toolGen

SwitchContextKeeping(rest, g) ==
    /\ UNCHANGED loaded
    /\ conflicts' = None
    /\ diagnostics' = Idle
    /\ Dispatch(rest, [selected |-> g, active |-> None, recompute |-> TRUE,
                       fallback |-> None, tools |-> g, rerun |-> FALSE])
    /\ UNCHANGED <<tools, toolGen>>

\* switch_game_context: forgets what belongs to the old game, and loads game g.
SwitchContext(rest, g) ==
    /\ loaded' = None
    /\ conflicts' = None
    /\ diagnostics' = Idle
    /\ Dispatch(rest, [selected |-> g, active |-> None, recompute |-> TRUE,
                       fallback |-> None, tools |-> g, rerun |-> FALSE])
    /\ UNCHANGED <<tools, toolGen>>

\* A handler that starts a write only counts the context generation on.
StartWrite(rest, op, name, game) ==
    /\ contextGen < MaxContext
    /\ contextGen' = contextGen + 1
    /\ jobs' = rest \cup {[kind |-> "write", gen |-> contextGen + 1, op |-> op, name |-> name,
                           game |-> game, source |-> active, read |-> None, answer |-> None]}
    /\ UNCHANGED <<database, choice, view, derived, dataGen, diagGen, toolGen>>

Room == Cardinality(jobs) < MaxJobs

-----------------------------------------------------------------------------
(* What the user does. The dialog for a game's directory lies over everything. *)

\* accept_game_selection: without a directory the game is selected, but nothing is loaded.
SelectGame(g) ==
    /\ Room /\ dialog = None
    /\ selected' = g
    /\ \/ /\ g \in paths
          /\ SwitchContext(jobs, g)
          /\ UNCHANGED <<dialog>>
       \/ /\ g \notin paths
          /\ dialog' = [game |-> g, previous |-> selected]
          /\ UNCHANGED <<loaded, derived, generations, jobs>>
    /\ UNCHANGED <<database, active, listed, paths, view>>

\* GamePathDialogBrowse: a file chooser of the desktop, which may outlive the dialog.
BrowseFolder ==
    /\ Room /\ dialog # None
    /\ [kind |-> "folder", game |-> dialog.game] \notin jobs
    /\ jobs' = jobs \cup {[kind |-> "folder", game |-> dialog.game]}
    /\ UNCHANGED <<database, choice, view, derived, generations>>

\* CancelGamePathDialog
CancelDialog ==
    /\ Room /\ dialog # None
    /\ dialog' = None
    /\ selected' = dialog.previous
    /\ \/ /\ dialog.previous # None
          /\ SwitchContext(jobs, dialog.previous)
          /\ UNCHANGED <<active, listed>>
       \/ /\ dialog.previous = None
          /\ loaded' = None /\ active' = None /\ listed' = {}
          /\ conflicts' = None /\ diagnostics' = Idle
          /\ UNCHANGED <<tools, toolsLoading, generations, jobs>>
    /\ UNCHANGED <<database, paths, view>>

\* SwitchProfile: the old profile stays on the screen until the new one is loaded.
SwitchProfile(p) ==
    /\ Room /\ dialog = None
    /\ p \in listed
    /\ active' = p.name
    /\ UNCHANGED <<selected, loaded>>
    /\ Reload(jobs, FALSE, TRUE)
    /\ UNCHANGED <<database, listed, dialog, paths, view, conflicts, diagnostics, tools>>

\* start_diagnostics_load
StartDiagnostics(rest) ==
    IF loaded' = None
    THEN /\ diagnostics' = [state |-> "error", of |-> None]
         /\ jobs' = rest
         /\ UNCHANGED diagGen
    ELSE /\ diagGen' = diagGen + 1
         /\ diagnostics' = [state |-> "running", of |-> None]
         /\ jobs' = rest \cup {[kind |-> "diagnostics", gen |-> diagGen + 1, of |-> loaded']}

OpenDiagnostics ==
    /\ Room /\ dialog = None
    /\ diagGen < MaxReports
    /\ view' = "diagnostics"
    /\ UNCHANGED loaded
    /\ StartDiagnostics(jobs)
    /\ UNCHANGED <<database, selected, active, listed, dialog, paths,
                   conflicts, tools, toolsLoading, contextGen, dataGen, toolGen>>

\* SwitchView(DataTab), refresh_data_tab_conflicts
OpenDataTab ==
    /\ Room /\ dialog = None
    /\ dataGen < MaxTables
    /\ view' = "other"
    /\ \/ /\ loaded = None
          /\ conflicts' = None
          /\ UNCHANGED <<dataGen, jobs>>
       \/ /\ loaded # None
          /\ dataGen' = dataGen + 1
          /\ jobs' = jobs \cup {[kind |-> "data", gen |-> dataGen + 1, of |-> loaded]}
          /\ UNCHANGED conflicts
    /\ UNCHANGED <<database, choice, diagnostics, tools, toolsLoading, contextGen, diagGen, toolGen>>

\* SwitchView(Tools), start_tools_load: this generation no switch of games counts on.
OpenTools ==
    /\ Room /\ dialog = None
    /\ toolGen < MaxTools
    /\ view' = "other"
    /\ LET g == GameOf(loaded, selected) IN
       \/ /\ g = None
          /\ tools' = None /\ toolsLoading' = FALSE
          /\ UNCHANGED <<toolGen, jobs>>
       \/ /\ g # None
          /\ toolGen' = toolGen + 1
          /\ toolsLoading' = TRUE
          /\ jobs' = jobs \cup {[kind |-> "tools", gen |-> toolGen + 1, game |-> g]}
          /\ UNCHANGED tools
    /\ UNCHANGED <<database, choice, conflicts, diagnostics, contextGen, dataGen, diagGen>>

\* The other views start nothing that is kept here.
OpenOther ==
    /\ dialog = None
    /\ view # "other" /\ view' = "other"
    /\ UNCHANGED <<database, choice, derived, generations, jobs>>

\* ToggleMod, ReorderMod, RemoveMod, LockMod, UnlockMod: offered for the mods of the loaded
\* profile, done to the active one.
Edit(op) ==
    /\ Room /\ dialog = None
    /\ loaded # None /\ active # None
    /\ StartWrite(jobs, op, active, None)

\* AddMod: a file chooser first.
ChooseMod ==
    /\ Room /\ dialog = None
    /\ [kind |-> "file"] \notin jobs
    /\ jobs' = jobs \cup {[kind |-> "file"]}
    /\ UNCHANGED <<database, choice, view, derived, generations>>

\* CreateProfile, DeleteProfile, ForkProfile
Create(n) ==
    /\ Room /\ dialog = None
    /\ selected # None
    /\ StartWrite(jobs, "create", n, selected)

Delete ==
    /\ Room /\ dialog = None
    /\ active # None
    /\ StartWrite(jobs, "delete", active, None)

\* Fork offers the profile named here; the new one gets a name that is not its own.
Fork(n) ==
    /\ Room /\ dialog = None
    /\ active # None /\ loaded # None /\ n # active
    /\ StartWrite(jobs, "fork", n, loaded.profile.game)

\* TryProfile, RollbackExperiment, CommitExperiment
Experiment(op) ==
    /\ Room /\ dialog = None
    /\ loaded # None
    /\ op = "try" => active # None
    /\ StartWrite(jobs, op, active, loaded.profile.game)

\* A command in a terminal changes a profile, or deletes it
Elsewhere(p) ==
    /\ clock < MaxWrites
    /\ stored[p] # 0
    /\ stored' \in {[stored EXCEPT ![p] = n] : n \in {0, clock + 1}}
    /\ clock' = clock + 1
    /\ current' = [g \in Games |-> IF stored'[p] = 0 /\ current[g] = p THEN None
                                    ELSE current[g]]
    /\ UNCHANGED <<choice, view, derived, generations, jobs>>

\* and says so.
ExternalRefresh ==
    /\ Room
    /\ UNCHANGED <<selected, active, loaded>>
    /\ Reload(jobs, FALSE, FALSE)
    /\ UNCHANGED <<database, listed, dialog, paths, view, conflicts, diagnostics, tools>>

-----------------------------------------------------------------------------
(* What the jobs do. A load reads the database in one step; a write that changes a row reads   *)
(* it in one step and writes it in a later one.                                              *)

\* load_profile when a game is given; load_profile_by_name, which refuses two rows, otherwise.
Found(name, g) ==
    LET rows == {p \in Rows : p.name = name /\ (g # None => p.game = g)}
    IN  IF Cardinality(rows) = 1 THEN rows ELSE {}

Answered(j, a) == jobs' = (jobs \ {j}) \cup {[j EXCEPT !.answer = a]}

\* The answers that make the interface load again, and those that only say what went wrong.
Done == [ok |-> TRUE, previous |-> None]
Failed == [ok |-> FALSE, previous |-> None]

\* load_profile_context
LoadContext(j) ==
    LET r == j.request
        list == {p \in Rows : r.selected # None => p.game = r.selected}
        chosen == IF ~r.recompute THEN {r.active}
                  ELSE IF r.selected # None /\ current[r.selected] # None
                       THEN {current[r.selected].name}
                       ELSE IF list = {} THEN {None} ELSE {p.name : p \in list}
    IN  /\ j.kind = "context" /\ j.answer = None
        /\ \/ \E name \in chosen :
                LET rows == IF name = None THEN {} ELSE Found(name, r.selected)
                    kept == IF name = None THEN None ELSE r.fallback
                IN  \E l \in IF rows = {} THEN {None} ELSE {Version(p) : p \in rows} :
                        Answered(j, [ok |-> TRUE, listed |-> list, active |-> name, loaded |-> l,
                                     keep |-> l = None /\ name # None,
                                     conflicts |-> IF l = None THEN kept ELSE l])
           \/ r.tools # None /\ Answered(j, Failed)
        /\ UNCHANGED <<database, choice, view, derived, generations>>

\* The first half of a write that changes or deletes a row: find it by its name alone.
ReadRow(j) ==
    /\ j.kind = "write" /\ j.answer = None /\ j.read = None
    /\ j.op \in {"edit", "lock", "delete"}
    /\ \/ \E p \in Found(j.name, None) : jobs' = (jobs \ {j}) \cup {[j EXCEPT !.read = p]}
       \/ Answered(j, Failed)
    /\ UNCHANGED <<database, choice, view, derived, generations>>

Put(p) == stored' = [stored EXCEPT ![p] = clock + 1] /\ clock' = clock + 1

\* create_or_update makes the row again if it has gone; update, for locks, refuses.
SaveRow(j) ==
    /\ j.kind = "write" /\ j.answer = None
    /\ j.op \in {"edit", "lock"} /\ j.read # None
    /\ \/ (j.op = "edit" \/ stored[j.read] # 0) /\ Put(j.read) /\ Answered(j, Done)
       \/ UNCHANGED <<stored, clock>> /\ Answered(j, Failed)
    /\ UNCHANGED <<current, choice, view, derived, generations>>

DeleteRow(j) ==
    /\ j.kind = "write" /\ j.answer = None
    /\ j.op = "delete" /\ j.read # None
    /\ \/ /\ stored' = [stored EXCEPT ![j.read] = 0]
          /\ current' = [g \in Games |-> IF current[g] = j.read THEN None ELSE current[g]]
          /\ Answered(j, Done)
       \/ UNCHANGED <<stored, current>> /\ Answered(j, Failed)
    /\ UNCHANGED <<clock, choice, view, derived, generations>>

\* create_profile; fork_profile, which needs its source
MakeRow(j) ==
    /\ j.kind = "write" /\ j.answer = None
    /\ j.op \in {"create", "fork"}
    /\ \/ \E p \in Profiles \ Rows :
            /\ p.name = j.name /\ p.game = j.game
            /\ j.op = "fork" => Found(j.source, j.game) # {}
            /\ Put(p)
            /\ Answered(j, Done)
       \/ UNCHANGED <<stored, clock>> /\ Answered(j, Failed)
    /\ UNCHANGED <<current, choice, view, derived, generations>>

\* try_profile, rollback and commit, as far as the interface sees them: ProfileManager has
\* their steps, and says which profile a rollback returns to.
MoveExperiment(j) ==
    /\ j.kind = "write" /\ j.answer = None
    /\ j.op \in {"try", "rollback", "commit"}
    /\ \/ /\ j.op = "try"
          /\ \E p \in Found(j.name, j.game) : current' = [current EXCEPT ![j.game] = p]
          /\ Answered(j, Done)
       \/ /\ j.op = "rollback"
          /\ \E p \in Rows :
                /\ p.game = j.game
                /\ current' = [current EXCEPT ![j.game] = p]
                /\ Answered(j, [Done EXCEPT !.previous = p.name])
       \/ j.op = "commit" /\ UNCHANGED current /\ Answered(j, Done)
       \/ UNCHANGED current /\ Answered(j, Failed)
    /\ UNCHANGED <<stored, clock, choice, view, derived, generations>>

-----------------------------------------------------------------------------
(* Answers *)

Drop(j) ==
    /\ jobs' = jobs \ {j}
    /\ UNCHANGED <<database, choice, view, derived, generations>>

\* ProfileContextLoaded; apply_profile_context
ContextLoaded(j) ==
    /\ j.kind = "context" /\ j.answer # None
    /\ \/ j.gen # contextGen /\ Drop(j)
       \/ /\ j.gen = contextGen /\ ~j.answer.ok
          /\ toolsLoading' = FALSE
          /\ jobs' = jobs \ {j}
          /\ UNCHANGED <<choice, view, conflicts, diagnostics, tools, generations>>
       \/ /\ j.gen = contextGen /\ j.answer.ok
          /\ listed' = j.answer.listed
          /\ active' = j.answer.active
          /\ loaded' = IF j.answer.keep THEN loaded ELSE j.answer.loaded
          /\ conflicts' = j.answer.conflicts
          /\ tools' = j.request.tools
          /\ toolsLoading' = FALSE
          /\ IF j.request.rerun /\ view = "diagnostics"
             THEN StartDiagnostics(jobs \ {j})
             ELSE /\ diagnostics' = Idle
                  /\ jobs' = jobs \ {j}
                  /\ UNCHANGED diagGen
          /\ UNCHANGED <<selected, dialog, paths, view, contextGen, dataGen, toolGen>>
    /\ UNCHANGED database

\* ProfileWriteDone: the write has happened, whether or not its answer still counts.
WriteDone(j) ==
    /\ j.kind = "write" /\ j.answer # None
    /\ j.op \in {"edit", "lock", "create", "fork", "delete"}
    /\ \/ (j.gen # contextGen \/ ~j.answer.ok) /\ Drop(j)
       \/ /\ j.gen = contextGen /\ j.answer.ok
          /\ selected' = IF j.op = "create" THEN j.game ELSE selected
          /\ active' = IF j.op \in {"create", "fork"} THEN j.name ELSE active
          /\ IF j.op = "delete" /\ selected # None
             THEN SwitchContext(jobs \ {j}, selected)
             ELSE /\ UNCHANGED loaded
                  /\ Reload(jobs \ {j}, j.op = "delete" /\ active = j.name, FALSE)
                  /\ UNCHANGED <<conflicts, diagnostics, tools>>
          /\ UNCHANGED <<database, listed, dialog, paths, view>>

\* ExperimentWriteDone
ExperimentDone(j) ==
    /\ j.kind = "write" /\ j.answer # None
    /\ j.op \in {"try", "rollback", "commit"}
    /\ \/ (j.gen # contextGen \/ ~j.answer.ok) /\ Drop(j)
       \/ /\ j.gen = contextGen /\ j.answer.ok
          /\ active' = IF j.answer.previous # None THEN j.answer.previous ELSE active
          /\ UNCHANGED <<selected, loaded>>
          /\ Reload(jobs \ {j}, FALSE, FALSE)
          /\ UNCHANGED <<database, listed, dialog, paths, view, conflicts, diagnostics, tools>>

\* DataTabConflictsLoaded, of a job that may have failed
DataLoaded(j) ==
    /\ j.kind = "data"
    /\ \/ j.gen # dataGen /\ Drop(j)
       \/ /\ j.gen = dataGen
          /\ conflicts' \in {j.of, None}
          /\ jobs' = jobs \ {j}
          /\ UNCHANGED <<database, choice, view, diagnostics, tools, toolsLoading, generations>>

\* DiagnosticsComputed; apply_diagnostics_computed
DiagnosticsDone(j) ==
    /\ j.kind = "diagnostics"
    /\ \/ j.gen # diagGen /\ Drop(j)
       \/ /\ j.gen = diagGen
          /\ \/ diagnostics' = [state |-> "complete", of |-> j.of] /\ conflicts' = j.of
             \/ diagnostics' = [state |-> "error", of |-> None] /\ UNCHANGED conflicts
          /\ jobs' = jobs \ {j}
          /\ UNCHANGED <<database, choice, view, tools, toolsLoading, generations>>

\* ToolsLoaded
ToolsLoaded(j) ==
    /\ j.kind = "tools"
    /\ \/ j.gen # toolGen /\ Drop(j)
       \/ /\ j.gen = toolGen
          /\ tools' \in {j.game, tools}
          /\ toolsLoading' = FALSE
          /\ jobs' = jobs \ {j}
          /\ UNCHANGED <<database, choice, view, conflicts, diagnostics, generations>>

\* GamePathDialogPathSelected, or Noop
FolderPicked(j) ==
    /\ j.kind = "folder"
    /\ \/ Drop(j)
       \/ /\ paths' = paths \cup {j.game}
          /\ selected' = j.game
          /\ dialog' = None
          /\ SwitchContext(jobs \ {j}, j.game)
          /\ UNCHANGED <<database, active, listed, view>>

\* AddModFromPath: for the profile active by then, or Noop
FilePicked(j) ==
    /\ j.kind = "file"
    /\ \/ Drop(j)
       \/ active # None /\ StartWrite(jobs \ {j}, "edit", active, None)

-----------------------------------------------------------------------------
User ==
    \/ \E g \in Games : SelectGame(g)
    \/ BrowseFolder \/ CancelDialog
    \/ \E p \in Profiles : SwitchProfile(p)
    \/ OpenDiagnostics \/ OpenDataTab \/ OpenTools \/ OpenOther
    \/ \E op \in {"edit", "lock"} : Edit(op)
    \/ ChooseMod
    \/ \E n \in Names : Create(n) \/ Fork(n)
    \/ Delete
    \/ \E op \in {"try", "rollback", "commit"} : Experiment(op)

Work(j) ==
    \/ LoadContext(j) \/ ReadRow(j) \/ SaveRow(j) \/ DeleteRow(j) \/ MakeRow(j)
    \/ MoveExperiment(j)

Deliver(j) ==
    \/ ContextLoaded(j) \/ WriteDone(j) \/ ExperimentDone(j) \/ DataLoaded(j)
    \/ DiagnosticsDone(j) \/ ToolsLoaded(j) \/ FolderPicked(j) \/ FilePicked(j)

\* new: the interface starts in the game of its settings, as if it had been selected.
Init ==
    /\ stored = [p \in Profiles |-> IF p \in First THEN 1 ELSE 0]
    /\ clock = 1
    /\ current = Activated
    /\ selected \in Games
    /\ active = None /\ loaded = None /\ listed = {}
    /\ paths = Games \ Undetected
    /\ view = "other"
    /\ conflicts = None /\ diagnostics = Idle /\ tools = None
    /\ toolGen = 0
    /\ contextGen = (IF selected \in paths THEN 1 ELSE 0)
    /\ dataGen = contextGen /\ diagGen = contextGen
    /\ toolsLoading = (selected \in paths)
    /\ dialog = IF selected \in paths THEN None ELSE [game |-> selected, previous |-> None]
    /\ jobs = IF selected \in paths
              THEN {[kind |-> "context", gen |-> 1, answer |-> None,
                     request |-> [selected |-> selected, active |-> None, recompute |-> TRUE,
                                  fallback |-> None, tools |-> selected, rerun |-> FALSE]]}
              ELSE {}

Next == User \/ ExternalRefresh \/ (\E p \in Profiles : Elsewhere(p))
        \/ \E j \in jobs : Work(j) \/ Deliver(j)

Spec == Init /\ [][Next]_vars

-----------------------------------------------------------------------------
(* Properties *)

Report == [state : {"idle", "running", "error"}, of : {None}]
          \cup [state : {"complete"}, of : Versions]

Request == [selected : Games \cup {None}, active : Names \cup {None}, recompute : BOOLEAN,
            fallback : Versions \cup {None}, tools : Games \cup {None}, rerun : BOOLEAN]

Answer ==
    Loads \cup [ok : BOOLEAN, previous : Names \cup {None}]

Job ==
    [kind : {"context"}, gen : Nat, request : Request, answer : Answer \cup {None}]
    \cup [kind : {"write"}, gen : Nat,
          op : {"edit", "lock", "create", "fork", "delete", "try", "rollback", "commit"},
          name : Names \cup {None}, game : Games \cup {None}, source : Names \cup {None},
          read : Profiles \cup {None}, answer : Answer \cup {None}]
    \cup [kind : {"data", "diagnostics"}, gen : Nat, of : Versions]
    \cup [kind : {"tools"}, gen : Nat, game : Games]
    \cup [kind : {"folder"}, game : Games]
    \cup [kind : {"file"}]

\* The types of the database's tables, of the interface's model and of the jobs.
TypeOK ==
    /\ stored \in [Profiles -> Nat] /\ clock \in Nat
    /\ current \in [Games -> Profiles \cup {None}]
    /\ selected \in Games \cup {None} /\ active \in Names \cup {None}
    /\ loaded \in Versions \cup {None} /\ conflicts \in Versions \cup {None}
    /\ listed \subseteq Profiles /\ paths \subseteq Games
    /\ dialog \in [game : Games, previous : Games \cup {None}] \cup {None}
    /\ view \in {"diagnostics", "other"}
    /\ diagnostics \in Report
    /\ tools \in Games \cup {None} /\ toolsLoading \in BOOLEAN
    /\ contextGen \in Nat /\ dataGen \in Nat /\ diagGen \in Nat /\ toolGen \in Nat
    /\ \A j \in jobs : j \in Job

\* Whatever answers came late, with no dialog open the profile on the screen is one of the
\* selected game: buttons act in the game whose name they are under (types.rs:189-192).
Settled == dialog = None /\ selected # None

LoadedIsSelected == Settled /\ loaded # None => loaded.profile.game = selected

\* The conflict table and the report, which are made from a profile taken along when their
\* jobs start, never describe another game's profile (types.rs:193-200).
DerivedIsSelected ==
    Settled => \A v \in {conflicts, diagnostics.of} \ {None} : v.profile.game = selected

\* A later answer never takes the profile on the screen back to an older version of itself:
\* the answer of a load that began before a change is not shown after one that saw it.
NeverOlder ==
    [][(loaded # None /\ loaded' # None /\ loaded.profile = loaded'.profile)
        => loaded.version <= loaded'.version]_vars

\* What the comment at the guard says (system.rs:19-20): an answer is dropped only if the user
\* has moved on to another game or profile, or another load will show this one.
MovedOn(j) ==
    \/ j.request.selected # selected
    \/ ~j.request.recompute /\ j.request.active # active
    \/ \E k \in jobs : k.kind = "context" /\ k.gen > j.gen

DroppedIsMovedOn ==
    [][\A j \in jobs \ jobs' :
        j.kind = "context" /\ j.answer # None /\ j.gen # contextGen => MovedOn(j)]_vars
=============================================================================
