# A verification of modde

[modde](../src) is a manager of game mods: a Rust workspace of nine crates. This directory
holds TLA+ modules that model its stateful core, TLC configurations that check them on small
instances, and TLAPS proofs about eight of them. Every definition is translated from the code;
`PROJECT.json` maps each one to its lines.

## The system

| component | state it keeps | operations | how it is reached |
|---|---|---|---|
| **manager apply** (`modde-manager`: `transaction.rs`, `files.rs`) | the files of a game client's runtime root; a recovery directory with a journal per apply; a lock on the root | prepare, apply (lease, revalidate, stage, commit loop, rollback) | a process of its own; races with other managers, the game and the user |
| **profiles** (`modde-core/src/profile`, `db/saves.rs`, `db/profile.rs`) | tables `profiles`, `profile_mods`, `active_profiles`, `experiment_stack` | create, update, delete, fork, activate, try, rollback, commit | CLI and UI; calls the save vault, then the database |
| **save vault** (`modde-core/src/save/manager`) | a git repository per game, a branch per profile; the live save directory and the saves parked in it | capture, park, deploy, fork, adopt, restore, watch | profiles, `modde save`; the game writes the live directory |
| **deployment** (`modde-core/src/vfs`, `fs.rs`, `hot_deploy.rs`, plugins of `modde-games`) | a staging tree per profile (`staging`, `staging.bak`, `staging.old`); the game's mod directory | deploy, hot-deploy, rollback | CLI and UI; reads the mod rows, hot-deploy also writes them |
| **load order** (`modde-core/src/resolver`, `db/profile.rs`, `db/bisect.rs`, `modde-ui/src/app/profile_ops.rs`) | tables `profile_mods` and `load_order_rules`, the profile's lock; the sort itself keeps nothing | reorder, toggle, pin, lock, add, remove; resolve | UI and CLI edit; deployments, hot deployments and conflict tables resolve |
| collision engine, plugin order | none (pure) | winners, severity | deployment |
| **Wabbajack installer** (`modde-sources/src/wabbajack`, `decompress`, `direct`) | the store of archives and the record of those verified; staged files, plain or compressed; a sentinel per batch and per BSA; the game's directory | reset, plan, adopt, inline files, batches (trust, download, extract, patch, seal, prune), BSAs, compress, validate, deploy, save; import | CLI and UI; one command at a time, workers at the same time |
| **assisted acquisition** (`modde-sources/src/wabbajack/acquire*`, `import.rs`, `modde-cli/src/commands/wabbajack/acquire`) | the download folder and the store, whose files may be one and the same; what a command waits for, its candidates and its deadline | acquire with or without a browser, try a form, a login, Nexus, watch, import, give up | CLI, before an installation; browsers, users and other terminals write the same files |
| download queue (`modde-sources/src/queue.rs`) | tasks and `.meta` sidecars | enqueue, take, pause, resume, cancel, load, save | nothing: only its tests drive it |
| **bisect** (`modde-core/src/bisect.rs`, `db/bisect.rs`, `modde-cli/src/commands/bisect`) | tables `bisect_sessions`, `bisect_steps`; a candidate profile per step | start, run, retry, mark, abort | CLI; creates, activates, deploys and deletes profiles, starts the game |
| tool history, patcher pipelines | tables of nodes and runs | set, undo, redo; run | CLI and UI |
| **interface** (`modde-ui`) | the selected game, the active and the loaded profile, tables made from it, four generation numbers; jobs and their answers | select, switch, edit, create, fork, delete, try, report; load, write, answer | the user, commands in a terminal; jobs read and write the tables of the profiles |
| backends, codecs, lockfile, oracle, paths, settings | files | input and output | everybody |

What is hard in it: `apply` checks by name and moves by name while others write; it can fail at
every system call and must undo what it did. A change of profile strings some twenty steps over git,
two directories and a database together, without a transaction, and may die between any two. Depths
of the experiment stack are counted, while foreign keys delete rows. Two hops of links lead from a
game to a mod, and either may be something other than the next deployment expects. A bisect session
lives for days between its commands, and every verdict depends on what the game's folder held when
it was played. An installation may stop anywhere, and what the next one may skip is read off the
files the last one left. A download is recognised by looking at a folder again and again, and what
is found is one file with what the store gets. The interface never waits: answers arrive in any
order, after the question has lost its sense. A profile's list is written row by row, while others
read it. The `hazards` of `PROJECT.json` list these places at their lines.

What makes the parts correct:

- *manager apply*: no file anybody had is destroyed; an undone apply leaves nothing behind; the
  journal is enough to recover by hand; the lease always comes back.
- *profiles*: the experiment stack is a stack; rows refer to profiles that exist.
- *save vault*: no save is lost; a save leaves its place only when it is committed; the game sees
  the saves of the active profile.
- *deployment*: the game sees the winner of each path; files modde did not make are only replaced by
  what the profile has; a kept tree can be brought back.
- *bisect*: the culprit stays among the suspects; a verdict is on what its step deployed; a session
  ends, stays ended, and leaves the profiles as it found them.
- *load order*: the order found is the one the contract of `resolve` describes, and a cycle is
  reported when there is none; an edit changes what it says, past no pin and no lock.
- *installer*: nothing is made from an archive that is not what its hash says; a record of work done
  is true; what is deployed is what was staged.
- *assisted acquisition*: what is reported as acquired is in the store; what is whole there stays
  so, but for a download of the same name that is opened or imported over it; a wait ends.
- *interface*: what is on the screen belongs to the game whose name is over it, and never goes back
  in time.

## Modules

| module | models | |
|---|---|---|
| `ManagerApply` | `Prepared::apply`, one action per step between two system calls that others can tell apart | `MCManagerApply` |
| `ManagerApply_proofs` | theorems about it | |
| `SaveVault` | the vault and the live saves: the steps of `SaveManager` as operators | |
| `ProfileManager` | extends `SaveVault` with the tables, and strings its steps into commands | `MCProfileManager` |
| `LifoStack` | what the experiment stack promises; `ProfileManager` implements it (`Experiments == INSTANCE LifoStack WITH ...`) | |
| `ProfileManager_proofs` | theorems about `ProfileManager` with `SaveVault` and `LifoStack` | |
| `Deployment` | the farm, its projection, hot deployment, rollback | `MCDeployment` |
| `Deployment_proofs` | theorems about it | |
| `Bisect` | the search for a culprit and its session, one action per statement of a command | `MCBisect` |
| `Bisect_proofs` | theorems about it | |
| `Install` | a Wabbajack installation from its reset to the saved profile, and the next ones | `MCInstall` |
| `Install_proofs` | theorems about it | |
| `Acquire` | a command that acquires the missing archives, and everybody else at its files | `MCAcquire` |
| `Acquire_proofs` | theorems about it | |
| `Interface` | the event loop, its jobs and their answers | `MCInterface` |
| `Interface_proofs` | theorems about it | |
| `Resolver` | `resolve`, one action per round of its loop | |
| `LoadOrder` | extends `Resolver` with the profile's list, the sessions that edit it and a deployment that reads it | `MCLoadOrder` |
| `ProfileEdits` | what an edit promises; `LoadOrder` implements it (`Edits == INSTANCE ProfileEdits WITH ...`) | |
| `LoadOrder_proofs` | theorems about `Resolver` and `LoadOrder` | |

### ManagerApply

`disk[i]` is what destination `i` holds, `dirs` the folders there are, `old[m][i]` and
`rolled[m][i]` the files `old-i` and `rolled-back-i` of manager `m`'s recovery directory,
`journal[m]` its `journal.json`. `pc[m]` names the place in `apply_inner`; the locals `committed`,
`pending_backup` and `created` are variables. A label is a point where the outside can intervene:
the read of a destination (`Check`), the making of its folder (`Open`), each journal write, each
rename, each step of the rollback. The closure's `?` is `Abort`; its failure at any point is
`FaultCommit`, elsewhere `FaultReturn`, `FaultRollback`, `FaultJournalRollback`. A failed journal
write may or may not have replaced the file. `Crash` drops the lock and keeps the disk.
`ForeignWrite`, `ForeignLitter` and `ForeignRmdir` are everybody else.

Abstracted: contents are compared only, so an image is a model value, and seeds are files (a seed
tree is added file by file). A prepare and a revalidation read all destinations in one step. The
identity of directories (device and inode) is not kept, so the replacement of a folder by another
one of the same name is not covered. The journal's `createdDirectories` is left out. The wanted
images are given; rendering the configuration is `wiring.rs`. The check that the game is stopped
can only fail or pass, so it is a `FaultReturn` or nothing.

### SaveVault and ProfileManager

A save is the stamp of the write that made it. A branch is the sequence of its commits; a commit
is its history, as a git hash is. `work` and `tracked` are the working tree and the index, kept
because a capture that dies leaves both behind, and what a forced checkout removes depends on them.
A command is `cmd` and a label: `Activate` starts `capture -> copyin -> stage -> commit ->
resetpark -> park* -> deploy -> clear -> copyout* -> setactive`; `Try` puts `push` before it,
`Rollback` pops and looks up the active profile (`RollbackCurrent`). Directory loops visit one
file a step, in any order. `Crash` stands for a death and for a failed call alike: nothing is
undone. `WatchCapture` is one step, between commands. `author` and `forfeit` are history variables
of the properties.

Restrictions of the instances, not of the code: one command runs at a time (two modde processes are
not covered); `CrossProfile` says whether save commands name a profile that is not active, and
`Slug` keeps names distinct, so that two profiles that sanitise to one branch are not covered. Any
profile may be deleted, and its rows of the stack with it; `lost` remembers how many rows deletions
took since the stack was last empty, for a depth is a number of rows and says less of the order
then. Amending a commit message changes no tree and is left out. The live directory exists whenever
`SaveDir`.

### Deployment

A link is what it names: in a staging tree a mod or an override, in the mod directory a profile
(its staging file of the same path), in a staging tree that was written through also a profile.
`entry[r]` is a top-level entry of the mod directory: a folder, a link to a staging tree, nothing.
`Seen` follows the links as the game would. `layout` is how the game's plugin deploys: `"files"`
(`deploy_symlinks`, the default, BG3) or `"roots"` (Cyberpunk). Each removal and each link is a
step. `Forget` and `Insert` are `update_profile`, which is no transaction. The farm is a function
of the rows in the order `Rank`. `KeepBackup` is the user: no command makes `staging.bak`.

Not modelled: Wabbajack profiles, plugins with several roots, alternative targets, patcher stages,
files at the top level of the mod directory, trees whose mod and whose farm disagree on what is a
directory. Names that differ in case only are one path.

### Bisect

`session` and `steps` are the rows, `candidates` and `off` the candidate profiles and what they
disable, `visible` the mods the game finds. Mods are positions in the source profile, steps their
index. `pc[t]` and `cmd[t]` are the command in terminal `t`: `Run` reads the session and plans, then
`create -> record -> wait -> activate -> deploy -> play`; a verdict (`Play` of an oracle, or `Mark`)
goes `load -> complete -> advance`, and at the end of a session `cleanup* -> restore`; `Abort` goes
`abclean* -> abort -> restore`. `Enabled` is the loop over dependencies, stated as the least closed
set it ends in. `cause` is what nobody knows: the mods that spoil the game together. The player of
the model is honest, and marks the candidate deployed last.

Abstracted: an oracle's verdict is what the visible mods deserve (crash logs and statistics are
left out); a deployment is one step, which replaces the visible mods (`Shared`) or adds to them, as
`Deployment` has it in detail; the reads of a command before its first write are one step; the
saves are one bit, `littered`. One session for each instance. `finish_without_candidate` is never
reached: an active session has at least two suspects, as `start` asks for two and `Advance` ends
the session at one.

### Install

The contents of a file are `absent`, `torn` (opened and not filled), `whole` or, for a BSA, `hollow`
(built while an input was missing). The code has two temporary folders for a BSA: it is built from
`Inputs`, in `bsa_temp_<id>`, and what fills `TEMP_BSA_FILES/<id>` (`Feeds`) is skipped when the BSA
is there. An output has a plain and a packed form (`StagingStore`).
`store[a]` is the archive in the store, `vouched` the verified sidecars, `sentinel[a]` the record of
a batch: the files it named, and whether it was earned by making them or adopted because they were
there (`adopt_existing_staging`). `game[o]` is `linked` when the game's file is a hard link to the
plain form, so that `Played` follows what is written to it; `Unlinked` is what a replacement by
rename or removal leaves the game with. `pc` is the pass, `batch[a]` where the worker of archive `a`
is; workers interleave file by file. `Stop` is a failure that ends the command, `Crash` a death;
both leave the disk as it is, and `Begin` starts the next command with other options. `Import`
stands for `import_archives`, between commands.

Abstracted: the number of workers and the memory gate (any number at once); the catalogue and the
transaction solved beforehand (one list); sizes (`Small`, `Large`); the formats of archives; a
failure of a system call that writes no file is a `Stop`. Not modelled: a list that changes between
two commands, verification reports, launcher settings. How manual archives come to be imported is
`Acquire`.

### Acquire

`folder[n]` is the download of name `n`, `store[a]` what lies under `a`'s hash, and `link[a]` the
file that is: the download of a name, which `import_archives` makes it with a hard link, or one of
the store's own. Two archives may have one name, and then one file may lie under both hashes.
`WriteFile` writes to a file under all its names (`WriteInPlace` opens a download, `CopyOver` the
entry of the store); `Replace` and `Move` change what a name is and leave the file with the others.
A command tries every missing archive once (`Take`; `Form`, `Login`, `Page` and `Nexus` are the
kinds of sources), and what it could not get it waits for: one at a time, or all together under one
deadline when there is a `controller`. The direct client opens `TempOf` in the watched folder
(`Form`), fills it (`Receive`), and renames it (`Rename`) or copies it to the name (`MoveToName`,
`Fill`); the Nexus client opens the name itself (`Nexus`, `Stream`). A poll is `List -> Look*`, and a
hash that ends in `Vanished`, `Found` or `Unwanted`: `seen[n]` is the `CandidateState` of a path,
`ripe` when its length has not changed for `STABLE_FOR`, `hashed` when `hashed_len` is that length.
A match goes through `Hash -> Place -> Verify`, three steps between which everybody else may act, as
they may between a `Look` and its hash. `Save`, `Complete` and `Discard` are the browser and the
user, `ImportElsewhere` a command in another terminal. `took` and `spoilt` are history variables:
the archive that was imported for another, and the archives written over since.

Abstracted: what pages and APIs answer (any of the code's outcomes), bytes (an archive, torn, or
other junk with a length), how a browser is started, the order of paths in a poll. A failed write is
a death, and `Fail` any error that ends the command. A download is not discarded while the command
fills it, which would be the same as discarding it before or after. Not modelled: archives of equal
contents, sources without a URL, names `safe_archive_file_name` maps to one file (`NameOf` may).

### Interface

The model of the application keeps its names where the code has them: `selected` is
`selected_game`, `loaded` the profile on the screen with the number of the write that made it what
it is, `conflicts`, `diagnostics` and `tools` what was computed from it. A handler is one action; it
changes the model, counts generations on and starts jobs. `jobs` holds what runs elsewhere and what
has come back; `Work` is a job's step on the database, `Deliver` the handler of its answer, and any
answer may come at any time. `StartWrite` counts the context generation on without starting a load,
`Dispatch` counts three and starts one. A game in `Undetected` opens a dialog, over which nothing
else can be done, but answers arrive. `Elsewhere` is a command in a terminal, `ExternalRefresh` the
message it sends.

Abstracted: a load reads in one step (`LoadOrder` has its statements), the list of mods is a version
number, an experiment is its effect on the active profile (`ProfileManager` has its steps). Not
modelled: views that keep nothing, the screens of tools, downloads, FOMOD and settings with their
own writes, layout.

### Resolver and LoadOrder

`Begin` is `resolve` up to its loop (enabled mods, incompatibilities, degrees, the first ready
mods), `Pop` a round of the loop, `Finish` what follows it. Rules are records of two mods and a
kind; two different rules may say the same, and a degree counts rules. The heap is the set `ready`,
from which the mod with the least position is taken. `ResolveSpec` resolves any list under any rules
and is what is proved about; `LoadOrder` composes the same actions with the database.

In `LoadOrder`, `rows` is `profile_mods` as `load_mods` orders it: a row goes behind those that were
inserted before it with the same or a smaller `sort_index`. `session[e]` is what an editor has read
and where it is: `mods -> rules -> edit -> update -> clear_mods -> clear_rules -> insert`, a
statement each, as `load_profile_by_name` and `update_profile` run outside a transaction.
`InsertMod` stops at a mod that has a row. `Load` and `Resolve` are a deployment's
two reads. `View` is the list a reader of the code would say the profile has: the session's copy
while it is being written, the rows otherwise; `ProfileEdits` says what may happen to it.

Not modelled: the fields of a row that neither order nor enable, the conflict map and its winners,
the check of saves before a removal, dedup, import, the snapshot written for `modde doctor`.

## Runs

| run | instance | checks | distinct states |
|---|---|---|---|
| `ManagerApply` | 2 managers, 2 destinations (one in a folder that may be missing, one a seed of one manager), 1 foreign change, 1 failure | all six properties | 135 thousand |
| `ProfileExperiments` | 2 profiles, 1 save file, 1 write, stack of 3, deletions of any profile, 1 interruption | `LiveIsActives`, `RollbackIsLifo` | 1.1 million |
| `ProfileCrash` | 2 profiles, 1 save file, 1 write, stack of 1, deletions, 2 interruptions, watcher, a game that deletes, commands across profiles | `TypeOK`, `NothingLost`, `ParkedIsCommitted` | 711 thousand |
| `Deploy` | 2 profiles, 2 mods, 3 paths in 2 folders, both layouts, 1 kept tree, 1 interruption | `TypeOK`, `FarmUnlessLinked`, `TheirsKept` | 1.1 million |
| `BisectSearch` | 4 mods with a chain of dependencies, a culprit or two mods together, 3 steps, 2 terminals (one launches), 1 death | `CauseIsSuspect`, `JudgedIsCandidate` | 1.2 million |
| `BisectEnds` | 5 independent mods, one culprit, 5 steps, 1 terminal | `StepsAreLog`, `ProfilesRestored`, `StaysOver`, `Converges` | 1.3 thousand |
| `Interface` | 2 games, one not found, 3 profiles, 2 jobs at a time, 3 context generations, 2 writes | `TypeOK`, `LoadedIsSelected`, `DerivedIsSelected`, `NeverOlder` | 3.1 million |
| `Install` | 2 archives (one of 2 files, one of a patch), an inline file, a BSA that the patch feeds; 2 commands out of 5 option sets, 1 death or torn import | `TypeOK`, `ExtractsWhole`, `EarnedIsWhole`, `CleanRunIsWhole`, `DeployedIsStaged`, `PruneKeepsOutputs`, `CompressKeepsContent` | 2.6 million |
| `LoadOrder` | 3 mods and one to add, 8 starting profiles, every 2 of 12 rules and 4 cycles of three, 1 edit, 1 death, a deployment at any moment | `TypeOK`, `LeastOrder`, `CycleIsReal`, `RowsAreBeginning`, `EditsAreWhole` | 696 thousand |
| `Acquire` | 2 archives (Nexus, manual) of one name and one temporary name, 3 kinds of junk, one as long as an archive, 2 commands, 1 death, 2 changes by others | `TypeOK`, `FrontloadIsComplete`, `WholeStays`, `WaitEnds` | 470 thousand |

The bounds are where the cases are: two destinations make a commit with something before and after
it, two managers a race, one foreign change between any check and its move, one failure a rollback
(with `MaxFaults = 2`, a failure in the rollback too, and with `MaxWrites = 2` the same properties
were found to hold). Three rows let a deletion take one from between two others, or two from below a
third: the run has both what `RollbackIsLifo` promises and what it gives up. Two interruptions let a
command die while it repeats what another died in. Several files are left to the proofs, which are
for any (`LiveIsActives` was also found to hold with two files and two writes, without
interruptions). Two mods and two profiles make a winner change and one profile's links lie under
another's. Four mods halve twice, with an uneven split where a dependency moves, and two terminals
let a mark or an abort fall between any two statements of a run; five mods make both roundings of a
half occur. Two archives of which one is extracted and one patched have a batch that fails beside
one that does not, and the second command meets everything the first one can leave. Two jobs answer
in either order, three context generations let an answer be dropped whose successor is dropped too.
Three mods and rules that say the same twice make a degree of two, and a mod between two others. Two
archives of one name let one be acquired while the other waits, and be written over by it; junk as
long as an archive is a download preallocated at its final length; two changes by others are a
download that is saved unfinished and then completed or replaced (the safety properties were also
found to hold with three, 1.3 million states); two commands meet what the first, ended anywhere,
left. The profile runs are symmetric in profiles and in files, none of their properties is a
liveness property. Deadlock is not checked where the system may really stop: managers that are done,
profiles with nothing left to do within the bounds.

`LiveIsActives` is checked without watcher and commands across profiles, and speaks of executions
without interruptions: the code does not promise it with them. `NothingLost` does not speak of saves
the game writes while a command runs, for which the code takes no precaution, nor of what a restore
gives up. `EditsAreWhole` is checked with one session that edits: two that overlap undo each other.

Four properties state the condition under which the code keeps them, and a case outside it is in the
instance they are checked on. `RollbackIsLifo` is a promise while deletions took at most one row
since the stack was last empty: a depth is the number of rows there were, and two rows deleted from
below let two others have one depth. `WholeStays` names the two ways in which an archive of the
store is lost: a download is opened whose file it is, which needs a second archive of that name or
of that temporary name, or another is copied over the entry that is one file with it.
`FrontloadIsComplete` leaves out the archives lost so since (`spoilt`) and reports made of an import
that was exchanged for another archive (`took`). `WaitEnds` leaves out a download that was hashed
with other contents of the same length. The table below has each without its condition, refuted in
the run's own instance. The loss through a temporary name needs two manual archives and was met with
`OnNexus = {}`.

### Where the code disagrees with its documentation

Two of the runs end in a counterexample.

- `HotThenDeploy`: in a game whose plugin links files and whose hot deployment links top-level
  entries (BG3), the next full deployment writes through the link into its own staging tree, and
  links every file to itself (`fs.rs:160`; `deployment.md:103-107`). `FarmUnlessLinked` is what
  holds of the same property.
- `SkippedBatch`: a batch that failed or died half-way leaves its files; the next command finds them
  all there, records the batch as done and skips it (`state.rs:75`; `architecture.md:473`).
  `EarnedIsWhole` and `CleanRunIsWhole` are what holds.

More properties state what the documentation says and are not runs of the project. TLC refutes each
in the instance given, everything else being as in the module's own runs (`ProfileExperiments` for
those of `ProfileManager`, `Deploy` for those of `Deployment`, `BisectEnds` for those of `Bisect`):

| property | refuted with | because |
|---|---|---|
| `Bisect!JudgedIsCandidate` | `Shared = FALSE` | links of the source stay in the game (`fs.rs:151`; `troubleshooting.md:247`) |
| `Bisect!JudgedIsCandidate` | `Oracles = {"perf"}` | the perf oracle deploys nothing (`perf.rs:49`; `cli.md:1528`) |
| `Bisect!DisablesSome` | `N = 2`, `MCMaster` | dependencies may leave nothing to disable, and the search stands still (`bisect.rs:217`; `cli.md:1522`) |
| `Bisect!DependenciesKept` | `MCLate` | a cleared mod stays enabled while its master is disabled (`bisect.rs:209`; `troubleshooting.md:248`) |
| `Bisect!CandidatesRemoved` | `SaveMods = {1}` | a candidate is created before it is refused, and no step names it (`flow.rs:46`; `troubleshooting.md:267`) |
| `Bisect!Resumable` | `MaxDeaths = 1` | a candidate that is not recorded blocks its name for every later run (`flow.rs:45`; `cli.md:1521`) |
| `Bisect!StaysOver` | `Terminals = {t1, t2}` | a run under way puts an aborted session back to waiting (`flow.rs:60`; `cli.md:1533`) |
| `ProfileManager!BranchesCutFromMain` | nothing changed | a new branch is cut from the branch checked out last, not from `main` (`vault.rs:70`; `saves.md:25`) |
| `Bisect!SourceRestored` | `SaveDir = TRUE` | the active candidate is deleted before the source is activated, which then finds unadopted saves and does nothing: no profile is active (`candidate.rs:266`; `troubleshooting.md:269`) |
| `ProfileManager!RollbackIsAlwaysLifo` | nothing changed | after two rows went with deleted profiles, depths repeat and a rollback may return to an older experiment (`db/saves.rs:137`; `profiles.md:236`) |
| `ProfileManager!CaptureCarriesFingerprint` | `Fingerprint <- MCDistinct`, `Prints = {NoFp, A, B}` | a switch commits the outgoing profile's saves with the incoming profile's fingerprint (`commands/profile/mod.rs:93`; `manager.rs:114`, `saves.md:170`) |
| `Deployment!RollbackIsProjected` | nothing changed | `modde deploy` after `modde rollback` discards the restored tree (`vfs/mod.rs:98`; `deployment.md:228`) |
| `Interface!DroppedIsMovedOn` | nothing changed | a write that fails after a switch has counted on: the profile's load is dropped, nobody starts another, and the tools stay loading (`core.rs:149`; `system.rs:19-20`) |
| `LoadOrder!RulesKept` | nothing changed | a mod added a second time stops the writing at its second row, when the rules are deleted (`profile_ops.rs:125`, `db/profile.rs:194`) |
| `LoadOrder!LockHolds` | nothing changed | no command but the reorder looks at the lock (`profile_ops.rs:139`; `profiles.md:181-183`) |
| `LoadOrder!ReorderShows` | nothing changed | a rule with a third mod can hide a swap of two that no rule spans (`resolver/mod.rs:185-189`; `architecture.md:338`) |
| `LoadOrder!EditsAreWhole` | `Editors = {gui, cli}`, `MaxEdits = 2` | the later of two sessions writes back what it read, a lock included (`db/profile.rs:157`; `profile/mod.rs:228-233`) |
| `Acquire!WholeAlwaysStays` | nothing changed | the second download of a name is opened in place and overwrites the first archive's hard-linked entry in the store (`common.rs:52`, `direct.rs:389`, `import.rs:88`; `glossary.md:29`, `wabbajack.md:228`) |
| `Acquire!ReportIsTrue` | nothing changed | the same after the report of the first; and a download exchanged before its import is reported as the archive it was asked for (`acquire.rs:387-394`) |
| `Acquire!WaitAlwaysEnds` | nothing changed | a file preallocated at its final length is hashed once, while it pauses, and not again when it is whole (`acquire.rs:243`; `wabbajack.md:189`); nor is one exchanged between the look at its length and its hash (`acquire.rs:246`) |
| `Deployment!RollbackIsPossible` | `MaxCrashes = 1` | an interrupted rollback leaves `staging.old`, on which later rollbacks fail (`vfs/mod.rs:190`; `deployment.md:219`) |

Seen while reading and not a run:

- `first-profile.md:210`, `quick-start.md:321` and `troubleshooting.md:295` say that a deployment
  keeps the previous one in `staging.bak`; no code does, as `deployment.md:225-228` itself says.
- `resolver/mod.rs:287` says a node that still waits "is part of a cycle"; the one that is named may
  only come after one. `profile/mod.rs:57-58` says other mods may move around a pinned one; a
  reorder past it is refused.
- *Installer*: a partial download of an interrupted command stops every later one, until an import
  repairs it (`trust.rs:13-33`; `wabbajack.md:376` says it is safe to run again). An earned
  sentinel of a plan that left files out says nothing of those a later, interrupted command tore.
  BSAs are built with empty places for missing inputs, recorded, and not validated. The plan is
  made anew for the validation, so outputs of archives pruned meanwhile are not looked at
  (`runner.rs:210`). A hard link in the game shows an extraction in progress.
- *Interface*: edits are offered for the mods of the loaded profile and made to the active one;
  `create_or_update` makes a row again that was deleted meanwhile; two games with a profile of one
  name make every edit fail (`db/profile.rs:108`); tool lists have a generation that a switch does
  not count on, so they may be another game's; a file chooser opened before a switch adds to the
  profile active after it.
- *Acquisition*: the timeout is documented as that of each archive (`cli.md:472`,
  `wabbajack.md:189`), and is one for all with the controller (`browser.rs:111`). A download that
  vanishes while it is hashed ends the wait for all (`browser.rs:143`). An import that fails ends
  the whole command, and leaves the wrong bytes in the store, where the next command counts the
  archive as present (`import.rs:97`, `acquire.rs:124`); `FrontloadIsComplete` speaks of the
  archives asked for. The temporary file of a direct download lies in the watched folder under a
  suffix that is not among those of partial downloads (`direct.rs:336`, `acquire.rs:176-188`): left
  whole by a command that was killed, it is imported, and the next download of that stem opens it.
- *Tools*: two writers may give one configuration two successors (`db/tools.rs` reads the parent
  outside its transaction); a crash between clearing and saving forgets which files were applied.

## Fairness

`LeaseIsReturned` of `ManagerApply`, `Converges` of `Bisect` and `WaitEnds` of `Acquire` are
liveness properties.

In `ManagerApply`, `FairSpec` adds weak fairness of each manager's own steps once it has begun: a
process that is not dead keeps running, and nothing in `apply_inner` waits (the lock is `try_lock`).
Failures and foreign writes are not fair. That an apply begins is not assumed.

In `Bisect`, `FairSpec` is weak fairness of what a command does once begun (no statement waits for
another command, and games end), and strong fairness of `Run` and `Mark`: a player who wants an
answer calls the one or the other whenever the session asks for it, again and again. It is strong
because a command in the terminal disables both in between. `Start`, `Retry`, `Abort` and `Die` are
not fair. `Converges` is checked without dependencies: with them the search may stand still, as
`DisablesSome` shows.

In `Acquire`, `FairSpec` is weak fairness of `Step`, what a command does by itself once begun (its
requests time out or answer, and a poll waits for its interval only), and of `Ripen`: time passes,
so a length that does not change has been the same for `STABLE_FOR` some day. The deadline is not
fair, and neither is anything the browser or the user does: `WaitEnds` starts from a deadline that
has passed, or from a download that lies there, stays, and whose hash is not taken to be known.

## Proofs

`ManagerApply_proofs` proves, for all managers, destinations, folders and images, and without a
bound on foreign writes or failures beyond that the counters are natural numbers:

| theorem | property |
|---|---|
| `TypeCorrect` | `TypeOK` |
| `RollbackWhole` | `RolledBackIsWhole` |
| `JournalComplete` | `JournalNamesBackups` |
| `ImagesSurvive` | `NothingDestroyed` |
| `Undisturbed` | `UndisturbedOutcome` |

They rest on `ImageAssumption` and `PlanAssumption`, which TLC evaluates in the run. None of the
safety properties is inductive. That a rollback which ends well left no backup needs to know which
backups exist: `OwnInv` says, per manager, that a file `old-i` belongs to a committed operation
not yet undone or is the pending one (`BackupInv`), what each label implies of the current
operation (`MoveInv`), and which journal was written last (`JournalInv`). `NamesInv` adds what the
journal on disk knows at each label, at most one backup behind. The proof of a step has one case
per action; `OthersKeep` says a step of one manager leaves what these say of another alone, as
recovery directories are private. `ImagesSurvive` needs that each move goes to an empty place:
`old-i` and `rolled-back-i` are free when they are written, by the same invariant, and
destinations by `Vacant`, which is what no-replace renames buy. `Undisturbed` needs to know where
every destination of the plan is at every label: as it was read (`Kept`), replaced with its backup
in `old-i` (`Installed`), or in `old-i` only (`Aside`). A committed operation is the second, the
pending one the third, the others the first (`ForwardInv`); a rollback turns the second into the
first by way of the third (`BackwardInv`). Nobody else moves a destination meanwhile, because
whoever is at one of these labels has the lease (`LeaseInv`). TLC checked `OutcomeInv` on the
instance of `ManagerApply` first, with two failures.

`ProfileManager_proofs` proves, for any profiles, files, fingerprints and names of branches (two
profiles may share one), any number of commands that die, and a game that writes and deletes at any
moment:

| theorem | property | if |
|---|---|---|
| `TypeCorrect` | `TypeOK` | |
| `NothingIsLost` | `NothingLost` | |
| `ParkedAreCommitted` | `ParkedIsCommitted` | |
| `LiveAreActives` | `LiveIsActives` | save commands name the active profile (`CrossProfile = FALSE`) |
| `DepthsFollowRows` | `DepthsFollow` | |
| `StackIsLifo` | `RollbackIsLifo`, the refinement of `LifoStack` | |

They rest on `VaultAssumption` and `ManagerAssumption`. Any profile may be deleted at any moment;
`LifoStack` says what the rows are after deletions that took several, a bag, since more is not so
(`RollbackIsAlwaysLifo` in the table above). That no save is lost needs to know, at each label of a
swap, where a live save is besides: staged in the working tree, then in the history of the branch,
then only those that the game wrote meanwhile (`LiveInv`); and that every parked save is in its
branch, so that the old parked directory may go (`ParkInv`). Git adds to histories and never
shortens one except in a restore (`Grown`), which accounts for what it gives up. A stack has a top
row whatever its depths are (`TopExists`), and a cascade leaves rows of the table
(`RowsWithoutTyped`). For the stack, `DepthsFollow` says that the depth of the k-th row is k - 1, or
one more when deletions took one row: a row above the gap keeps its number, a row pushed later gets
the number of rows. It makes the deepest row the last one (`TopIsLast`), for two rows may have one
depth then, and the later is taken. `StackInv` is kept by pushes and rollbacks, and by a cascade
that takes one row because the rows it leaves move down by one at most (`Cascade`); an empty stack
begins anew (`Restacked`). `CommandInv` says that the profile pushed is still the active one. Each
step is then one of the abstract stack or none (`MovesAreLifo`).

`LiveIsActives` is about the end of a swap, and needs its middle. `SwapInv` says that every live save
is the active profile's until the new ones are copied in (`Owned`); that git knows every file of the
working tree but between a copy and its staging (`WorkKnown`), so that a checkout leaves its own
files and nothing of the profile before (`CheckoutSettles`); hence that the tree copied out is the
tip of the target's branch, and that whatever is live when a profile becomes active is in its branch
or was written while the command ran (`InBranch`). A command that died may leave a file that git does
not know, which is why the property and `OwnerInv` speak of executions without failures. TLC checked
`IInv` and `OwnerInv` on small instances first, with a watcher, a game that deletes, a stack of three
that any profile may be deleted from, and two profiles on one branch.

`Bisect_proofs` proves, for any number of mods, any dependencies, causes, steps, interrupted
commands and terminals of which one launches, where a deployment replaces the folder and the oracle
is not perf (`Reliable`):

| theorem | property |
|---|---|
| `CulpritKept` | `TypeOK`, `CauseIsSuspect` |
| `NoneClearedWrongly` | `KnownGoodIsGood` |
| `VerdictsOnCandidates` | `JudgedIsCandidate` |

The conditions are needed: the table above refutes `JudgedIsCandidate` without two of them, and a
second launching terminal can deploy over a game another one is judging. The theorems rest on
`BisectAssumption`. `CauseIsSuspect` is not inductive, because a verdict narrows by the step it is
about and not by the suspects there are. `IInv` adds that every recorded step, and every row a
command will write back, divides mods with some of the cause (`StepInv`, `CommandInv`), that the
folder holds what the candidate deployed last enables (`FolderInv`), and that a verdict on its way
is what its candidate deserves. `NarrowingKeepsCause` is then the search: a good verdict leaves the
disabled half, where some of the cause is since the rest was harmless; a bad one the enabled half,
where the cause is since nothing of it was disabled. Each step has a lemma; `OthersKeep` says what
it leaves alone. TLC checked `IInv` on the instance of `BisectSearch` first.

The second part is about what a session leaves behind, in one terminal except for the types:

| theorem | property | if |
|---|---|---|
| `TypesKept` | `TypeOK`, and no command is about a step that is not there | |
| `OverForGood` | `StaysOver` | `OneTerminal` |
| `NoneLeftBehind` | `CandidatesRemoved` | `OneTerminal`, `Tidy` |
| `SourceGivenBack` | `SourceRestored` | `OneTerminal`, `Restorable` |
| `ProfilesAsFound` | `ProfilesRestored` | `OneTerminal`, `Tidy`, `~SaveDir` |
| `LogarithmicButForDeaths` | no more than log2 N steps, and one for each command that died | `OneTerminal`, `NoDependencies` |
| `LogarithmicSearch` | `StepsAreLog`, if none died | `OneTerminal`, `NoDependencies` |

No oracle is assumed, nor that deployments replace the folder. Each condition excludes a refutation
of the table above: two terminals; mods whose candidate is refused (`Tidy` asks for none, or for
`ForceSaveRisk`, and that candidates are deleted at all); a save directory whose active candidate is
deleted (`Restorable`); dependencies that leave nothing to disable. `CandidatesRemoved` and
`SourceRestored` speak of sessions none of whose commands died. `PhaseInv` ties the status of the
row to the statement of the only command, so that a row written back is never over.
`CandidatesInv` says that candidates are those of recorded steps and the one about to be recorded,
until what is left of them is in `todo`; `ActiveInv`, that some profile is active whenever
`restore` needs one. `LogInv` says that `k` steps leave `LeftAfter(k, S)`: 2^k (|S| - 1) <= N - 1.
It holds of both halves of the last step, whichever the verdict leaves: `HalfCount` counts a half of
a finite set by the ranks of its members (`RankGrows`, `RankCount`). `PowerNext` gets 2^(k+1) from
2^k by counting subsets, for the provers know no recursion of `^`. A command that dies between its
writes leaves a step nobody judges, and the next one divides the same suspects again: `Worth` takes
one step off for each death. TLC checked the five invariants on the instance of `BisectEnds` first,
with all three oracles, with and without a save directory, kept candidates and a refused mod, and
with up to two deaths.

`Install_proofs` proves, for any archives, files, patches, BSAs, commands and number of deaths:

| theorem | property |
|---|---|
| `TypeCorrect` | `TypeOK` |
| `ExtractsOnlyWhole` | `ExtractsWhole` |
| `RecordsStayTrue` | `EarnedIsWhole` |
| `CleanRuns` | `CleanRunIsWhole` |
| `DeploymentIsStaged` | `DeployedIsStaged` |
| `PruningKeepsOutputs` | `PruneKeepsOutputs` |
| `CompressionKeepsContent` | `CompressKeepsContent` |

It rests on `InstallAssumption`. `EarnedIsWhole` is not inductive: a later command could tear a file
a record names. It does not, because the record stays valid as long as its files exist, a worker
that finds it valid touches none of them, and nothing between two commands removes a file but the
reset, which removes the records too; and adoption replaces a record only when it is not valid any
more. `IInv` therefore says of each pass which files may be open (`BatchInv`, `PhaseInv`), and that
an archive being extracted was verified and has not changed since. `CleanInv` is the induction over
a command: an output that is neither still to do nor failed nor left out is whole, if no record was
adopted. `DeployInv` says the same of what is in the game already.

`LoadOrder_proofs` proves, of `ResolveSpec` for any list of distinct mods and any finite set of
rules, and of `LoadOrder` for any profiles, rules, commands, deaths and number of sessions at once:

| theorem | property |
|---|---|
| `OrderIsLeast`, `CyclesAreReal` | `LeastOrder`, `CycleIsReal`, of `ResolveSpec` |
| `TypeCorrect` | `TypeOK` |
| `DeploymentsResolve` | `ResolveSpec`, which a deployment of `LoadOrder` implements |
| `DeployedOrderIsLeast`, `DeployedCyclesAreReal` | `LeastOrder`, `CycleIsReal`, of `LoadOrder` |

and, for any profiles, rules, commands and deaths, when one session edits the profile (`Alone`):

| theorem | property |
|---|---|
| `RowsBegin` | `RowsAreBeginning` |
| `EditsRefine` | `EditsAreWhole`, the refinement of `ProfileEdits` |

They rest on `LoadOrderAssumption` and, for the sort, `ResolverAssumption`. The invariant of the sort
counts: the degree of a mod that was not emitted is the number of its rules whose earlier mod was
not (`Counted`), so that a mod is ready when all it waits for is out; what was emitted meets the
rules (`Met`); and every emitted mod was the least of those not emitted whose earlier mods all were
(`Greedy`). An order that departs from the result at a place takes a mod there that was ready and
further down. If the heap runs empty too soon, every mod left waits for one left; in an order that
met the rules the first of these could not stand where it does. That a finite set of positions has a
least one is proved from the well-foundedness of strict subsets.

Of a deployment's lists `TypeInv` says what the sort asks for, that no mod comes up twice. It holds
whatever sessions do to each other's rows, because a mod has one row in the table, and is the only
thing about them that does. `Alone` is needed for the rest: the table above refutes `EditsAreWhole`
with two sessions. `AloneInv` says then that the rows stand at their places (`Placed`); that a copy
is what the rows were until a command changes it, in one of the ways `ProfileEdits` has (`Changed`);
and that the rows inserted so far are the first of the copy (`Follows`). The step at which the change
shows is the deletion of the rows: before it `View` is what was stored, after it what the copy comes
to. `Insertable` is needed there, since a copy to which a mod was added a second time will not be
written to its end. The other steps leave `View` as it is, but for a death or a refused row, which
cut it. TLC checked `AloneInv` on the instance of `LoadOrder` first.

`Interface_proofs` proves, for any games and profiles, any number of jobs in flight and answers in
any order, and without the bounds on generations:

| theorem | property |
|---|---|
| `TypeCorrect` | `TypeOK` |
| `ShowsSelected` | `LoadedIsSelected` |
| `DerivesFromSelected` | `DerivedIsSelected` |
| `ShowsNothingOlder` | `NeverOlder` |

They rest on `InterfaceAssumption`. Nothing about the screen is inductive, because what it will show
is decided by answers that are still on their way. `IInv` says what an answer that counts must be: a
load of the present generation was asked for the selected game, or a dialog is open (`ContextInv`);
what it found was not newer than the row and not older than what is on the screen (`Seen`); a new
profile is for the game that is selected, or was before the dialog (`WriteInv`); tables and reports
of the present generation are of a profile of the selected game (`ReportInv`); and no two loads have
one generation (`OneLoad`), which is why the answer that is shown leaves no other that counts.
`JobKept` carries this over a step: whoever makes another game the selected one must count on all
three generations. `NeverOlder` then needs one more fact, `LoadedStep`: only the answer that counts
puts something else on the screen. TLC checked `IInv` on the instance of `Interface` first.

`Acquire_proofs` proves, for any archives, names, junk, kinds of hosts, commands, deaths and changes
by others, however many archives have one name:

| theorem | property |
|---|---|
| `TypeCorrect` | `TypeOK` |
| `WholeStaysWhole` | `WholeStays` |
| `FrontloadComplete` | `FrontloadIsComplete` |

They rest on `AcquireAssumption`. Neither property is inductive, because what is written in place,
and what an import reads after it was hashed, is decided by others. `IInv` says that an entry
of the store which is the file of a download has its contents (`DiskInv`); what the
command has to do at each label (`ControlInv`); that a download it is filling is torn, and so is
whatever the store has of that file (`FillInv`): filling it can lose nothing that opening it had not.
So an archive is lost when a download is opened or another is copied over the entry, and at no other
step: not when a download is renamed onto a name the store has a file of, which lives on under the
hash, nor when the file is completed, discarded or imported by somebody else. `Kept` is that of a
step, `Marked` that what is lost is in `spoilt`, and `ResultInv` that an archive reported by its own
import is whole or there. Each action has a lemma; `WritingFile`, `Replacing` and `Moving` say what
the ways to change a file keep, `Filling` that of what was opened. TLC
checked `IInv` on the instance of `Acquire` first.

`Deployment_proofs` proves, for any profiles, mods, paths, overrides, hidden files, either layout and
any number of commands that die:

| theorem | property |
|---|---|
| `TypeCorrect` | `TypeOK` |
| `FarmIsSeen` | `FarmUnlessLinked` |
| `OthersFilesStay` | `TheirsKept` |

They rest on `DeploymentAssumption` and `NamesAssumption`; that every set of mods has a last one in
the load order is what makes the farm defined. What a finished deployment establishes is no
invariant of the commands after it, which take the tree and the links apart and put them together
again. `Deploying` says, for each step of a deployment, which paths of the tree and which entries of
the game are done: all but those its loop has still to visit. `Patching` says it of a hot deployment
of the profile that stands, whose staging tree lies between the farm of the rows before and that of
the rows it will save; what it needs besides is that a top-level directory of the tree is never
removed, so that each entry it clears is linked again. `Stands` carries the result over the deletion
and insertion of the rows, where it speaks of the rows to come (`Saved`, `Saving`). In a game whose
plugin links files a hot deployment that changes a path always leaves a link behind (`NoLinks` is
false while the profile stands), so that the theorem promises nothing after it, and `HotThenDeploy`
shows that nothing can be promised. `TheirsKept` needs that a loop only visits what the farm has or
what the patch changes (`Visits`). TLC checked `IInv` on the instance of `Deploy` first.

Model-checked only: `LeaseIsReturned`, `Converges` and `WaitEnds`, since liveness is out of the
prover's reach. Every safety property of a passing run is stated by a theorem, under the
conditions its table gives.

## Not modelled

The download queue: no program calls it. Tool history and the files tools apply: what the code
promises of them is little, and mostly does not hold (above). Collision engine, plugin order,
lockfile, FOMOD, the formats of archives and the rendering of client configurations: functions of
their inputs, without a state that a later step depends on. Backends: external services. Patcher
pipelines: a list of programs run in order. Two modde processes at once on one profile, except in
`Bisect` (terminals), `Interface` (a terminal) and `LoadOrder` (sessions). Profile names that
sanitise to one branch (`helpers.rs:152`): `Slug` allows for them, and no document says what should
happen.
