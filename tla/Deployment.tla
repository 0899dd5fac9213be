----------------------------- MODULE Deployment -----------------------------
(***************************************************************************)
(* Deployment of a profile: the symlink farm (modde-core/src/vfs), its     *)
(* projection into the game's mod directory (GamePlugin::deploy_to_install *)
(* of modde-games), `modde hot-deploy`, `modde rollback` and the profile   *)
(* rows they read and write (modde-cli/src/commands/deploy.rs,             *)
(* hot_deploy.rs, rollback.rs; db/profile.rs).                             *)
(*                                                                         *)
(* Two hops of links lead from the game to a mod: the game's entry names a *)
(* path of a profile's staging tree, and the staging tree's entry names a  *)
(* file of the store.  A link is modelled by what it names: a profile (its *)
(* staging file at the same path) or a source (a mod, an override).  Names *)
(* equal but for their case are one path.  One command runs at a time and  *)
(* may die between any two steps; removal of a tree is one step.  Profiles *)
(* installed by Wabbajack, whose deploy copies, are not modelled.          *)
(***************************************************************************)
EXTENDS Integers, FiniteSets

CONSTANTS
    Profiles,     \* profiles of one game
    Mods,         \* mods in the store
    Rank,         \* Rank[m]: position of m in the resolved load order
    Paths,        \* relative file paths, each in
    Roots,        \* a top-level directory of the mod directory:
    RootOf,       \* RootOf[path]
    Ships,        \* Ships[m]: the paths of m
    Hidden,       \* Hidden[p]: <<m, path>> that p hides
    Overrides,    \* Overrides[p]: paths of p's override directory
    Override,     \* a file of an override directory
    Cosmetic,     \* paths the game's classifier finds cosmetic
    Theirs,       \* a file modde did not make
    TheirPaths,   \* where the mod directory has one
    None,         \* nothing there
    Layouts,      \* ways the game's plugin deploys: "files", "roots"
    HotDeployed,  \* the layouts for which hot deploys are run
    Edited,       \* profiles the user works on; the others are only deployed
    MaxBackups,   \* bound: staging trees the user keeps a copy of
    MaxCrashes    \* bound: commands that die half-way

Sources == Mods \union {Override}

ASSUME DeploymentAssumption ==
    /\ Rank \in [Mods -> Nat]
    /\ \A m, n \in Mods : Rank[m] = Rank[n] => m = n
    /\ \A ms \in (SUBSET Mods) \ {{}} : \E m \in ms : \A n \in ms : Rank[n] <= Rank[m]
    /\ RootOf \in [Paths -> Roots]
    /\ Ships \in [Mods -> SUBSET Paths]
    /\ Hidden \in [Profiles -> SUBSET (Mods \X Paths)]
    /\ Overrides \in [Profiles -> SUBSET Paths]
    /\ Edited \subseteq Profiles /\ TheirPaths \subseteq Paths
    /\ Layouts \subseteq {"files", "roots"} /\ HotDeployed \subseteq Layouts
    /\ MaxBackups \in Nat /\ MaxCrashes \in Nat

VARIABLES
    layout,    \* how this game's plugin deploys
    rows,      \* rows[p][m]: m's row in profile_mods, "on", "off" or "gone"
    staging,   \* staging[p]: the tree of profiles/p/staging, or None
    bak,       \* bak[p]: the tree of profiles/p/staging.bak, or None
    aside,     \* aside[p]: the tree of profiles/p/staging.old, or None
    entry,     \* entry[r]: a "folder" of the mod directory, a profile that r
               \* links to, or None
    file,      \* file[path]: the file in such a folder
    pc, cmd,   \* the running command: its next step and its locals
    todo,      \* what its loop has still to visit
    standing,  \* what the last command to finish established
    backups,   \* copies kept
    crashes    \* commands that died

diskVars == <<staging, bak, aside, entry, file>>
vars     == <<layout, rows, diskVars, pc, cmd, todo, standing, backups, crashes>>

Tree      == [dirs: SUBSET Roots, at: [Paths -> Sources \union Profiles \union {None}]]
EmptyTree == [dirs |-> {}, at |-> [path \in Paths |-> None]]
ModRows   == [Mods -> {"on", "off", "gone"}]
Labels    == {"idle", "stage", "create", "clearfile", "linkfile", "clearroot",
              "linkroot", "unpatch", "patch", "forget", "insert", "swap", "restore",
              "drop"}

\* What a link names and what it does not are told apart.
ASSUME NamesAssumption ==
    /\ None \notin Tree \union Sources \union Profiles \union {Theirs, "folder"}
    /\ Theirs \notin Sources \union Profiles
    /\ Profiles \intersect (Sources \union {"folder"}) = {}

Command   == [op: {"idle", "deploy", "hot", "toggle", "rollback"},
              profile: Profiles \union {None}, rows: ModRows,
              at: Paths \union Roots \union {None}, roots: SUBSET Roots]
Idle      == [op |-> "idle", profile |-> None, rows |-> [m \in Mods |-> "gone"],
              at |-> None, roots |-> {}]
Unknown   == [how |-> "unknown", profile |-> None, tree |-> None]
Standing  == [how: {"unknown", "deployed", "restored"}, profile: Profiles \union {None},
              tree: Tree \union {None}]

TypeOK ==
    /\ layout \in Layouts
    /\ rows \in [Profiles -> ModRows]
    /\ \A t \in {staging, bak, aside} : t \in [Profiles -> Tree \union {None}]
    /\ entry \in [Roots -> Profiles \union {"folder", None}]
    /\ file \in [Paths -> Profiles \union {Theirs, None}]
    /\ pc \in Labels /\ cmd \in Command
    /\ todo \subseteq Paths \union Roots \union Mods
    /\ standing \in Standing
    /\ backups \in 0..MaxBackups
    /\ crashes \in 0..MaxCrashes

-----------------------------------------------------------------------------
(* The farm, and what the game sees.                                       *)

Providers(p, r, path) ==
    {m \in Mods : r[m] = "on" /\ path \in Ships[m] /\ <<m, path>> \notin Hidden[p]}

\* SymlinkFarm::build for profile p with mod rows r: the last mod in load
\* order wins a path, an override wins over all.
Farm(p, r) ==
    [path \in Paths |->
        LET ms == Providers(p, r, path)
        IN IF path \in Overrides[p] THEN Override
           ELSE IF ms = {} THEN None
           ELSE CHOOSE m \in ms : \A n \in ms : Rank[n] <= Rank[m]]

Filled(tree)  == {path \in Paths : tree.at[path] # None}
RootsOf(ps)   == {RootOf[path] : path \in ps}
HasRoot(q, r) == staging[q] # None /\ r \in staging[q].dirs

\* The entry at a path of a staging tree and of the mod directory.
Staged(q, path) == IF staging[q] = None THEN None ELSE staging[q].at[path]
Entry(path) ==
    LET e == entry[RootOf[path]]
    IN CASE e = "folder"   -> file[path]
         [] e \in Profiles -> Staged(e, path)
         [] OTHER          -> None

\* The staging trees that links followed from the game's entry lead through.
Visited(path) ==
    {p \in Profiles :
        \A closed \in SUBSET Profiles :
            /\ {Entry(path)} \intersect Profiles \subseteq closed
            /\ \A q \in closed : {Staged(q, path)} \intersect Profiles \subseteq closed
            => p \in closed}

\* What opening the path in the game yields: links are followed; a dangling
\* link and a loop yield nothing.
Seen(path) ==
    LET ends == ({Entry(path)} \union {Staged(q, path) : q \in Visited(path)}) \ Profiles
    IN IF ends = {} THEN None ELSE CHOOSE e \in ends : TRUE

-----------------------------------------------------------------------------
(* Commands: start, end, and the loops they are made of.                   *)

Start(op, label, p, r, visit, roots) ==
    /\ pc = "idle"
    /\ pc' = label
    /\ cmd' = [op |-> op, profile |-> p, rows |-> r, at |-> None, roots |-> roots]
    /\ todo' = visit
    /\ UNCHANGED <<layout, backups, crashes>>

Goto(from, label, at, visit) ==
    /\ pc = from
    /\ pc' = label
    /\ cmd' = [cmd EXCEPT !.at = at]
    /\ todo' = visit
    /\ UNCHANGED <<layout, backups, crashes>>

End(from) ==
    /\ pc = from
    /\ pc' = "idle" /\ cmd' = Idle /\ todo' = {}
    /\ UNCHANGED <<layout, backups, crashes>>

\* A link made in, or removed from, a tree; the staging tree of q.
Relinked(tree, path, e) ==
    [tree EXCEPT !.at[path] = e,
                 !.dirs = IF e = None THEN @ ELSE @ \union {RootOf[path]}]
Restaged(q, path, e) == [staging EXCEPT ![q] = Relinked(@, path, e)]

-----------------------------------------------------------------------------
(* modde deploy.                                                           *)

\* The farm is built from the database; materialize removes the staging tree,
Deploy(p) ==
    /\ Start("deploy", "create", p, rows[p], {}, {})
    /\ staging' = [staging EXCEPT ![p] = None]
    /\ UNCHANGED <<rows, bak, aside, entry, file, standing>>

\* makes it anew,
Create ==
    LET farm == Farm(cmd.profile, cmd.rows)
    IN /\ Goto("create", "stage", None, {path \in Paths : farm[path] # None})
       /\ staging' = [staging EXCEPT ![cmd.profile] = EmptyTree]
       /\ UNCHANGED <<rows, bak, aside, entry, file, standing>>

\* and links the sources, in the order of a hash map.  Then the plugin visits
\* the files, or the top-level entries, of the tree.
Stage ==
    LET p == cmd.profile
    IN /\ \/ \E path \in todo :
                /\ Goto("stage", "stage", None, todo \ {path})
                /\ staging' = Restaged(p, path, Farm(p, cmd.rows)[path])
          \/ /\ todo = {}
             /\ \/ /\ layout = "files"
                   /\ Goto("stage", "clearfile", None, Filled(staging[p]))
                \/ /\ layout = "roots"
                   /\ Goto("stage", "clearroot", None, staging[p].dirs)
             /\ UNCHANGED staging
       /\ UNCHANGED <<rows, bak, aside, entry, file, standing>>

\* A mutant: the folder is cleared, not the file.
ClearFolder ==
    \E path \in todo :
        LET r == RootOf[path]
        IN /\ pc = "clearfile" /\ entry[r] \in {"folder", None}
           /\ entry' = [entry EXCEPT ![r] = "folder"]
           /\ file' = [q \in Paths |-> IF RootOf[q] = r THEN None ELSE file[q]]
           /\ Goto("clearfile", "linkfile", path, todo)
           /\ UNCHANGED <<rows, staging, bak, aside, standing>>

\* deploy_symlinks: create_dir_all of the folder, which fails on a dangling
\* link and follows any other; then what is at the destination is removed.
ClearFile ==
    \E path \in todo :
        LET r == RootOf[path]
            e == entry[r]
        IN /\ pc = "clearfile"
           /\ \/ /\ e \in Profiles /\ ~HasRoot(e, r)
                 /\ End("clearfile")
                 /\ standing' = Unknown
                 /\ UNCHANGED <<entry, file, staging>>
              \/ /\ e \in Profiles /\ HasRoot(e, r)
                 /\ staging' = Restaged(e, path, None)
                 /\ Goto("clearfile", "linkfile", path, todo)
                 /\ UNCHANGED <<entry, file, standing>>
              \/ /\ e \in {"folder", None}
                 /\ entry' = [entry EXCEPT ![r] = "folder"]
                 /\ file' = [file EXCEPT ![path] = None]
                 /\ Goto("clearfile", "linkfile", path, todo)
                 /\ UNCHANGED <<staging, standing>>
           /\ UNCHANGED <<rows, bak, aside>>

\* A mutant: the game's file is linked to the store's.
LinkFileToStore ==
    LET path == cmd.at
    IN /\ Goto("linkfile", "clearfile", None, todo \ {path})
       /\ file' = [file EXCEPT ![path] = Farm(cmd.profile, cmd.rows)[path]]
       /\ UNCHANGED <<rows, staging, bak, aside, entry, standing>>

\* symlink(staging path, destination).
LinkFile ==
    LET path == cmd.at
        e    == entry[RootOf[path]]
    IN /\ Goto("linkfile", "clearfile", None, todo \ {path})
       /\ IF e \in Profiles
          THEN staging' = Restaged(e, path, cmd.profile) /\ UNCHANGED file
          ELSE file' = [file EXCEPT ![path] = cmd.profile] /\ UNCHANGED staging
       /\ UNCHANGED <<rows, bak, aside, entry, standing>>

\* Cyberpunk's deploy, and the end of a hot deploy: a top-level entry is
\* removed, a folder with all that is in it,
ClearRoot ==
    \E r \in todo :
        /\ Goto("clearroot", "linkroot", r, todo)
        /\ entry' = [entry EXCEPT ![r] = None]
        /\ file' = [path \in Paths |-> IF RootOf[path] = r THEN None ELSE file[path]]
        /\ UNCHANGED <<rows, staging, bak, aside, standing>>

\* and linked to the staging tree, if that has it.
LinkRoot ==
    LET r == cmd.at
    IN /\ Goto("linkroot", "clearroot", None, todo \ {r})
       /\ entry' = [entry EXCEPT ![r] = IF HasRoot(cmd.profile, r) THEN cmd.profile ELSE @]
       /\ UNCHANGED <<rows, staging, bak, aside, file, standing>>

DeployEnd ==
    /\ cmd.op = "deploy" /\ todo = {}
    /\ End(IF layout = "files" THEN "clearfile" ELSE "clearroot")
    /\ standing' = [how |-> "deployed", profile |-> cmd.profile, tree |-> None]
    /\ UNCHANGED <<rows, diskVars>>

-----------------------------------------------------------------------------
(* modde hot-deploy.                                                       *)

\* The refusals, and plan_patch: the paths whose source changes between the
\* farms before and after, both built from the database.
HotDeploy(p, m, state) ==
    LET next   == [rows[p] EXCEPT ![m] = state]
        before == Farm(p, rows[p])
        after  == Farm(p, next)
        patch  == {path \in Paths : before[path] # after[path]}
    IN /\ layout \in HotDeployed
       /\ rows[p][m] # "gone"
       /\ Ships[m] # {} /\ Ships[m] \union patch \subseteq Cosmetic
       /\ \/ /\ patch # {} /\ staging[p] # None
             /\ Start("hot", "unpatch", p, next, patch, RootsOf(patch))
          \/ /\ patch = {} /\ next # rows[p]
             /\ Start("hot", "forget", p, next, {}, {})
       /\ standing' = IF standing.how = "deployed" /\ standing.profile = p
                      THEN standing ELSE Unknown
       /\ UNCHANGED <<rows, diskVars>>

\* apply_patch_to_staging: what is at a patched path goes,
Unpatch ==
    \/ \E path \in todo :
          /\ Goto("unpatch", "patch", path, todo)
          /\ staging' = Restaged(cmd.profile, path, None)
          /\ UNCHANGED <<rows, bak, aside, entry, file, standing>>
    \/ /\ todo = {}
       /\ Goto("unpatch", "clearroot", None, cmd.roots)
       /\ UNCHANGED <<rows, diskVars, standing>>

\* A mutant: a path whose winner changes is taken away.
PatchAwayOnly ==
    LET path == cmd.at
        e    == Farm(cmd.profile, cmd.rows)[path]
    IN /\ Goto("patch", "unpatch", None, todo \ {path})
       /\ staging' = IF Farm(cmd.profile, rows[cmd.profile])[path] = None
                     THEN Restaged(cmd.profile, path, e) ELSE staging
       /\ UNCHANGED <<rows, bak, aside, entry, file, standing>>

\* and its new source, if any, is linked.
Patch ==
    LET path == cmd.at
    IN /\ Goto("patch", "unpatch", None, todo \ {path})
       /\ staging' = Restaged(cmd.profile, path, Farm(cmd.profile, cmd.rows)[path])
       /\ UNCHANGED <<rows, bak, aside, entry, file, standing>>

\* apply_patch_then_persist: the plugin is done, the profile is saved.
Patched ==
    /\ cmd.op = "hot" /\ todo = {}
    /\ Goto("clearroot", "forget", None, {})
    /\ UNCHANGED <<rows, diskVars, standing>>

-----------------------------------------------------------------------------
(* Saving a profile: update_profile deletes its mods and inserts them.     *)

\* The user enables or disables a mod: toggle_mod_enabled.
Toggle(p, m) ==
    /\ rows[p][m] # "gone"
    /\ Start("toggle", "forget", p,
             [rows[p] EXCEPT ![m] = IF @ = "on" THEN "off" ELSE "on"], {}, {})
    /\ standing' = IF standing.profile = p THEN Unknown ELSE standing
    /\ UNCHANGED <<rows, diskVars>>

Forget ==
    /\ Goto("forget", "insert", None, {m \in Mods : cmd.rows[m] # "gone"})
    /\ rows' = [rows EXCEPT ![cmd.profile] = [m \in Mods |-> "gone"]]
    /\ UNCHANGED <<diskVars, standing>>

Insert ==
    \/ \E m \in todo :
          /\ Goto("insert", "insert", None, todo \ {m})
          /\ \A n \in todo : Rank[m] <= Rank[n]
          /\ rows' = [rows EXCEPT ![cmd.profile][m] = cmd.rows[m]]
          /\ UNCHANGED <<diskVars, standing>>
    \/ /\ todo = {}
       /\ End("insert")
       /\ UNCHANGED <<rows, diskVars, standing>>

-----------------------------------------------------------------------------
(* modde rollback.                                                         *)

\* The user keeps a copy of a staging tree just deployed as staging.bak, which
\* no command makes.
KeepBackup(p) ==
    /\ pc = "idle" /\ standing.how = "deployed" /\ standing.profile = p
    /\ staging[p] # None /\ backups < MaxBackups
    /\ bak' = [bak EXCEPT ![p] = staging[p]]
    /\ backups' = backups + 1
    /\ UNCHANGED <<layout, rows, staging, aside, entry, file, pc, cmd, todo,
                   standing, crashes>>

\* vfs::rollback: refused without staging.bak.  A staging tree is first
\* renamed to staging.old; that fails, and all stays as it is, if a tree with
\* anything in it is there.
Rollback(p) ==
    /\ bak[p] # None
    /\ standing' = Unknown
    /\ \/ /\ staging[p] = None
          /\ Start("rollback", "restore", p, rows[p], {}, {})
          /\ UNCHANGED <<staging, aside>>
       \/ /\ staging[p] # None /\ aside[p] \in {None, EmptyTree}
          /\ Start("rollback", "swap", p, rows[p], {}, {})
          /\ aside' = [aside EXCEPT ![p] = staging[p]]
          /\ staging' = [staging EXCEPT ![p] = None]
    /\ UNCHANGED <<rows, bak, entry, file>>

\* rename(staging.bak, staging); a staging.old is removed if this call made it.
RestoreBackup ==
    LET p == cmd.profile
    IN /\ End("restore") \/ Goto("swap", "drop", None, {})
       /\ staging' = [staging EXCEPT ![p] = bak[p]]
       /\ bak' = [bak EXCEPT ![p] = None]
       /\ standing' = [how |-> "restored", profile |-> p, tree |-> bak[p]]
       /\ UNCHANGED <<rows, aside, entry, file>>

DropAside ==
    /\ End("drop")
    /\ aside' = [aside EXCEPT ![cmd.profile] = None]
    /\ UNCHANGED <<rows, staging, bak, entry, file, standing>>

-----------------------------------------------------------------------------

\* The process dies or a call fails: nothing is undone.
Crash ==
    /\ pc # "idle" /\ crashes < MaxCrashes
    /\ pc' = "idle" /\ cmd' = Idle /\ todo' = {}
    /\ crashes' = crashes + 1
    /\ standing' = Unknown
    /\ UNCHANGED <<layout, rows, diskVars, backups>>

Init ==
    /\ layout \in Layouts
    /\ rows = [p \in Profiles |-> [m \in Mods |-> "on"]]
    /\ staging = [p \in Profiles |-> None]
    /\ bak = staging /\ aside = staging
    /\ entry = [r \in Roots |-> IF r \in RootsOf(TheirPaths) THEN "folder" ELSE None]
    /\ file = [path \in Paths |-> IF path \in TheirPaths THEN Theirs ELSE None]
    /\ pc = "idle" /\ cmd = Idle /\ todo = {}
    /\ standing = Unknown
    /\ backups = 0
    /\ crashes = 0

Next ==
    \/ \E p \in Profiles : Deploy(p)
    \/ \E p \in Edited :
          \/ KeepBackup(p) \/ Rollback(p)
          \/ \E m \in Mods :
                Toggle(p, m) \/ \E state \in {"on", "off"} : HotDeploy(p, m, state)
    \/ Create \/ Stage \/ ClearFile \/ LinkFile \/ ClearRoot \/ LinkRoot \/ DeployEnd
    \/ Unpatch \/ Patch \/ Patched \/ Forget \/ Insert
    \/ RestoreBackup \/ DropAside \/ Crash

Spec == Init /\ [][Next]_vars
-----------------------------------------------------------------------------
(* Properties.                                                             *)

\* Between commands, once p was deployed and then only hot-deployed: the
\* staging tree is the farm of the rows, without a leftover, and the game sees
\* the winner at every path of the farm.  Whatever was there before: another
\* profile's links, a rollback, a command that died half-way (a deploy is the
\* recovery that a failed hot deploy prints), files modde did not make.
DeployedIsFarm ==
    pc = "idle" /\ standing.how = "deployed" =>
        LET p    == standing.profile
            farm == Farm(p, rows[p])
        IN /\ staging[p].at = farm
           /\ \A path \in Paths : farm[path] # None => Seen(path) = farm[path]

\* DeployedIsFarm where the plugin links files, but for what a hot deploy has
\* turned into a link to a staging tree.
FarmUnlessLinked ==
    (layout = "files" => \A r \in Roots : entry[r] \notin Profiles) => DeployedIsFarm

\* A command only takes away a file modde did not make where the profile it
\* deploys has a file, or (where top-level entries are linked) a folder, of the
\* same name.
TheirsKept ==
    [][\A path \in Paths : Entry(path) = Theirs /\ Entry(path)' # Theirs =>
          LET p      == cmd.profile
              farmed == {q \in Paths : {Farm(p, rows[p])[q], Farm(p, cmd.rows)[q]} # {None}}
          IN IF layout = "files" /\ cmd.op = "deploy" THEN path \in farmed
             ELSE RootOf[path] \in RootsOf(farmed)]_vars

\* Claimed by docs/src/guides/deployment.md: after a rollback, `modde deploy`
\* re-projects the restored staging tree into the game directory.
RollbackIsProjected ==
    [][standing.how = "restored" /\ standing'.how = "deployed"
          /\ standing'.profile = standing.profile =>
       \A path \in Filled(standing.tree) : Seen(path)' = standing.tree.at[path]]_vars

\* Claimed by docs/src/reference/glossary.md: a rollback fails if there is no
\* staging.bak; with one, it has a place to move the staging tree to.
RollbackIsPossible ==
    \A p \in Profiles : pc = "idle" /\ bak[p] # None /\ staging[p] # None =>
        aside[p] \in {None, EmptyTree}
=============================================================================
