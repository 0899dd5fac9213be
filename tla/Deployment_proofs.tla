-------------------------- MODULE Deployment_proofs --------------------------
(* Theorems about Deployment, for any mods, profiles, paths and classifier:  *)
(* its types, DeployedIsFarm where no link stands in the way, and that only  *)
(* the files of others that the farm replaces are taken away.                *)
EXTENDS Deployment, TLAPS

-----------------------------------------------------------------------------
(* The inductive invariant.                                                *)

\* The farm of the running command, before (Old) and after it (New).
Old == Farm(cmd.profile, rows[cmd.profile])
New == Farm(cmd.profile, cmd.rows)
Changed == {path \in Paths : Old[path] # New[path]}
Given(farm) == {path \in Paths : farm[path] # None}

NoLinks        == \A r \in Roots : entry[r] \notin Profiles
Linked(p, path) ==
    IF layout = "roots" THEN entry[RootOf[path]] = p
    ELSE entry[RootOf[path]] = "folder" /\ file[path] = p

\* Which command runs which steps, and what it can rely on.
Commands ==
    /\ pc = "idle" <=> cmd.op = "idle"
    /\ pc # "idle" => cmd.profile \in Profiles
    /\ pc \in {"create", "stage", "clearfile", "linkfile"} => cmd.op = "deploy"
    /\ pc \in {"unpatch", "patch"} => cmd.op = "hot"
    /\ pc \in {"clearroot", "linkroot"} => cmd.op \in {"deploy", "hot"}
    /\ pc \in {"forget", "insert"} => cmd.op \in {"hot", "toggle"}
    /\ pc \in {"swap", "restore", "drop"} => cmd.op = "rollback"
    /\ cmd.op = "deploy" => cmd.rows = rows[cmd.profile]
    /\ cmd.op = "deploy" /\ pc \in {"clearfile", "linkfile"} => layout = "files"
    /\ cmd.op = "deploy" /\ pc \in {"clearroot", "linkroot"} => layout = "roots"
    /\ cmd.op = "rollback" => standing.how # "deployed"
    /\ pc \in {"stage", "clearfile", "linkfile", "unpatch", "patch", "clearroot", "linkroot"}
       => staging[cmd.profile] # None

\* A loop only visits what the farm has, or what the patch changes.
Visits ==
    /\ pc \in {"stage", "clearfile", "linkfile"} => todo \subseteq Given(New)
    /\ pc \in {"unpatch", "patch"} => todo \subseteq Changed
    /\ pc \in {"clearroot", "linkroot"} =>
          todo \subseteq RootsOf(IF cmd.op = "hot" THEN Changed ELSE Given(New))
    /\ cmd.op = "hot" /\ pc \in {"unpatch", "patch", "clearroot", "linkroot"} =>
          cmd.roots = RootsOf(Changed) /\ Changed # {}
    /\ pc \in {"linkfile", "patch", "linkroot"} => cmd.at \in todo
    /\ pc = "linkfile" => \/ entry[RootOf[cmd.at]] = "folder"
                          \/ /\ entry[RootOf[cmd.at]] \in Profiles
                             /\ staging[entry[RootOf[cmd.at]]] # None

\* A deploy, up to the place it has reached.
Deploying ==
    LET tree == staging[cmd.profile]
    IN /\ pc = "stage" =>
             /\ \A path \in Paths : tree.at[path] = IF path \in todo THEN None ELSE New[path]
             /\ \A path \in Given(New) \ todo : RootOf[path] \in tree.dirs
             /\ tree.dirs \subseteq RootsOf(Given(New))
       /\ pc \in {"clearfile", "linkfile"} =>
             /\ RootsOf(Given(New)) \subseteq tree.dirs
             /\ NoLinks => /\ tree.at = New
                           /\ \A path \in Given(New) \ todo : Linked(cmd.profile, path)
       /\ cmd.op = "deploy" /\ pc \in {"clearroot", "linkroot"} =>
             /\ RootsOf(Given(New)) \subseteq tree.dirs
             /\ tree.at = New
             /\ \A path \in Given(New) :
                   RootOf[path] \in todo \/ Linked(cmd.profile, path)

\* A hot deploy of the profile that stands, up to the place it has reached.
Patching ==
    LET tree == staging[cmd.profile]
    IN cmd.op = "hot" /\ standing.how = "deployed" =>
       /\ standing.profile = cmd.profile
       /\ pc \in {"unpatch", "patch"} =>
             /\ RootsOf(Given(Old)) \subseteq tree.dirs
             /\ \A path \in Given(New) \ todo : RootOf[path] \in tree.dirs
             /\ layout = "roots" =>
                   /\ \A path \in Paths \ todo : tree.at[path] = New[path]
                   /\ \A path \in Given(Old) : Linked(cmd.profile, path)
       /\ pc \in {"clearroot", "linkroot"} =>
             /\ cmd.roots \union RootsOf(Given(New)) \subseteq tree.dirs
             /\ layout = "files" => todo # {} \/ ~NoLinks
             /\ layout = "roots" =>
                   /\ tree.at = New
                   /\ \A path \in Given(New) :
                         RootOf[path] \in todo \/ Linked(cmd.profile, path)

\* The rows of p once the command that is saving them is done.
Saved(p) == IF pc \in {"forget", "insert"} /\ cmd.profile = p THEN cmd.rows ELSE rows[p]

\* What stands between commands and while rows are saved.
Stands ==
    standing.how = "deployed" /\ pc \in {"idle", "forget", "insert"} =>
        LET p    == standing.profile
            farm == Farm(p, Saved(p))
        IN /\ p \in Profiles /\ staging[p] # None
           /\ RootsOf(Given(farm)) \subseteq staging[p].dirs
           /\ (layout = "files" => NoLinks) =>
                 /\ staging[p].at = farm
                 /\ \A path \in Given(farm) : Linked(p, path)

Saving ==
    pc = "insert" =>
        /\ todo \subseteq Mods
        /\ \A m \in Mods : rows[cmd.profile][m] = IF m \in todo THEN "gone" ELSE cmd.rows[m]

IInv == TypeOK /\ Commands /\ Visits /\ Deploying /\ Patching /\ Stands /\ Saving

-----------------------------------------------------------------------------
(* Farms and trees.                                                        *)

\* SymlinkFarm::build gives every path of the farm a source.
LEMMA FarmType ==
    ASSUME NEW p \in Profiles, NEW r \in ModRows
    PROVE  Farm(p, r) \in [Paths -> Sources \union {None}]
<1> SUFFICES ASSUME NEW path \in Paths
             PROVE  Farm(p, r)[path] \in Sources \union {None}
    BY DEF Farm
<1> DEFINE ms == Providers(p, r, path)
<1>1. CASE path \in Overrides[p] \/ ms = {}
    BY <1>1 DEF Farm, Sources
<1>2. CASE path \notin Overrides[p] /\ ms # {}
    <2>1. ms \in (SUBSET Mods) \ {{}}
        BY <1>2 DEF Providers
    <2>2. \E m \in ms : \A n \in ms : Rank[n] <= Rank[m]
        BY <2>1, DeploymentAssumption
    <2>3. (CHOOSE m \in ms : \A n \in ms : Rank[n] <= Rank[m]) \in Mods
        BY <2>1, <2>2
    <2> QED
        BY <1>2, <2>3 DEF Farm, Sources
<1> QED
    BY <1>1, <1>2

LEMMA EmptyTreeType == EmptyTree \in Tree /\ EmptyTree # None
BY NamesAssumption DEF EmptyTree, Tree

\* What linking a path in, or removing it from, a staging tree does: to which
\* tree, to its paths, to its directories.
LEMMA RestagedType ==
    ASSUME TypeOK, NEW q \in Profiles, staging[q] # None, NEW path \in Paths,
           NEW e \in Sources \union Profiles \union {None}
    PROVE  staging' = Restaged(q, path, e) =>
              /\ staging' \in [Profiles -> Tree \union {None}]
              /\ staging'[q] # None
              /\ \A p \in Profiles \ {q} : staging'[p] = staging[p]
<1>1. /\ staging \in [Profiles -> Tree \union {None}] /\ staging[q] \in Tree
      /\ RootOf[path] \in Roots
    BY DeploymentAssumption DEF TypeOK
<1> DEFINE t == Relinked(staging[q], path, e)
<1>2. t \in Tree
    BY <1>1 DEF Relinked, Tree
<1>3. Restaged(q, path, e) = [staging EXCEPT ![q] = t]
    BY DEF Restaged
<1> HIDE DEF t
<1> QED
    BY <1>1, <1>2, <1>3, NamesAssumption

LEMMA RestagedAt ==
    ASSUME TypeOK, NEW q \in Profiles, staging[q] # None, NEW path \in Paths,
           NEW e \in Sources \union Profiles \union {None}
    PROVE  staging' = Restaged(q, path, e) =>
              staging'[q].at = [staging[q].at EXCEPT ![path] = e]
<1>1. /\ staging \in [Profiles -> Tree \union {None}] /\ staging[q] \in Tree
      /\ RootOf[path] \in Roots
    BY DeploymentAssumption DEF TypeOK
<1> DEFINE t == Relinked(staging[q], path, e)
<1>2. t.at = [staging[q].at EXCEPT ![path] = e]
    BY <1>1 DEF Relinked, Tree
<1>3. Restaged(q, path, e) = [staging EXCEPT ![q] = t]
    BY DEF Restaged
<1> HIDE DEF t
<1> QED
    BY <1>1, <1>2, <1>3

LEMMA RestagedDirs ==
    ASSUME TypeOK, NEW q \in Profiles, staging[q] # None, NEW path \in Paths,
           NEW e \in Sources \union Profiles \union {None}
    PROVE  staging' = Restaged(q, path, e) =>
              staging'[q].dirs = IF e = None THEN staging[q].dirs
                                 ELSE staging[q].dirs \union {RootOf[path]}
<1>1. /\ staging \in [Profiles -> Tree \union {None}] /\ staging[q] \in Tree
      /\ RootOf[path] \in Roots
    BY DeploymentAssumption DEF TypeOK
<1> DEFINE t == Relinked(staging[q], path, e)
<1>2. t.dirs = IF e = None THEN staging[q].dirs ELSE staging[q].dirs \union {RootOf[path]}
    BY <1>1 DEF Relinked, Tree
<1>3. Restaged(q, path, e) = [staging EXCEPT ![q] = t]
    BY DEF Restaged
<1> HIDE DEF t
<1> QED
    BY <1>1, <1>2, <1>3

-----------------------------------------------------------------------------
(* Steps.                                                                  *)

\* A step within a command changes where it is, not what it is about.
LEMMA SameCommand ==
    ASSUME TypeOK, NEW at, cmd' = [cmd EXCEPT !.at = at]
    PROVE  /\ cmd'.op = cmd.op /\ cmd'.profile = cmd.profile /\ cmd'.rows = cmd.rows
           /\ cmd'.roots = cmd.roots /\ cmd'.at = at
           /\ at \in Paths \union Roots \union {None} => cmd' \in Command
           /\ New' = New
           /\ rows' = rows => Old' = Old /\ Changed' = Changed
<1>1. /\ cmd'.op = cmd.op /\ cmd'.profile = cmd.profile /\ cmd'.rows = cmd.rows
      /\ cmd'.roots = cmd.roots /\ cmd'.at = at
      /\ at \in Paths \union Roots \union {None} => cmd' \in Command
    BY DEF TypeOK, Command
<1>2. New' = New
    BY <1>1 DEF New
<1>3. rows' = rows => Old' = Old /\ Changed' = Changed
    BY <1>1, <1>2 DEF Old, Changed
<1> QED
    BY <1>1, <1>2, <1>3

\* The farms of the running command have a source or nothing at each path.
LEMMA FarmsOfCommand ==
    ASSUME TypeOK, cmd.profile \in Profiles
    PROVE  /\ New \in [Paths -> Sources \union {None}]
           /\ Old \in [Paths -> Sources \union {None}]
           /\ Given(New) \subseteq Paths /\ Given(Old) \subseteq Paths
           /\ Changed \subseteq Given(New) \union Given(Old)
<1>1. cmd.rows \in ModRows /\ rows[cmd.profile] \in ModRows
    BY DEF TypeOK, Command
<1>2. /\ New \in [Paths -> Sources \union {None}]
      /\ Old \in [Paths -> Sources \union {None}]
    BY <1>1, FarmType DEF New, Old
<1> QED
    BY <1>2 DEF Given, Changed

\* No command runs.
LEMMA IdleCommand == Idle \in Command /\ Unknown \in Standing
BY DEF Idle, Command, Unknown, Standing, ModRows

LEMMA RootsOfType == ASSUME NEW ps \in SUBSET Paths PROVE RootsOf(ps) \subseteq Roots
BY DeploymentAssumption DEF RootsOf

LEMMA InitIInv == Init => IInv
<1> SUFFICES ASSUME Init
             PROVE  IInv
    OBVIOUS
<1>1. TypeOK
    <2>1. RootsOf(TheirPaths) \subseteq Roots
        BY DeploymentAssumption, RootsOfType
    <2> QED
        BY <2>1, IdleCommand, DeploymentAssumption DEF Init, TypeOK, ModRows, Labels
<1>2. /\ pc = "idle" /\ cmd.op = "idle" /\ standing.how = "unknown"
    BY DEF Init, Idle, Unknown
<1> QED
    BY <1>1, <1>2 DEF IInv, Commands, Visits, Deploying, Patching, Stands, Saving

\* A deploy begins.
LEMMA DeployKeeps == ASSUME IInv, NEW p \in Profiles, Deploy(p) PROVE IInv'
<1> USE DEF IInv
<1>1. /\ pc' = "create" /\ cmd'.op = "deploy" /\ cmd'.profile = p /\ cmd'.rows = rows[p]
      /\ todo' = {} /\ cmd' \in Command
    BY DEF Deploy, Start, Command, TypeOK
<1>2. TypeOK'
    BY <1>1 DEF Deploy, Start, TypeOK, Labels
<1> QED
    BY <1>1, <1>2 DEF Deploy, Start, Commands, Visits, Deploying, Patching, Stands, Saving

LEMMA CreateKeeps == ASSUME IInv, Create PROVE IInv'
<1> USE DEF IInv
<1> DEFINE p == cmd.profile
<1>1. /\ pc = "create" /\ pc' = "stage" /\ cmd' = [cmd EXCEPT !.at = None]
      /\ todo' = Given(New) /\ staging' = [staging EXCEPT ![p] = EmptyTree]
      /\ UNCHANGED <<layout, rows, bak, aside, entry, file, standing, backups, crashes>>
    BY DEF Create, Goto, Given, New
<1>2. p \in Profiles /\ cmd.op = "deploy"
    BY <1>1 DEF Commands
<1>3. /\ cmd'.op = "deploy" /\ cmd'.profile = p /\ cmd'.rows = cmd.rows /\ cmd' \in Command
      /\ New' = New
    BY <1>1, <1>2, SameCommand
<1>4. staging' \in [Profiles -> Tree \union {None}] /\ staging'[p] = EmptyTree
    BY <1>1, <1>2, EmptyTreeType DEF TypeOK
<1>5. TypeOK'
    BY <1>1, <1>3, <1>4, <1>2, FarmsOfCommand DEF TypeOK, Labels
<1>6. Commands'
    BY <1>1, <1>2, <1>3, <1>4, EmptyTreeType DEF Commands
<1>7. Visits'
    BY <1>1, <1>3 DEF Visits, Given
<1>8. Deploying'
    <2>1. staging'[p].dirs = {} /\ staging'[p].at = [path \in Paths |-> None]
        BY <1>4 DEF EmptyTree
    <2> QED
        BY <2>1, <1>1, <1>3 DEF Deploying, Given
<1>9. Patching' /\ Stands' /\ Saving'
    BY <1>1, <1>3 DEF Patching, Stands, Saving
<1> QED
    BY <1>5, <1>6, <1>7, <1>8, <1>9

\* A source is linked into the staging tree.
LEMMA StageOneKeeps ==
    ASSUME IInv, NEW path \in todo, Goto("stage", "stage", None, todo \ {path}),
           staging' = Restaged(cmd.profile, path, Farm(cmd.profile, cmd.rows)[path]),
           UNCHANGED <<rows, bak, aside, entry, file, standing>>
    PROVE  IInv'
<1> USE DEF IInv
<1> DEFINE p == cmd.profile
<1>1. /\ pc = "stage" /\ pc' = "stage" /\ cmd' = [cmd EXCEPT !.at = None]
      /\ todo' = todo \ {path} /\ staging' = Restaged(p, path, New[path])
      /\ UNCHANGED <<layout, rows, bak, aside, entry, file, standing, backups, crashes>>
    BY DEF Goto, New
<1>2. /\ p \in Profiles /\ cmd.op = "deploy" /\ staging[p] # None
      /\ todo \subseteq Given(New) /\ path \in Paths /\ New[path] \in Sources
      /\ New[path] # None
    BY <1>1, FarmsOfCommand DEF Commands, Visits, Given
<1>3. /\ cmd'.op = "deploy" /\ cmd'.profile = p /\ cmd'.rows = cmd.rows /\ cmd' \in Command
      /\ New' = New
    BY <1>1, <1>2, SameCommand
<1>4. /\ staging' \in [Profiles -> Tree \union {None}] /\ staging'[p] # None
      /\ staging'[p].at = [staging[p].at EXCEPT ![path] = New[path]]
      /\ staging'[p].dirs = staging[p].dirs \union {RootOf[path]}
    <2>1. New[path] \in Sources \union Profiles \union {None}
        BY <1>2
    <2>2. staging' \in [Profiles -> Tree \union {None}] /\ staging'[p] # None
        BY <2>1, <1>1, <1>2, RestagedType
    <2>3. staging'[p].at = [staging[p].at EXCEPT ![path] = New[path]]
        BY <2>1, <1>1, <1>2, RestagedAt
    <2>4. staging'[p].dirs = staging[p].dirs \union {RootOf[path]}
        BY <2>1, <1>1, <1>2, RestagedDirs
    <2> QED
        BY <2>2, <2>3, <2>4
<1>5. TypeOK'
    BY <1>1, <1>3, <1>4 DEF TypeOK, Labels
<1>6. Commands' /\ Visits'
    BY <1>1, <1>2, <1>3, <1>4 DEF Commands, Visits, Given
<1>7. Deploying'
    <2>1. staging[p].at \in [Paths -> Sources \union Profiles \union {None}]
        BY <1>2 DEF TypeOK, Tree
    <2>2. \A q \in Paths : staging'[p].at[q] = IF q \in todo' THEN None ELSE New[q]
        BY <1>1, <1>4, <2>1 DEF Deploying
    <2>3. \A q \in Given(New) \ todo' : RootOf[q] \in staging'[p].dirs
        BY <1>1, <1>4 DEF Deploying
    <2>4. staging'[p].dirs \subseteq RootsOf(Given(New))
        BY <1>1, <1>2, <1>4 DEF Deploying, RootsOf
    <2> QED
        BY <1>1, <1>3, <2>2, <2>3, <2>4 DEF Deploying, Given
<1>8. Patching' /\ Stands' /\ Saving'
    BY <1>1, <1>3 DEF Patching, Stands, Saving
<1> QED
    BY <1>5, <1>6, <1>7, <1>8

\* The staging tree is the farm; the plugin visits it.
LEMMA StageDoneKeeps ==
    ASSUME IInv, Stage, pc' # "stage"
    PROVE  IInv'
<1> USE DEF IInv
<1> DEFINE p == cmd.profile
<1>1. /\ pc = "stage" /\ cmd' = [cmd EXCEPT !.at = None] /\ todo = {}
      /\ \/ layout = "files" /\ pc' = "clearfile" /\ todo' = Filled(staging[p])
         \/ layout = "roots" /\ pc' = "clearroot" /\ todo' = staging[p].dirs
      /\ UNCHANGED <<layout, rows, staging, bak, aside, entry, file, standing,
                     backups, crashes>>
    BY DEF Stage, Goto
<1>2. p \in Profiles /\ cmd.op = "deploy" /\ staging[p] # None
    BY <1>1 DEF Commands
<1>3. /\ cmd'.op = "deploy" /\ cmd'.profile = p /\ cmd'.rows = cmd.rows /\ cmd' \in Command
      /\ New' = New
    BY <1>1, <1>2, SameCommand
<1>4. /\ staging[p].at \in [Paths -> Sources \union Profiles \union {None}]
      /\ staging[p].dirs \subseteq Roots
      /\ New \in [Paths -> Sources \union {None}]
    BY <1>2, FarmsOfCommand DEF TypeOK, Tree
<1>5. staging[p].at = New
    BY <1>1, <1>4 DEF Deploying
<1>6. /\ Filled(staging[p]) = Given(New)
      /\ staging[p].dirs = RootsOf(Given(New))
    BY <1>1, <1>5 DEF Deploying, Filled, Given, RootsOf
<1>7. TypeOK'
    BY <1>1, <1>3, <1>4 DEF TypeOK, Labels, Filled
<1>8. Commands'
    BY <1>1, <1>2, <1>3 DEF Commands
<1>9. Visits'
    BY <1>1, <1>3, <1>6 DEF Visits, Given, RootsOf
<1>10. Deploying'
    <2>1. Given(New)' = Given(New) /\ RootsOf(Given(New))' = RootsOf(Given(New))
        BY <1>3 DEF Given, RootsOf
    <2>2. pc' = "clearfile" => Given(New) \ todo' = {}
        BY <1>1, <1>6
    <2>3. pc' = "clearroot" => \A path \in Given(New) : RootOf[path] \in todo'
        BY <1>1, <1>6 DEF RootsOf
    <2> QED
        BY <1>1, <1>3, <1>5, <1>6, <2>1, <2>2, <2>3 DEF Deploying
<1>11. Patching' /\ Stands' /\ Saving'
    BY <1>1, <1>3 DEF Patching, Stands, Saving
<1> QED
    BY <1>7, <1>8, <1>9, <1>10, <1>11

LEMMA StageKeeps == ASSUME IInv, Stage PROVE IInv'
<1>1. CASE pc' = "stage"
    <2>1. \E path \in todo :
             /\ Goto("stage", "stage", None, todo \ {path})
             /\ staging' = Restaged(cmd.profile, path, Farm(cmd.profile, cmd.rows)[path])
        BY <1>1 DEF Stage, Goto
    <2>2. UNCHANGED <<rows, bak, aside, entry, file, standing>>
        BY DEF Stage
    <2> QED
        BY <2>1, <2>2, StageOneKeeps
<1> QED
    BY <1>1, StageDoneKeeps

\* The destination of a file is cleared.
LEMMA ClearFileKeeps == ASSUME IInv, ClearFile PROVE IInv'
<1> USE DEF IInv
<1> DEFINE p == cmd.profile
<1>1. PICK path \in todo :
        LET r == RootOf[path]
            e == entry[r]
        IN /\ pc = "clearfile"
           /\ \/ /\ e \in Profiles /\ ~HasRoot(e, r)
                 /\ End("clearfile")
                 /\ standing' = Unknown
                 /\ UNCHANGED <<entry, file, staging>>
              \/ /\ e \in Profiles /\ HasRoot(e, r)
                 /\ staging' = Restaged(e, path, None)
                 /\ Goto("clearfile", "linkfile", path, todo)
                 /\ UNCHANGED <<entry, file, standing>>
              \/ /\ e \in {"folder", None}
                 /\ entry' = [entry EXCEPT ![r] = "folder"]
                 /\ file' = [file EXCEPT ![path] = None]
                 /\ Goto("clearfile", "linkfile", path, todo)
                 /\ UNCHANGED <<staging, standing>>
           /\ UNCHANGED <<rows, bak, aside>>
    BY DEF ClearFile
<1> DEFINE r == RootOf[path]
           e == entry[r]
<1>2. /\ p \in Profiles /\ cmd.op = "deploy" /\ staging[p] # None /\ layout = "files"
      /\ todo \subseteq Given(New) /\ path \in Paths /\ r \in Roots
    BY <1>1, DeploymentAssumption DEF Commands, Visits, Given
<1>3. CASE e \in Profiles /\ ~HasRoot(e, r)
    <2>1. /\ pc' = "idle" /\ cmd' = Idle /\ todo' = {} /\ standing' = Unknown
          /\ UNCHANGED <<layout, rows, diskVars, backups, crashes>>
        BY <1>1, <1>3, NamesAssumption DEF End, diskVars
    <2>2. TypeOK'
        BY <2>1, IdleCommand DEF TypeOK, Labels, diskVars
    <2> QED
        BY <2>1, <2>2 DEF Idle, Unknown, Commands, Visits, Deploying, Patching, Stands, Saving
<1>4. CASE e \in Profiles /\ HasRoot(e, r)
    <2>1. /\ pc = "clearfile" /\ pc' = "linkfile" /\ cmd' = [cmd EXCEPT !.at = path]
          /\ todo' = todo /\ staging' = Restaged(e, path, None)
          /\ UNCHANGED <<layout, rows, bak, aside, entry, file, standing, backups, crashes>>
        BY <1>1, <1>4, NamesAssumption DEF Goto
    <2>2. /\ cmd'.op = "deploy" /\ cmd'.profile = p /\ cmd'.rows = cmd.rows
          /\ cmd' \in Command /\ cmd'.at = path /\ New' = New
        BY <1>2, <2>1, SameCommand
    <2>3. /\ staging' \in [Profiles -> Tree \union {None}] /\ staging'[e] # None
          /\ \A q \in Profiles \ {e} : staging'[q] = staging[q]
          /\ staging'[e].dirs = staging[e].dirs
        <3>1. staging[e] # None
            BY <1>4 DEF HasRoot
        <3> QED
            BY <3>1, <1>2, <1>4, <2>1, RestagedType, RestagedDirs
    <2>4. TypeOK'
        BY <2>1, <2>2, <2>3 DEF TypeOK, Labels
    <2>5. Commands'
        BY <2>1, <2>2, <2>3, <1>2 DEF Commands
    <2>6. Visits'
        BY <2>1, <2>2, <2>3, <1>1, <1>2, <1>4 DEF Visits, Given
    <2>7. Deploying'
        <3>1. staging'[p].dirs = staging[p].dirs
            BY <1>2, <2>3
        <3>2. ~NoLinks'
            BY <1>2, <1>4, <2>1 DEF NoLinks
        <3> QED
            BY <2>1, <2>2, <3>1, <3>2 DEF Deploying, Given, RootsOf
    <2>8. Patching' /\ Stands' /\ Saving'
        BY <2>1, <2>2 DEF Patching, Stands, Saving
    <2> QED
        BY <2>4, <2>5, <2>6, <2>7, <2>8
<1>5. CASE e \in {"folder", None}
    <2>1. /\ pc = "clearfile" /\ pc' = "linkfile" /\ cmd' = [cmd EXCEPT !.at = path]
          /\ todo' = todo
          /\ entry' = [entry EXCEPT ![r] = "folder"] /\ file' = [file EXCEPT ![path] = None]
          /\ UNCHANGED <<layout, rows, staging, bak, aside, standing, backups, crashes>>
        BY <1>1, <1>5, NamesAssumption DEF Goto
    <2>2. /\ cmd'.op = "deploy" /\ cmd'.profile = p /\ cmd'.rows = cmd.rows
          /\ cmd' \in Command /\ cmd'.at = path /\ New' = New
        BY <1>2, <2>1, SameCommand
    <2>3. TypeOK'
        BY <1>2, <2>1, <2>2 DEF TypeOK, Labels
    <2>4. Commands'
        BY <2>1, <2>2, <1>2 DEF Commands
    <2>5. entry'[r] = "folder" /\ \A s \in Roots : s # r => entry'[s] = entry[s]
        BY <1>2, <2>1 DEF TypeOK
    <2>6. Visits'
        BY <2>1, <2>2, <2>5, <1>1, <1>2 DEF Visits, Given
    <2>7. Deploying'
        <3>1. NoLinks' => NoLinks
            BY <1>5, <2>5, NamesAssumption DEF NoLinks
        <3>2. ASSUME NEW q \in Given(New) \ todo, Linked(p, q)
              PROVE  Linked(p, q)'
            <4>1. q # path /\ q \in Paths /\ RootOf[q] \in Roots
                BY <1>1, <3>2, DeploymentAssumption DEF Given
            <4> QED
                BY <1>2, <2>1, <2>5, <3>2, <4>1 DEF Linked, TypeOK
        <3>3. \A q : Linked(cmd.profile, q)' <=> Linked(p, q)'
            BY <2>2 DEF Linked
        <3> QED
            BY <2>1, <2>2, <3>1, <3>2, <3>3 DEF Deploying, Given, RootsOf
    <2>8. Patching' /\ Stands' /\ Saving'
        BY <2>1, <2>2 DEF Patching, Stands, Saving
    <2> QED
        BY <2>3, <2>4, <2>6, <2>7, <2>8
<1> QED
    BY <1>1, <1>3, <1>4, <1>5

\* A file is linked.
LEMMA LinkFileKeeps == ASSUME IInv, LinkFile PROVE IInv'
<1> USE DEF IInv
<1>0. PICK p, path : p = cmd.profile /\ path = cmd.at
    OBVIOUS
<1> DEFINE e == entry[RootOf[path]]
<1>1. /\ pc = "linkfile" /\ pc' = "clearfile" /\ cmd' = [cmd EXCEPT !.at = None]
      /\ todo' = todo \ {path}
      /\ UNCHANGED <<layout, rows, bak, aside, entry, standing, backups, crashes>>
    BY <1>0 DEF LinkFile, Goto
<1>2. /\ p \in Profiles /\ cmd.op = "deploy" /\ staging[p] # None /\ layout = "files"
      /\ todo \subseteq Given(New) /\ path \in todo /\ path \in Paths /\ RootOf[path] \in Roots
    BY <1>0, <1>1, DeploymentAssumption DEF Commands, Visits, Given
<1>3. /\ cmd'.op = "deploy" /\ cmd'.profile = p /\ cmd'.rows = cmd.rows
      /\ cmd' \in Command /\ New' = New
    BY <1>0, <1>1, <1>2, SameCommand
<1>4. CASE e \in Profiles
    <2>1. staging' = Restaged(e, path, p) /\ file' = file /\ staging[e] # None
        BY <1>0, <1>1, <1>4, NamesAssumption DEF LinkFile, Visits
    <2>2. /\ staging' \in [Profiles -> Tree \union {None}] /\ staging'[e] # None
          /\ \A q \in Profiles \ {e} : staging'[q] = staging[q]
        BY <1>0, <1>2, <1>4, <2>1, RestagedType
    <2>3. staging'[e].dirs = staging[e].dirs \union {RootOf[path]}
        <3>1. p # None
            BY <1>0, <1>2, NamesAssumption
        <3> QED
            BY <1>0, <1>2, <1>4, <2>1, <3>1, RestagedDirs
    <2>4. TypeOK'
        BY <1>0, <1>1, <1>3, <2>1, <2>2 DEF TypeOK, Labels
    <2>5. Commands' /\ Visits'
        BY <1>0, <1>1, <1>2, <1>3, <2>2 DEF Commands, Visits, Given
    <2>6. Deploying'
        <3>1. staging[p].dirs \subseteq staging'[p].dirs
            BY <1>0, <1>2, <2>2, <2>3
        <3>2. ~NoLinks'
            BY <1>0, <1>1, <1>2, <1>4 DEF NoLinks
        <3> QED
            BY <1>0, <1>1, <1>3, <3>1, <3>2 DEF Deploying, Given, RootsOf
    <2>7. Patching' /\ Stands' /\ Saving'
        BY <1>0, <1>1, <1>3 DEF Patching, Stands, Saving
    <2> QED
        BY <2>4, <2>5, <2>6, <2>7
<1>5. CASE e \notin Profiles
    <2>1. staging' = staging /\ file' = [file EXCEPT ![path] = p] /\ e = "folder"
        BY <1>0, <1>1, <1>5 DEF LinkFile, Visits
    <2>2. TypeOK'
        BY <1>0, <1>1, <1>2, <1>3, <2>1 DEF TypeOK, Labels
    <2>3. Commands' /\ Visits'
        BY <1>0, <1>1, <1>2, <1>3, <2>1 DEF Commands, Visits, Given
    <2>4. Deploying'
        <3>1. NoLinks' => NoLinks
            BY <1>0, <1>1 DEF NoLinks
        <3>2. ASSUME NEW q \in Given(New) \ todo, Linked(p, q)
              PROVE  Linked(p, q)'
            <4>1. q # path /\ q \in Paths
                BY <1>0, <1>2, <3>2 DEF Given
            <4> QED
                BY <1>0, <1>1, <1>2, <2>1, <3>2, <4>1 DEF Linked, TypeOK
        <3>3. Linked(p, path)'
            BY <1>0, <1>1, <1>2, <2>1 DEF Linked, TypeOK
        <3>4. \A q : Linked(cmd.profile, q)' <=> Linked(p, q)'
            BY <1>0, <1>3 DEF Linked
        <3> QED
            BY <1>0, <1>1, <1>3, <2>1, <3>1, <3>2, <3>3, <3>4 DEF Deploying, Given, RootsOf
    <2>5. Patching' /\ Stands' /\ Saving'
        BY <1>0, <1>1, <1>3 DEF Patching, Stands, Saving
    <2> QED
        BY <2>2, <2>3, <2>4, <2>5
<1> QED
    BY <1>4, <1>5

\* A top-level entry is cleared.
LEMMA ClearRootKeeps == ASSUME IInv, ClearRoot PROVE IInv'
<1> USE DEF IInv
<1> DEFINE p == cmd.profile
<1>1. PICK r \in todo :
         /\ pc = "clearroot" /\ pc' = "linkroot" /\ cmd' = [cmd EXCEPT !.at = r]
         /\ todo' = todo
         /\ entry' = [entry EXCEPT ![r] = None]
         /\ file' = [path \in Paths |-> IF RootOf[path] = r THEN None ELSE file[path]]
         /\ UNCHANGED <<layout, rows, staging, bak, aside, standing, backups, crashes>>
    BY DEF ClearRoot, Goto
<1>2. p \in Profiles /\ staging[p] # None /\ cmd.op \in {"deploy", "hot"}
    BY <1>1 DEF Commands
<1>3. r \in Roots /\ Given(New) \subseteq Paths /\ Changed \subseteq Paths
    <2>1. Given(New) \subseteq Paths /\ Changed \subseteq Paths
        BY DEF Given, Changed
    <2> QED
        BY <1>1, <2>1, RootsOfType DEF Visits
<1>4. /\ cmd'.op = cmd.op /\ cmd'.profile = p /\ cmd'.rows = cmd.rows /\ cmd'.at = r
      /\ cmd'.roots = cmd.roots /\ cmd' \in Command
      /\ New' = New /\ Old' = Old /\ Changed' = Changed
    BY <1>1, <1>2, <1>3, SameCommand
<1>5. /\ entry' \in [Roots -> Profiles \union {"folder", None}]
      /\ \A s \in Roots : s # r => entry'[s] = entry[s]
    BY <1>1, <1>3 DEF TypeOK
<1>6. TypeOK'
    BY <1>1, <1>4, <1>5 DEF TypeOK, Labels
<1>7. Commands'
    BY <1>1, <1>2, <1>4 DEF Commands
<1>8. Visits'
    BY <1>1, <1>2, <1>4 DEF Visits, Given, RootsOf
<1>9. layout = "roots" =>
        \A path \in Given(New) : Linked(p, path) => RootOf[path] \in todo \/ Linked(p, path)'
    BY <1>1, <1>3, <1>5, DeploymentAssumption DEF Linked
<1>10. \A path : Linked(cmd.profile, path)' <=> Linked(p, path)'
    BY <1>4 DEF Linked
<1>11. Given(New)' = Given(New) /\ RootsOf(Given(New))' = RootsOf(Given(New))
    BY <1>4 DEF Given, RootsOf
<1>12. Deploying'
    BY <1>1, <1>4, <1>9, <1>10, <1>11 DEF Deploying, Commands
<1>13. Patching'
    <2>1. SUFFICES ASSUME cmd.op = "hot", standing.how = "deployed"
                   PROVE  Patching'
        BY <1>1, <1>4 DEF Patching
    <2>2. /\ standing.profile = cmd.profile
          /\ cmd.roots \union RootsOf(Given(New)) \subseteq staging[p].dirs
          /\ layout = "roots" =>
                /\ staging[p].at = New
                /\ \A path \in Given(New) : RootOf[path] \in todo \/ Linked(p, path)
        BY <1>1, <2>1 DEF Patching
    <2> QED
        BY <1>1, <1>4, <1>9, <1>10, <1>11, <2>2 DEF Patching
<1>14. Stands' /\ Saving'
    BY <1>1 DEF Stands, Saving
<1> QED
    BY <1>6, <1>7, <1>8, <1>12, <1>13, <1>14

\* A top-level entry is linked to the staging tree.
LEMMA LinkRootKeeps == ASSUME IInv, LinkRoot PROVE IInv'
<1> USE DEF IInv
<1> DEFINE p == cmd.profile
           r == cmd.at
<1>1. /\ pc = "linkroot" /\ pc' = "clearroot" /\ cmd' = [cmd EXCEPT !.at = None]
      /\ todo' = todo \ {r}
      /\ entry' = [entry EXCEPT ![r] = IF HasRoot(p, r) THEN p ELSE @]
      /\ UNCHANGED <<layout, rows, staging, file, bak, aside, standing, backups, crashes>>
    BY DEF LinkRoot, Goto
<1>2. /\ p \in Profiles /\ staging[p] # None /\ cmd.op \in {"deploy", "hot"} /\ r \in todo
    BY <1>1 DEF Commands, Visits
<1>3. r \in Roots /\ Given(New) \subseteq Paths /\ Changed \subseteq Paths
    <2>1. Given(New) \subseteq Paths /\ Changed \subseteq Paths
        BY DEF Given, Changed
    <2> QED
        BY <1>1, <1>2, <2>1, RootsOfType DEF Visits
<1>4. /\ cmd'.op = cmd.op /\ cmd'.profile = p /\ cmd'.rows = cmd.rows
      /\ cmd'.roots = cmd.roots /\ cmd' \in Command
      /\ New' = New /\ Old' = Old /\ Changed' = Changed
    BY <1>1, <1>2, SameCommand
<1>5. /\ entry' \in [Roots -> Profiles \union {"folder", None}]
      /\ \A s \in Roots : s # r => entry'[s] = entry[s]
      /\ r \in staging[p].dirs => entry'[r] = p
    BY <1>1, <1>2, <1>3 DEF TypeOK, HasRoot
<1>6. TypeOK'
    BY <1>1, <1>4, <1>5 DEF TypeOK, Labels
<1>7. Commands'
    BY <1>1, <1>2, <1>4 DEF Commands
<1>8. Visits'
    BY <1>1, <1>2, <1>4 DEF Visits, Given, RootsOf
<1>9. layout = "roots" /\ r \in staging[p].dirs =>
        \A path \in Given(New) :
            RootOf[path] \in todo \/ Linked(p, path) => RootOf[path] \in todo' \/ Linked(p, path)'
    BY <1>1, <1>3, <1>5, DeploymentAssumption DEF Linked
<1>10. \A path : Linked(cmd.profile, path)' <=> Linked(p, path)'
    BY <1>4 DEF Linked
<1>11. Given(New)' = Given(New) /\ RootsOf(Given(New))' = RootsOf(Given(New))
    BY <1>4 DEF Given, RootsOf
<1>12. Deploying'
    <2>1. cmd.op = "deploy" => r \in staging[p].dirs
        BY <1>1, <1>2 DEF Deploying, Visits
    <2> QED
        BY <1>1, <1>4, <1>9, <1>10, <1>11, <2>1 DEF Deploying, Commands
<1>13. Patching'
    <2>1. SUFFICES ASSUME cmd.op = "hot", standing.how = "deployed"
                   PROVE  Patching'
        BY <1>1, <1>4 DEF Patching
    <2>2. /\ standing.profile = cmd.profile
          /\ cmd.roots \union RootsOf(Given(New)) \subseteq staging[p].dirs
          /\ layout = "roots" =>
                /\ staging[p].at = New
                /\ \A path \in Given(New) : RootOf[path] \in todo \/ Linked(p, path)
        BY <1>1, <2>1 DEF Patching
    <2>3. r \in staging[p].dirs
        BY <1>1, <1>2, <2>1, <2>2 DEF Visits
    <2>4. ~NoLinks'
        BY <1>2, <1>3, <1>5, <2>3 DEF NoLinks
    <2> QED
        BY <1>1, <1>4, <1>9, <1>10, <1>11, <2>2, <2>3, <2>4 DEF Patching
<1>14. Stands' /\ Saving'
    BY <1>1 DEF Stands, Saving
<1> QED
    BY <1>6, <1>7, <1>8, <1>12, <1>13, <1>14

\* The deploy is done: the profile stands.
LEMMA DeployEndKeeps == ASSUME IInv, DeployEnd PROVE IInv'
<1> USE DEF IInv
<1>0. PICK p : p = cmd.profile
    OBVIOUS
<1>1. /\ cmd.op = "deploy" /\ todo = {} /\ pc \in {"clearfile", "clearroot"}
      /\ pc' = "idle" /\ cmd' = Idle /\ todo' = {}
      /\ standing' = [how |-> "deployed", profile |-> p, tree |-> None]
      /\ UNCHANGED <<layout, rows, staging, bak, aside, entry, file, backups, crashes>>
    BY <1>0 DEF DeployEnd, End, diskVars
<1>2. p \in Profiles /\ staging[p] # None /\ New = Farm(p, rows[p])
    BY <1>0, <1>1 DEF Commands, New
<1>3. TypeOK'
    BY <1>0, <1>1, <1>2, IdleCommand DEF TypeOK, Labels, Standing
<1>4. Commands' /\ Visits' /\ Deploying' /\ Patching' /\ Saving'
    BY <1>0, <1>1 DEF Idle, Commands, Visits, Deploying, Patching, Saving
<1>5. Stands'
    <2>1. Saved(p)' = rows[p] /\ standing'.profile = p
        BY <1>0, <1>1 DEF Saved
    <2>2. NoLinks' <=> NoLinks
        BY <1>0, <1>1 DEF NoLinks
    <2>3. \A path \in Paths : Linked(p, path)' <=> Linked(p, path)
        BY <1>0, <1>1 DEF Linked
    <2>4. RootsOf(Given(New)) \subseteq staging[p].dirs
        BY <1>0, <1>1 DEF Deploying
    <2>5. (layout = "files" => NoLinks) =>
             staging[p].at = New /\ \A path \in Given(New) : Linked(p, path)
        BY <1>0, <1>1 DEF Deploying, Commands
    <2>6. Given(New) \subseteq Paths
        BY DEF Given
    <2>7. standing' = [how |-> "deployed", profile |-> p, tree |-> None]
        BY <1>1
    <2>8. Saved(standing.profile)' = rows[p] /\ standing'.profile = p
        BY <1>1, <2>7 DEF Saved
    <2>9. /\ Given(New) = {path \in Paths : New[path] # None}
          /\ \A path \in Paths : Linked(standing.profile, path)' <=> Linked(p, path)
        BY <2>3, <2>7 DEF Given, Linked
    <2> QED
        BY <1>1, <1>2, <2>2, <2>4, <2>5, <2>8, <2>9 DEF Stands, Given, RootsOf
<1> QED
    BY <1>3, <1>4, <1>5

\* A hot deploy begins, with its patch or, if there is none, with the rows.
LEMMA HotDeployKeeps ==
    ASSUME IInv, NEW p \in Edited, NEW m \in Mods, NEW state \in {"on", "off"},
           HotDeploy(p, m, state)
    PROVE  IInv'
<1> USE DEF IInv
<1>1. PICK next : next = [rows[p] EXCEPT ![m] = state]
    OBVIOUS
<1>2. PICK before : before = Farm(p, rows[p])
    OBVIOUS
<1>3. PICK after : after = Farm(p, next)
    OBVIOUS
<1>4. PICK patch : patch = {path \in Paths : before[path] # after[path]}
    OBVIOUS
<1>5. /\ pc = "idle" /\ todo' = patch /\ p \in Profiles
      /\ cmd' = [op |-> "hot", profile |-> p, rows |-> next, at |-> None,
                 roots |-> IF patch = {} THEN {} ELSE RootsOf(patch)]
      /\ \/ patch # {} /\ staging[p] # None /\ pc' = "unpatch"
         \/ patch = {} /\ pc' = "forget"
      /\ standing' = IF standing.how = "deployed" /\ standing.profile = p
                     THEN standing ELSE Unknown
      /\ UNCHANGED <<layout, rows, staging, bak, aside, entry, file, backups, crashes>>
    BY <1>1, <1>2, <1>3, <1>4, DeploymentAssumption DEF HotDeploy, Start, diskVars
<1>6. next \in ModRows
    BY <1>1, <1>5 DEF TypeOK, ModRows
<1>7. patch \subseteq Paths /\ RootsOf(patch) \subseteq Roots
    BY <1>4, RootsOfType
<1>8. cmd' \in Command
    BY <1>5, <1>6, <1>7 DEF Command
<1>9. Old' = before /\ New' = after /\ Changed' = patch
    BY <1>2, <1>3, <1>4, <1>5 DEF Old, New, Changed
<1>10. TypeOK'
    BY <1>5, <1>7, <1>8, IdleCommand DEF TypeOK, Labels
<1>11. Commands' /\ Visits' /\ Deploying' /\ Saving'
    BY <1>5, <1>9 DEF Commands, Visits, Deploying, Saving, RootsOf
<1>12. ASSUME standing'.how = "deployed"
       PROVE  /\ standing.how = "deployed" /\ standing.profile = p /\ staging[p] # None
              /\ RootsOf(Given(before)) \subseteq staging[p].dirs
              /\ (layout = "files" => NoLinks) =>
                    staging[p].at = before /\ \A path \in Given(before) : Linked(p, path)
    <2>1. standing.how = "deployed" /\ standing.profile = p
        BY <1>5, <1>12 DEF Unknown
    <2>2. Farm(p, Saved(p)) = before
        BY <1>2, <1>5 DEF Saved
    <2> QED
        BY <1>5, <2>1, <2>2 DEF Stands
<1>13. /\ \A path \in Paths : path \notin patch => before[path] = after[path]
       /\ Given(before) = {path \in Paths : before[path] # None}
       /\ Given(after) = {path \in Paths : after[path] # None}
    BY <1>4 DEF Given
<1>14. cmd'.profile = p /\ cmd'.op = "hot" /\ cmd'.rows = next
    BY <1>5
<1>15. \A path \in Paths : Linked(p, path)' <=> Linked(p, path)
    BY <1>5 DEF Linked
<1>16. ASSUME patch # {}
       PROVE  Patching' /\ Stands'
    <2>1. pc' = "unpatch"
        BY <1>5, <1>16
    <2>2. ASSUME standing'.how = "deployed"
          PROVE  /\ standing'.profile = p
                 /\ RootsOf(Given(before)) \subseteq staging[p].dirs
                 /\ \A path \in Given(after) \ patch : RootOf[path] \in staging[p].dirs
                 /\ layout = "roots" =>
                       /\ \A path \in Paths \ patch : staging[p].at[path] = after[path]
                       /\ \A path \in Given(before) : Linked(p, path)'
        BY <1>5, <1>12, <1>13, <1>15, <2>2 DEF RootsOf
    <2>3. \A path : Linked(cmd.profile, path)' <=> Linked(p, path)'
        BY <1>14 DEF Linked
    <2> QED
        BY <1>5, <1>9, <1>14, <2>1, <2>2, <2>3 DEF Patching, Stands, Given, RootsOf
<1>17. ASSUME patch = {}
       PROVE  Patching' /\ Stands'
    <2>1. pc' = "forget"
        BY <1>5, <1>17
    <2>2. before = after
        <3>1. before \in [Paths -> Sources \union {None}] /\ after \in [Paths -> Sources \union {None}]
            BY <1>2, <1>3, <1>5, <1>6, FarmType DEF TypeOK
        <3> QED
            BY <1>4, <1>17, <3>1
    <2>3. standing'.how = "deployed" => standing'.profile = p
        BY <1>5, <1>12
    <2>4. Saved(p)' = next /\ (NoLinks' <=> NoLinks)
        BY <1>5, <2>1 DEF Saved, NoLinks
    <2>5. standing'.how = "deployed" =>
             /\ Farm(standing.profile, Saved(standing.profile))' = after
             /\ \A path : Linked(standing.profile, path)' <=> Linked(p, path)'
        BY <1>3, <1>5, <2>3, <2>4 DEF Saved, Linked
    <2> QED
        BY <1>5, <1>12, <1>13, <1>15, <2>1, <2>2, <2>3, <2>4, <2>5
           DEF Patching, Stands, Given, RootsOf
<1> QED
    BY <1>10, <1>11, <1>16, <1>17

\* A path of the patch is cleared in the staging tree, or none is left.
LEMMA UnpatchKeeps == ASSUME IInv, Unpatch PROVE IInv'
<1> USE DEF IInv
<1>1. PICK p : p = cmd.profile
    OBVIOUS
<1>2. /\ pc = "unpatch" /\ p \in Profiles /\ cmd.op = "hot" /\ staging[p] # None
      /\ todo \subseteq Changed /\ Changed \subseteq Paths
    BY <1>1 DEF Unpatch, Goto, Commands, Visits, Changed
<1>3. CASE todo # {} /\ pc' = "patch"
    <2>1. PICK path \in todo :
             /\ cmd' = [cmd EXCEPT !.at = path] /\ todo' = todo
             /\ staging' = Restaged(p, path, None)
             /\ UNCHANGED <<layout, rows, bak, aside, entry, file, standing, backups, crashes>>
        BY <1>1, <1>3 DEF Unpatch, Goto
    <2>2. /\ cmd'.op = cmd.op /\ cmd'.profile = p /\ cmd'.rows = cmd.rows /\ cmd'.at = path
          /\ cmd'.roots = cmd.roots /\ cmd' \in Command
          /\ New' = New /\ Old' = Old /\ Changed' = Changed
        BY <1>1, <1>2, <2>1, SameCommand
    <2>3. staging' \in [Profiles -> Tree \union {None}] /\ staging'[p] # None
        BY <1>2, <2>1, RestagedType
    <2>4. staging'[p].at = [staging[p].at EXCEPT ![path] = None]
        BY <1>2, <2>1, RestagedAt
    <2>5. staging'[p].dirs = staging[p].dirs
        BY <1>2, <2>1, RestagedDirs
    <2>6. TypeOK'
        BY <1>3, <2>1, <2>2, <2>3 DEF TypeOK, Labels
    <2>7. Commands'
        BY <1>1, <1>2, <1>3, <2>1, <2>2, <2>3 DEF Commands
    <2>8. Visits'
        BY <1>1, <1>2, <1>3, <2>1, <2>2 DEF Visits, RootsOf
    <2>9. Deploying' /\ Stands' /\ Saving'
        BY <1>2, <1>3, <2>2 DEF Deploying, Stands, Saving
    <2>10. Patching'
        <3>1. \A q : Linked(cmd.profile, q)' <=> Linked(p, q)
            BY <2>1, <2>2 DEF Linked
        <3>2. staging[p].at \in [Paths -> Sources \union Profiles \union {None}]
            BY <1>2 DEF TypeOK, Tree
        <3>3. \A q \in Paths \ todo : staging'[p].at[q] = staging[p].at[q]
            BY <2>1, <2>4, <3>2
        <3> QED
            BY <1>1, <1>2, <1>3, <2>1, <2>2, <2>5, <3>1, <3>3 DEF Patching, Given, RootsOf
    <2> QED
        BY <2>6, <2>7, <2>8, <2>9, <2>10
<1>4. CASE todo = {} /\ pc' = "clearroot"
    <2>1. /\ cmd' = [cmd EXCEPT !.at = None] /\ todo' = cmd.roots
          /\ UNCHANGED <<layout, rows, staging, bak, aside, entry, file, standing,
                         backups, crashes>>
        BY <1>4 DEF Unpatch, Goto, diskVars
    <2>2. /\ cmd'.op = cmd.op /\ cmd'.profile = p /\ cmd'.rows = cmd.rows
          /\ cmd'.roots = cmd.roots /\ cmd' \in Command
          /\ New' = New /\ Old' = Old /\ Changed' = Changed
        BY <1>1, <1>2, <2>1, SameCommand
    <2>3. cmd.roots = RootsOf(Changed) /\ Changed # {}
        BY <1>2 DEF Visits
    <2>4. TypeOK'
        BY <1>4, <2>1, <2>2 DEF TypeOK, Labels, Command
    <2>5. Commands' /\ Visits'
        BY <1>1, <1>2, <1>4, <2>1, <2>2, <2>3 DEF Commands, Visits, RootsOf
    <2>6. Deploying' /\ Stands' /\ Saving'
        BY <1>2, <1>4, <2>2 DEF Deploying, Stands, Saving
    <2>7. Patching'
        <3>1. SUFFICES ASSUME standing.how = "deployed"
                       PROVE  Patching'
            BY <2>1 DEF Patching
        <3>2. /\ standing.profile = p
              /\ RootsOf(Given(Old)) \subseteq staging[p].dirs
              /\ \A path \in Given(New) : RootOf[path] \in staging[p].dirs
              /\ layout = "roots" =>
                    /\ \A path \in Paths : staging[p].at[path] = New[path]
                    /\ \A path \in Given(Old) : Linked(p, path)
            BY <1>1, <1>2, <1>4, <3>1 DEF Patching
        <3>3. RootsOf(Given(New)) \subseteq staging[p].dirs
            BY <3>2 DEF RootsOf
        <3>4. cmd.roots \subseteq staging[p].dirs
            <4>1. Changed \subseteq Given(New) \union Given(Old)
                BY <1>1, <1>2, FarmsOfCommand
            <4> QED
                BY <2>3, <3>2, <4>1 DEF RootsOf
        <3>5. cmd.roots # {}
            BY <2>3 DEF RootsOf
        <3>6. layout = "roots" => staging[p].at = New
            <4>1. /\ staging[p].at \in [Paths -> Sources \union Profiles \union {None}]
                  /\ New \in [Paths -> Sources \union {None}]
                BY <1>1, <1>2, FarmsOfCommand DEF TypeOK, Tree
            <4> QED
                BY <3>2, <4>1
        <3>7. layout = "roots" =>
                 \A path \in Given(New) : RootOf[path] \in cmd.roots \/ Linked(p, path)
            <4>1. \A path \in Given(New) : path \in Changed \/ path \in Given(Old)
                BY DEF Given, Changed
            <4> QED
                BY <2>3, <3>2, <4>1 DEF RootsOf
        <3>8. \A q : Linked(cmd.profile, q)' <=> Linked(p, q)
            BY <2>1, <2>2 DEF Linked
        <3> QED
            BY <1>1, <1>2, <1>4, <2>1, <2>2, <3>2, <3>3, <3>4, <3>5, <3>6, <3>7, <3>8
               DEF Patching, Given, RootsOf
    <2> QED
        BY <2>4, <2>5, <2>6, <2>7
<1> QED
    BY <1>3, <1>4 DEF Unpatch, Goto

\* A path of the patch is linked to its new source.
LEMMA PatchKeeps == ASSUME IInv, Patch PROVE IInv'
<1> USE DEF IInv
<1>1. PICK p, path : p = cmd.profile /\ path = cmd.at
    OBVIOUS
<1>2. /\ pc = "patch" /\ pc' = "unpatch" /\ cmd' = [cmd EXCEPT !.at = None]
      /\ todo' = todo \ {path} /\ staging' = Restaged(p, path, New[path])
      /\ UNCHANGED <<layout, rows, bak, aside, entry, file, standing, backups, crashes>>
    BY <1>1 DEF Patch, Goto, New
<1>3. /\ p \in Profiles /\ cmd.op = "hot" /\ staging[p] # None
      /\ todo \subseteq Changed /\ Changed \subseteq Paths /\ path \in todo
    BY <1>1, <1>2 DEF Commands, Visits, Changed
<1>4. New[path] \in Sources \union Profiles \union {None}
    BY <1>1, <1>3, FarmsOfCommand
<1>5. /\ cmd'.op = cmd.op /\ cmd'.profile = p /\ cmd'.rows = cmd.rows
      /\ cmd'.roots = cmd.roots /\ cmd' \in Command
      /\ New' = New /\ Old' = Old /\ Changed' = Changed
    BY <1>1, <1>2, SameCommand
<1>6. staging' \in [Profiles -> Tree \union {None}] /\ staging'[p] # None
    BY <1>2, <1>3, <1>4, RestagedType
<1>7. staging'[p].at = [staging[p].at EXCEPT ![path] = New[path]]
    BY <1>2, <1>3, <1>4, RestagedAt
<1>8. staging'[p].dirs = IF New[path] = None THEN staging[p].dirs
                         ELSE staging[p].dirs \union {RootOf[path]}
    BY <1>2, <1>3, <1>4, RestagedDirs
<1>9. TypeOK'
    BY <1>2, <1>5, <1>6 DEF TypeOK, Labels
<1>10. Commands'
    BY <1>1, <1>2, <1>3, <1>5, <1>6 DEF Commands
<1>11. Visits'
    BY <1>1, <1>2, <1>3, <1>5 DEF Visits, RootsOf
<1>12. Deploying' /\ Stands' /\ Saving'
    BY <1>2, <1>3, <1>5 DEF Deploying, Stands, Saving
<1>13. Patching'
    <2>1. \A q : Linked(cmd.profile, q)' <=> Linked(p, q)
        BY <1>2, <1>5 DEF Linked
    <2>2. staging[p].at \in [Paths -> Sources \union Profiles \union {None}]
        BY <1>3 DEF TypeOK, Tree
    <2>3. \A q \in Paths : staging'[p].at[q] = IF q = path THEN New[q] ELSE staging[p].at[q]
        BY <1>3, <1>7, <2>2
    <2>4. /\ staging[p].dirs \subseteq staging'[p].dirs
          /\ path \in Given(New) => RootOf[path] \in staging'[p].dirs
        BY <1>8 DEF Given
    <2> QED
        BY <1>1, <1>2, <1>3, <1>5, <2>1, <2>3, <2>4 DEF Patching, Given, RootsOf
<1> QED
    BY <1>9, <1>10, <1>11, <1>12, <1>13

\* The plugin is done.
LEMMA PatchedKeeps == ASSUME IInv, Patched PROVE IInv'
<1> USE DEF IInv
<1>1. PICK p : p = cmd.profile
    OBVIOUS
<1>2. /\ pc = "clearroot" /\ pc' = "forget" /\ cmd' = [cmd EXCEPT !.at = None]
      /\ cmd.op = "hot" /\ todo = {} /\ todo' = {}
      /\ UNCHANGED <<layout, rows, staging, bak, aside, entry, file, standing,
                     backups, crashes>>
    BY DEF Patched, Goto, diskVars
<1>3. p \in Profiles /\ staging[p] # None
    BY <1>1, <1>2 DEF Commands
<1>4. /\ cmd'.op = cmd.op /\ cmd'.profile = p /\ cmd'.rows = cmd.rows
      /\ cmd' \in Command /\ New' = New
    BY <1>1, <1>2, SameCommand
<1>5. TypeOK'
    BY <1>2, <1>4 DEF TypeOK, Labels
<1>6. Commands' /\ Visits' /\ Deploying' /\ Patching' /\ Saving'
    BY <1>1, <1>2, <1>3, <1>4 DEF Commands, Visits, Deploying, Patching, Saving
<1>7. Stands'
    <2>1. SUFFICES ASSUME standing.how = "deployed"
                   PROVE  Stands'
        BY <1>2 DEF Stands
    <2>2. /\ standing.profile = p
          /\ RootsOf(Given(New)) \subseteq staging[p].dirs
          /\ layout = "files" => ~NoLinks
          /\ layout = "roots" => staging[p].at = New /\ \A path \in Given(New) : Linked(p, path)
        BY <1>1, <1>2, <2>1 DEF Patching
    <2>3. /\ Farm(standing.profile, Saved(standing.profile))' = New
          /\ (NoLinks' <=> NoLinks)
          /\ \A path : Linked(standing.profile, path)' <=> Linked(p, path)
        BY <1>1, <1>2, <1>4, <2>2 DEF Saved, NoLinks, Linked, New
    <2>4. layout \in {"files", "roots"}
        BY DeploymentAssumption DEF TypeOK
    <2> QED
        BY <1>2, <1>3, <2>1, <2>2, <2>3, <2>4 DEF Stands, Given, RootsOf
<1> QED
    BY <1>5, <1>6, <1>7

\* What stands, stands while what it speaks of is left alone.
LEMMA StandsOn ==
    ASSUME Stands, standing' = standing, UNCHANGED <<layout, staging, entry, file>>,
           pc \in {"idle", "forget", "insert"},
           standing.how = "deployed" => Saved(standing.profile)' = Saved(standing.profile)
    PROVE  Stands'
<1>1. SUFFICES ASSUME standing.how = "deployed"
               PROVE  Stands'
    BY DEF Stands
<1>2. PICK p : p = standing.profile
    OBVIOUS
<1>3. PICK farm : farm = Farm(p, Saved(p))
    OBVIOUS
<1>4. /\ p \in Profiles /\ staging[p] # None
      /\ RootsOf(Given(farm)) \subseteq staging[p].dirs
      /\ (layout = "files" => NoLinks) =>
            /\ staging[p].at = farm
            /\ \A path \in Given(farm) : Linked(p, path)
    BY <1>1, <1>2, <1>3 DEF Stands
<1>5. /\ Farm(standing.profile, Saved(standing.profile))' = farm
      /\ (NoLinks' <=> NoLinks)
      /\ \A path : Linked(standing.profile, path)' <=> Linked(p, path)
    BY <1>1, <1>2, <1>3 DEF NoLinks, Linked
<1> QED
    BY <1>2, <1>4, <1>5 DEF Stands, Given, RootsOf

\* The user enables or disables a mod.
LEMMA ToggleKeeps ==
    ASSUME IInv, NEW p \in Edited, NEW m \in Mods, Toggle(p, m)
    PROVE  IInv'
<1> USE DEF IInv
<1>1. PICK next : next = [rows[p] EXCEPT ![m] = IF @ = "on" THEN "off" ELSE "on"]
    OBVIOUS
<1>2. /\ pc = "idle" /\ pc' = "forget" /\ todo' = {} /\ p \in Profiles
      /\ cmd' = [op |-> "toggle", profile |-> p, rows |-> next, at |-> None, roots |-> {}]
      /\ standing' = IF standing.profile = p THEN Unknown ELSE standing
      /\ UNCHANGED <<layout, rows, staging, bak, aside, entry, file, backups, crashes>>
    BY <1>1, DeploymentAssumption DEF Toggle, Start, diskVars
<1>3. next \in ModRows
    BY <1>1, <1>2 DEF TypeOK, ModRows
<1>4. cmd' \in Command
    BY <1>2, <1>3 DEF Command
<1>5. TypeOK'
    BY <1>2, <1>4, IdleCommand DEF TypeOK, Labels
<1>6. Commands' /\ Visits' /\ Deploying' /\ Patching' /\ Saving'
    BY <1>2 DEF Commands, Visits, Deploying, Patching, Saving
<1>7. Stands'
    <2>1. CASE standing.profile = p
        BY <1>2, <2>1 DEF Stands, Unknown
    <2>2. CASE standing.profile # p
        <3>1. Saved(standing.profile)' = Saved(standing.profile)
            BY <1>2, <2>2 DEF Saved
        <3> QED
            BY <1>2, <2>2, <3>1, StandsOn
    <2> QED
        BY <2>1, <2>2
<1> QED
    BY <1>5, <1>6, <1>7

\* The rows of a profile are deleted,
LEMMA ForgetKeeps == ASSUME IInv, Forget PROVE IInv'
<1> USE DEF IInv
<1>1. PICK p : p = cmd.profile
    OBVIOUS
<1>2. /\ pc = "forget" /\ pc' = "insert" /\ cmd' = [cmd EXCEPT !.at = None]
      /\ todo' = {m \in Mods : cmd.rows[m] # "gone"}
      /\ rows' = [rows EXCEPT ![p] = [m \in Mods |-> "gone"]]
      /\ UNCHANGED <<layout, staging, bak, aside, entry, file, standing, backups, crashes>>
    BY <1>1 DEF Forget, Goto, diskVars
<1>3. p \in Profiles /\ cmd.op \in {"hot", "toggle"}
    BY <1>1, <1>2 DEF Commands
<1>4. /\ cmd'.op = cmd.op /\ cmd'.profile = p /\ cmd'.rows = cmd.rows /\ cmd' \in Command
    BY <1>1, <1>2, SameCommand
<1>5. TypeOK'
    BY <1>2, <1>3, <1>4 DEF TypeOK, Labels, ModRows
<1>6. Commands' /\ Visits' /\ Deploying'
    BY <1>2, <1>3, <1>4 DEF Commands, Visits, Deploying
<1>7. Saving'
    <2>1. rows'[p] = [m \in Mods |-> "gone"]
        BY <1>2, <1>3 DEF TypeOK
    <2> QED
        BY <1>2, <1>4, <2>1 DEF Saving
<1>8. Patching'
    BY <1>2, <1>4, <1>1 DEF Patching
<1>9. Stands'
    <2>1. ASSUME standing.how = "deployed"
          PROVE  Saved(standing.profile)' = Saved(standing.profile)
        <3>1. standing.profile \in Profiles
            BY <1>2, <2>1 DEF Stands
        <3>2. \A q \in Profiles \ {p} : rows'[q] = rows[q]
            BY <1>2, <1>3 DEF TypeOK
        <3> QED
            BY <1>1, <1>2, <1>3, <1>4, <3>1, <3>2 DEF Saved
    <2> QED
        BY <1>2, <2>1, StandsOn
<1> QED
    BY <1>5, <1>6, <1>7, <1>8, <1>9

\* and inserted, one by one.
LEMMA InsertKeeps == ASSUME IInv, Insert PROVE IInv'
<1> USE DEF IInv
<1>1. PICK p : p = cmd.profile
    OBVIOUS
<1>2. /\ pc = "insert" /\ p \in Profiles /\ cmd.op \in {"hot", "toggle"}
      /\ UNCHANGED <<layout, staging, bak, aside, entry, file, standing, backups, crashes>>
    BY <1>1 DEF Insert, Goto, End, diskVars, Commands
<1>3. CASE pc' = "insert"
    <2>1. PICK m \in todo :
             /\ cmd' = [cmd EXCEPT !.at = None] /\ todo' = todo \ {m}
             /\ rows' = [rows EXCEPT ![p][m] = cmd.rows[m]]
        BY <1>1, <1>3 DEF Insert, Goto, End
    <2>2. /\ cmd'.op = cmd.op /\ cmd'.profile = p /\ cmd'.rows = cmd.rows /\ cmd' \in Command
        BY <1>1, <1>2, <2>1, SameCommand
    <2>3. cmd.rows \in ModRows /\ rows[p] \in ModRows
        BY <1>2 DEF TypeOK, Command
    <2>4. m \in Mods
        BY <1>2 DEF Saving
    <2>5. /\ rows' \in [Profiles -> ModRows]
          /\ rows'[p] = [rows[p] EXCEPT ![m] = cmd.rows[m]]
          /\ \A q \in Profiles \ {p} : rows'[q] = rows[q]
        BY <1>2, <2>1, <2>3, <2>4 DEF TypeOK, ModRows
    <2>6. TypeOK'
        BY <1>2, <1>3, <2>1, <2>2, <2>5 DEF TypeOK
    <2>7. Commands' /\ Visits' /\ Deploying' /\ Patching'
        <3>1. cmd'.op = cmd.op /\ cmd'.profile \in Profiles /\ pc' = "insert"
            BY <1>2, <1>3, <2>2
        <3>2. Commands'
            BY <1>2, <3>1 DEF Commands
        <3>3. Visits'
            BY <3>1 DEF Visits
        <3>4. Deploying'
            BY <3>1 DEF Deploying
        <3>5. Patching'
            BY <1>1, <1>2, <2>2, <3>1 DEF Patching
        <3> QED
            BY <3>2, <3>3, <3>4, <3>5
    <2>8. Saving'
        BY <1>1, <1>2, <1>3, <2>1, <2>2, <2>3, <2>5 DEF Saving, ModRows
    <2>9. Stands'
        <3>1. ASSUME standing.how = "deployed"
              PROVE  Saved(standing.profile)' = Saved(standing.profile)
            <4>1. standing.profile \in Profiles
                BY <1>2, <3>1 DEF Stands
            <4> QED
                BY <1>1, <1>2, <1>3, <2>2, <2>5, <4>1 DEF Saved
        <3> QED
            BY <1>2, <3>1, StandsOn
    <2> QED
        BY <2>6, <2>7, <2>8, <2>9
<1>4. CASE pc' # "insert"
    <2>1. pc' = "idle" /\ cmd' = Idle /\ todo = {} /\ todo' = {} /\ rows' = rows
        BY <1>4 DEF Insert, Goto, End
    <2>2. TypeOK'
        BY <1>2, <2>1, IdleCommand DEF TypeOK, Labels
    <2>3. Commands' /\ Visits' /\ Deploying' /\ Patching' /\ Saving'
        BY <1>2, <2>1 DEF Idle, Commands, Visits, Deploying, Patching, Saving
    <2>4. Stands'
        <3>1. rows[p] = cmd.rows
            <4>1. rows[p] \in ModRows /\ cmd.rows \in ModRows
                BY <1>2 DEF TypeOK, Command
            <4>2. \A m \in Mods : rows[p][m] = cmd.rows[m]
                BY <1>1, <1>2, <2>1 DEF Saving
            <4> QED
                BY <4>1, <4>2 DEF ModRows
        <3>2. Saved(standing.profile)' = Saved(standing.profile)
            BY <1>1, <1>2, <2>1, <3>1 DEF Saved
        <3> QED
            BY <1>2, <3>2, StandsOn
    <2> QED
        BY <2>2, <2>3, <2>4
<1> QED
    BY <1>3, <1>4

\* A copy of the staging tree is kept.
LEMMA KeepBackupKeeps == ASSUME IInv, NEW p \in Edited, KeepBackup(p) PROVE IInv'
<1> USE DEF IInv
<1>1. /\ pc = "idle" /\ bak' = [bak EXCEPT ![p] = staging[p]] /\ p \in Profiles
      /\ backups < MaxBackups /\ backups' = backups + 1
      /\ UNCHANGED <<layout, rows, staging, aside, entry, file, pc, cmd, todo,
                     standing, crashes>>
    BY DeploymentAssumption DEF KeepBackup
<1>2. TypeOK'
    <2>1. bak' \in [Profiles -> Tree \union {None}]
        BY <1>1 DEF TypeOK
    <2>2. backups' \in 0..MaxBackups
        BY <1>1, DeploymentAssumption DEF TypeOK
    <2> QED
        BY <1>1, <2>1, <2>2 DEF TypeOK
<1>3. Commands' /\ Visits' /\ Deploying' /\ Patching' /\ Saving'
    BY <1>1 DEF Commands, Visits, Deploying, Patching, Saving
<1>4. Saved(standing.profile)' = Saved(standing.profile)
    BY <1>1 DEF Saved
<1> QED
    BY <1>1, <1>2, <1>3, <1>4, StandsOn

\* A rollback begins: nothing stands until another deploy ends.
LEMMA RollbackKeeps == ASSUME IInv, NEW p \in Edited, Rollback(p) PROVE IInv'
<1> USE DEF IInv
<1>1. /\ pc = "idle" /\ pc' \in {"restore", "swap"} /\ todo' = {} /\ p \in Profiles
      /\ cmd' = [op |-> "rollback", profile |-> p, rows |-> rows[p], at |-> None, roots |-> {}]
      /\ standing' = Unknown
      /\ aside' \in {aside, [aside EXCEPT ![p] = staging[p]]}
      /\ staging' \in {staging, [staging EXCEPT ![p] = None]}
      /\ UNCHANGED <<layout, rows, bak, entry, file, backups, crashes>>
    BY DeploymentAssumption DEF Rollback, Start
<1>2. cmd' \in Command
    BY <1>1 DEF Command, TypeOK
<1>3. TypeOK'
    <2>1. aside' \in [Profiles -> Tree \union {None}]
        BY <1>1 DEF TypeOK
    <2>2. staging' \in [Profiles -> Tree \union {None}]
        BY <1>1 DEF TypeOK
    <2> QED
        BY <1>1, <1>2, <2>1, <2>2, IdleCommand DEF TypeOK, Labels
<1> QED
    BY <1>1, <1>3 DEF Unknown, Commands, Visits, Deploying, Patching, Stands, Saving

LEMMA RestoreBackupKeeps == ASSUME IInv, RestoreBackup PROVE IInv'
<1> USE DEF IInv
<1>1. PICK p : p = cmd.profile
    OBVIOUS
<1>2. /\ \/ pc = "restore" /\ pc' = "idle" /\ cmd' = Idle
         \/ pc = "swap" /\ pc' = "drop" /\ cmd' = [cmd EXCEPT !.at = None]
      /\ todo' = {}
      /\ staging' = [staging EXCEPT ![p] = bak[p]]
      /\ bak' = [bak EXCEPT ![p] = None]
      /\ standing' = [how |-> "restored", profile |-> p, tree |-> bak[p]]
      /\ UNCHANGED <<layout, rows, aside, entry, file, backups, crashes>>
    BY <1>1 DEF RestoreBackup, End, Goto
<1>3. p \in Profiles /\ cmd.op = "rollback"
    BY <1>1, <1>2 DEF Commands
<1>4. \/ pc' = "idle" /\ cmd'.op = "idle"
      \/ pc' = "drop" /\ cmd'.op = "rollback" /\ cmd'.profile = p
    <2>1. CASE pc = "restore"
        BY <1>2, <2>1 DEF Idle
    <2>2. CASE pc = "swap"
        BY <1>1, <1>2, <1>3, <2>2, SameCommand
    <2> QED
        BY <1>2, <2>1, <2>2
<1>5. TypeOK'
    <2>1. cmd' \in Command
        BY <1>2, IdleCommand, SameCommand
    <2>2. staging' \in [Profiles -> Tree \union {None}]
        BY <1>2 DEF TypeOK
    <2>3. bak' \in [Profiles -> Tree \union {None}]
        BY <1>2 DEF TypeOK
    <2>4. standing' \in Standing
        BY <1>2, <1>3 DEF TypeOK, Standing
    <2> QED
        BY <1>2, <2>1, <2>2, <2>3, <2>4 DEF TypeOK, Labels
<1> QED
    BY <1>2, <1>3, <1>4, <1>5 DEF Commands, Visits, Deploying, Patching, Stands, Saving

LEMMA DropAsideKeeps == ASSUME IInv, DropAside PROVE IInv'
<1> USE DEF IInv
<1>1. /\ pc = "drop" /\ pc' = "idle" /\ cmd' = Idle /\ todo' = {}
      /\ aside' = [aside EXCEPT ![cmd.profile] = None]
      /\ UNCHANGED <<layout, rows, staging, bak, entry, file, standing, backups, crashes>>
    BY DEF DropAside, End
<1>2. TypeOK'
    <2>1. aside' \in [Profiles -> Tree \union {None}]
        BY <1>1 DEF TypeOK
    <2> QED
        BY <1>1, <2>1, IdleCommand DEF TypeOK, Labels
<1>3. standing.how # "deployed"
    BY <1>1 DEF Commands
<1> QED
    BY <1>1, <1>2, <1>3 DEF Idle, Commands, Visits, Deploying, Patching, Stands, Saving

\* A command dies.
LEMMA CrashKeeps == ASSUME IInv, Crash PROVE IInv'
<1> USE DEF IInv
<1>1. /\ pc' = "idle" /\ cmd' = Idle /\ todo' = {} /\ standing' = Unknown
      /\ crashes < MaxCrashes /\ crashes' = crashes + 1
      /\ UNCHANGED <<layout, rows, staging, bak, aside, entry, file, backups>>
    BY DEF Crash, diskVars
<1>2. TypeOK'
    <2>1. crashes' \in 0..MaxCrashes
        BY <1>1, DeploymentAssumption DEF TypeOK
    <2> QED
        BY <1>1, <2>1, IdleCommand DEF TypeOK, Labels
<1> QED
    BY <1>1, <1>2 DEF Idle, Unknown, Commands, Visits, Deploying, Patching, Stands, Saving

LEMMA StutterKeeps == ASSUME IInv, UNCHANGED vars PROVE IInv'
<1> USE DEF IInv
<1>1. UNCHANGED <<layout, rows, staging, bak, aside, entry, file, pc, cmd, todo,
                  standing, backups, crashes>>
    BY DEF vars, diskVars
<1>2. New' = New /\ Old' = Old /\ Changed' = Changed
    BY <1>1 DEF New, Old, Changed
<1>3. TypeOK' /\ Commands' /\ Saving'
    BY <1>1 DEF TypeOK, Commands, Saving
<1>4. Visits'
    BY <1>1, <1>2 DEF Visits, Given, RootsOf
<1>5. /\ NoLinks' <=> NoLinks
      /\ \A p, path : Linked(p, path)' <=> Linked(p, path)
      /\ \A p : Saved(p)' = Saved(p)
    BY <1>1 DEF NoLinks, Linked, Saved
<1>6. Deploying'
    BY <1>1, <1>2, <1>5 DEF Deploying, Given, RootsOf, Linked
<1>7. Patching'
    BY <1>1, <1>2, <1>5 DEF Patching, Given, RootsOf, Linked
<1>8. Stands'
    <2>1. Saved(standing.profile)' = Saved(standing.profile)
        BY <1>1 DEF Saved
    <2> QED
        BY <1>1, <2>1, StandsOn DEF Stands
<1> QED
    BY <1>3, <1>4, <1>6, <1>7, <1>8

LEMMA NextKeeps == ASSUME IInv, [Next]_vars PROVE IInv'
<1>1. CASE UNCHANGED vars
    BY <1>1, StutterKeeps
<1>2. CASE Next
    BY <1>2, DeployKeeps, CreateKeeps, StageKeeps, ClearFileKeeps, LinkFileKeeps, ClearRootKeeps,
       LinkRootKeeps, DeployEndKeeps, HotDeployKeeps, UnpatchKeeps, PatchKeeps, PatchedKeeps,
       ToggleKeeps, ForgetKeeps, InsertKeeps, KeepBackupKeeps, RollbackKeeps, RestoreBackupKeeps,
       DropAsideKeeps, CrashKeeps DEF Next
<1> QED
    BY <1>1, <1>2

-----------------------------------------------------------------------------
(* Theorems.                                                               *)

\* The types of the trees, links, rows and of the running command.
THEOREM TypeCorrect == Spec => []TypeOK
<1>1. IInv => TypeOK
    BY DEF IInv
<1> QED
    BY <1>1, InitIInv, NextKeeps, PTL DEF Spec

\* What the game sees where the entry leads to a staging tree that has a
\* source at the path.
LEMMA SeenThroughTree ==
    ASSUME NEW path \in Paths, NEW p \in Profiles, Entry(path) = p,
           Staged(p, path) \in Sources
    PROVE  Seen(path) = Staged(p, path)
<1> DEFINE s == Staged(p, path)
           ends == ({Entry(path)} \union {Staged(q, path) : q \in Visited(path)}) \ Profiles
<1>1. s \notin Profiles
    BY NamesAssumption
<1>2. Visited(path) = {p}
    <2>1. p \in Visited(path)
        BY DEF Visited
    <2>2. /\ {Entry(path)} \intersect Profiles \subseteq {p}
          /\ \A q \in {p} : {Staged(q, path)} \intersect Profiles \subseteq {p}
        BY <1>1
    <2>3. \A q \in Visited(path) : q \in {p}
        BY <2>2, {p} \in SUBSET Profiles DEF Visited
    <2> QED
        BY <2>1, <2>3
<1>3. ends = {s}
    BY <1>1, <1>2
<1> QED
    BY <1>3 DEF Seen

\* The same where the entry is the staging tree itself.
LEMMA SeenThroughRoot ==
    ASSUME NEW path \in Paths, Entry(path) \in Sources
    PROVE  Seen(path) = Entry(path)
<1>1. Entry(path) \notin Profiles
    BY NamesAssumption
<1>2. Visited(path) = {}
    BY <1>1, {} \in SUBSET Profiles DEF Visited
<1> QED
    BY <1>1, <1>2 DEF Seen

\* Once p was deployed and then only hot-deployed, its staging tree is the
\* farm of the rows and the game sees the winner at every path, unless links
\* to staging trees are in the way of a plugin that links files.
THEOREM FarmIsSeen == Spec => []FarmUnlessLinked
<1>1. ASSUME IInv, layout = "files" => \A r \in Roots : entry[r] \notin Profiles,
             pc = "idle", standing.how = "deployed"
      PROVE  LET p    == standing.profile
                 farm == Farm(p, rows[p])
             IN /\ staging[p].at = farm
                /\ \A path \in Paths : farm[path] # None => Seen(path) = farm[path]
    <2>1. PICK p : p = standing.profile
        OBVIOUS
    <2>2. PICK farm : farm = Farm(p, rows[p])
        OBVIOUS
    <2>3. Saved(p) = rows[p]
        BY <1>1 DEF Saved
    <2>4. /\ p \in Profiles /\ staging[p] # None /\ staging[p].at = farm
          /\ \A path \in Given(farm) : Linked(p, path)
        BY <1>1, <2>1, <2>2, <2>3 DEF IInv, Stands, NoLinks
    <2>5. farm \in [Paths -> Sources \union {None}]
        BY <1>1, <2>2, <2>4, FarmType DEF IInv, TypeOK
    <2>6. ASSUME NEW path \in Paths, farm[path] # None
          PROVE  Seen(path) = farm[path]
        <3>1. farm[path] \in Sources /\ Linked(p, path)
            BY <2>4, <2>5, <2>6 DEF Given
        <3>2. Staged(p, path) = farm[path]
            BY <2>4 DEF Staged
        <3>3. CASE entry[RootOf[path]] = p
            <4>1. Entry(path) = farm[path]
                BY <2>4, <3>2, <3>3, NamesAssumption DEF Entry
            <4> QED
                BY <3>1, <4>1, SeenThroughRoot
        <3>4. CASE entry[RootOf[path]] = "folder" /\ file[path] = p
            <4>1. Entry(path) = p
                BY <3>4, NamesAssumption DEF Entry
            <4> QED
                BY <2>4, <3>1, <3>2, <4>1, SeenThroughTree
        <3> QED
            BY <3>1, <3>3, <3>4 DEF Linked
    <2> QED
        BY <2>1, <2>2, <2>4, <2>6
<1>2. IInv => FarmUnlessLinked
    BY <1>1 DEF FarmUnlessLinked, DeployedIsFarm
<1> QED
    BY <1>2, InitIInv, NextKeeps, PTL DEF Spec

\* A file that is not modde's is at a path where the folder's is.
LEMMA TheirsInFolder ==
    ASSUME TypeOK, NEW path \in Paths
    PROVE  Entry(path) = Theirs <=> entry[RootOf[path]] = "folder" /\ file[path] = Theirs
<1>1. RootOf[path] \in Roots
    BY DeploymentAssumption
<1>2. CASE entry[RootOf[path]] \in Profiles
    <2>1. Staged(entry[RootOf[path]], path) \in Sources \union Profiles \union {None}
        BY <1>2 DEF Staged, TypeOK, Tree
    <2> QED
        BY <1>2, <2>1, NamesAssumption DEF Entry
<1>3. CASE entry[RootOf[path]] = "folder"
    BY <1>3, NamesAssumption DEF Entry
<1>4. CASE entry[RootOf[path]] = None
    BY <1>4, NamesAssumption DEF Entry
<1> QED
    BY <1>1, <1>2, <1>3, <1>4 DEF TypeOK

\* A command only takes away a file modde did not make where the farm before
\* or after it has a file, or a folder, of the same name.
THEOREM OthersFilesStay == Spec => TheirsKept
<1> DEFINE Kept(path) ==
        LET p      == cmd.profile
            farmed == {q \in Paths : {Farm(p, rows[p])[q], Farm(p, cmd.rows)[q]} # {None}}
        IN IF layout = "files" /\ cmd.op = "deploy" THEN path \in farmed
           ELSE RootOf[path] \in RootsOf(farmed)
<1>1. ASSUME IInv, [Next]_vars, NEW path \in Paths,
             Entry(path) = Theirs, Entry(path)' # Theirs
      PROVE  Kept(path)
    <2>1. TypeOK /\ TypeOK'
        BY <1>1, NextKeeps DEF IInv
    <2>2. entry[RootOf[path]] = "folder" /\ file[path] = Theirs /\ RootOf[path] \in Roots
        BY <1>1, <2>1, TheirsInFolder, DeploymentAssumption
    <2>3. ~(entry'[RootOf[path]] = "folder" /\ file'[path] = Theirs)
        BY <1>1, NamesAssumption DEF Entry
    <2>4. ClearFile \/ LinkFile \/ ClearRoot \/ LinkRoot
        <3>1. ~UNCHANGED <<entry, file>>
            BY <2>2, <2>3
        <3>2. Next
            BY <1>1, <3>1 DEF vars, diskVars
        <3>3. ASSUME NEW p \in Profiles, Deploy(p) PROVE FALSE
            BY <3>1, <3>3 DEF Deploy
        <3>4. ASSUME NEW p \in Edited, KeepBackup(p) \/ Rollback(p) PROVE FALSE
            BY <3>1, <3>4 DEF KeepBackup, Rollback
        <3>5. ASSUME NEW p \in Edited, NEW m \in Mods, Toggle(p, m) PROVE FALSE
            BY <3>1, <3>5 DEF Toggle, diskVars
        <3>6. ASSUME NEW p \in Edited, NEW m \in Mods, NEW state \in {"on", "off"},
                     HotDeploy(p, m, state)
              PROVE  FALSE
            BY <3>1, <3>6 DEF HotDeploy, diskVars
        <3>7. ~Create /\ ~Stage /\ ~DeployEnd /\ ~Unpatch /\ ~Patch /\ ~Patched
            BY <3>1 DEF Create, Stage, DeployEnd, Unpatch, Patch, Patched, diskVars
        <3>8. ~Forget /\ ~Insert /\ ~RestoreBackup /\ ~DropAside /\ ~Crash
            BY <3>1 DEF Forget, Insert, RestoreBackup, DropAside, Crash, diskVars
        <3> QED
            BY <3>2, <3>3, <3>4, <3>5, <3>6, <3>7, <3>8 DEF Next
    <2>5. PICK farmed :
             farmed = {q \in Paths : {Farm(cmd.profile, rows[cmd.profile])[q],
                                      Farm(cmd.profile, cmd.rows)[q]} # {None}}
        OBVIOUS
    <2>6. Given(New) \subseteq farmed /\ Changed \subseteq farmed
        BY <2>5 DEF Given, Changed, New, Old
    <2>7. ASSUME pc \in {"clearfile", "linkfile"}, path \in todo
          PROVE  Kept(path)
        BY <1>1, <2>5, <2>6, <2>7 DEF IInv, Commands, Visits
    <2>8. ASSUME pc \in {"clearroot", "linkroot"}, RootOf[path] \in todo
          PROVE  Kept(path)
        BY <1>1, <2>5, <2>6, <2>8 DEF IInv, Commands, Visits, RootsOf
    <2>9. CASE ClearFile
        <3>1. pc = "clearfile" /\ path \in todo
            BY <1>1, <2>1, <2>2, <2>3, <2>9, NamesAssumption DEF ClearFile, TypeOK
        <3> QED
            BY <2>7, <3>1
    <2>10. CASE LinkFile
        <3>1. pc = "linkfile" /\ path = cmd.at
            BY <1>1, <2>1, <2>2, <2>3, <2>10 DEF LinkFile, Goto, TypeOK
        <3> QED
            BY <1>1, <2>7, <3>1 DEF IInv, Visits
    <2>11. CASE ClearRoot
        <3>1. pc = "clearroot" /\ RootOf[path] \in todo
            BY <1>1, <2>1, <2>2, <2>3, <2>11 DEF ClearRoot, Goto, TypeOK
        <3> QED
            BY <2>8, <3>1
    <2>12. CASE LinkRoot
        <3>1. pc = "linkroot" /\ RootOf[path] = cmd.at
            BY <1>1, <2>1, <2>2, <2>3, <2>12 DEF LinkRoot, Goto, TypeOK
        <3> QED
            BY <1>1, <2>8, <3>1 DEF IInv, Visits
    <2> QED
        BY <2>4, <2>9, <2>10, <2>11, <2>12
<1>2. IInv /\ [Next]_vars =>
        [\A path \in Paths : Entry(path) = Theirs /\ Entry(path)' # Theirs =>
            LET p      == cmd.profile
                farmed == {q \in Paths : {Farm(p, rows[p])[q], Farm(p, cmd.rows)[q]} # {None}}
            IN IF layout = "files" /\ cmd.op = "deploy" THEN path \in farmed
               ELSE RootOf[path] \in RootsOf(farmed)]_vars
    BY <1>1
<1> QED
    BY <1>2, InitIInv, NextKeeps, PTL DEF Spec, TheirsKept
=============================================================================
