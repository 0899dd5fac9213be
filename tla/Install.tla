------------------------------- MODULE Install -------------------------------
(***************************************************************************)
(* The Wabbajack installer (crates/modde-sources/src/wabbajack): one       *)
(* command at a time downloads the archives of a list, extracts and        *)
(* patches their files into a staging directory, builds archives for the   *)
(* game from some of them, compresses the rest, validates and deploys.     *)
(* Every step may fail and the process may die between any two steps; what *)
(* the next command may skip is decided by files the earlier ones left.    *)
(***************************************************************************)
EXTENDS Naturals, FiniteSets

CONSTANTS
    Archives,
    Kind,           \* Kind[a]: "direct", "nexus", "manual" or "game" (a file of the game)
    Small,          \* archives the "auto" retention prunes
    Files,          \* outputs taken from archives
    From,           \* From[f]: the archive of file f
    Patched,        \* the files that are a patch of an archive's file
    Inline,         \* outputs the list carries itself
    Bsas,           \* outputs built from other outputs
    Inputs,         \* Inputs[b]: the files BSA b is built from, those under bsa_temp_<id>
    Feeds,          \* Feeds[b]: the files that decide if it is skipped, under TEMP_BSA_FILES/<id>
    Mod,            \* Mod[o]: the mod of output o, None if it is for building alone
    Large,          \* outputs worth compressing
    None,
    Commands,       \* the options a command may be given
    MaxRuns,        \* bound: commands
    MaxCrashes      \* bound: deaths of the process

Outputs == Files \cup Inline \cup Bsas

Options == [policy : {"fail", "omitFiles", "omitMods"}, goOn : BOOLEAN, validate : BOOLEAN,
            keep : {"keep", "prune", "auto"}, reset : BOOLEAN, force : BOOLEAN,
            deploy : BOOLEAN]

ASSUME InstallAssumption ==
    /\ Kind \in [Archives -> {"direct", "nexus", "manual", "game"}]
    /\ Small \subseteq Archives
    /\ From \in [Files -> Archives] /\ Patched \subseteq Files
    /\ Inputs \in [Bsas -> SUBSET Files] /\ Feeds \in [Bsas -> SUBSET Files]
    /\ Files \cap Inline = {} /\ Files \cap Bsas = {} /\ Inline \cap Bsas = {}
    /\ Large \subseteq Outputs
    /\ \A b, c \in Bsas : Inputs[b] \cap Feeds[c] = {}
    /\ \A b \in Bsas : \A f \in Inputs[b] \cup Feeds[b] : Mod[f] = None
    /\ \A b \in Bsas : Inputs[b] \cap Large = {}
    /\ None \notin [files : SUBSET Files, adopted : BOOLEAN]
    /\ Commands \subseteq Options /\ None \notin Options
    /\ MaxRuns \in Nat /\ MaxCrashes \in Nat

VARIABLES
    store,          \* store[a]: what the store holds under a's hash
    vouched,        \* archives whose verification is on record
    plain, packed,  \* plain[o], packed[o]: the two forms output o may have in staging
    sentinel,       \* sentinel[a]: the record that a batch is done
    built,          \* built[b]: the record that a BSA is
    game,           \* game[o]: output o in the game's directory, "linked" to the plain form
    cmd, pc,
    omitted,        \* outputs this command leaves out for want of an archive
    batch,          \* batch[a]: where the worker of archive a is
    todo, writing,  \* outputs the present pass has yet to do, and those half done
    failed,         \* outputs this command could not make
    fresh,          \* history: the passes of this command have run
    saved,          \* a command has come to its end and saved the profile
    runs, crashes

disk == <<store, vouched, plain, packed, sentinel, built, game>>
command == <<cmd, pc, omitted, batch, todo, writing, failed>>
bounds == <<runs, crashes>>
vars == <<disk, command, fresh, saved, bounds>>

Contents == {"absent", "torn", "whole", "hollow"}

FilesOf(a) == {f \in Files : From[f] = a}

\* logical_exists; a reader prefers the plain form.
Exists(o) == plain[o] # "absent" \/ packed[o] # "absent"
Content(o) == IF plain[o] # "absent" THEN plain[o] ELSE packed[o]

\* What the game reads. Extraction truncates a file in place, and the game's link sees it; a
\* removed or replaced file lives on under the game's name.
Played(o) == IF game[o] = "linked" THEN plain[o] ELSE game[o]
Unlinked(S) == [o \in Outputs |-> IF o \in S THEN Played(o) ELSE game[o]]

-----------------------------------------------------------------------------
(* What may be left out or skipped *)

\* MissingArchiveImpact: archives that somebody must fetch, decided by the store alone.
Missing == {a \in Archives : Kind[a] \in {"nexus", "manual"} /\ store[a] = "absent"}

\* skip_plan
SkipPlan(policy) ==
    LET files == {f \in Files : From[f] \in Missing}
        bsas == {b \in Bsas : Feeds[b] \cap files # {}}
        mods == {Mod[o] : o \in files \cup bsas} \ {None}
    IN  CASE policy = "fail" -> {}
          [] policy = "omitFiles" -> files \cup bsas
          [] policy = "omitMods" -> files \cup bsas \cup {o \in Outputs : Mod[o] \in mods}

Retained(a) == FilesOf(a) \ omitted

\* archive_batch_sentinel_valid: of the same directives, whose outputs are all there.
SentinelValid(a, files) ==
    /\ sentinel[a] # None
    /\ sentinel[a].files = files
    /\ \A f \in files : Exists(f)

BsaValid(b) == built[b] # "none" /\ Exists(b)

\* preflight_staging: everything but the BSAs is there.
AllStaged == Files \cup Inline # {} /\ \A o \in Files \cup Inline : Exists(o)

-----------------------------------------------------------------------------
(* A command *)

\* The process ends, by itself or not, and leaves the disk as it is.
Stopped ==
    /\ pc' = "idle" /\ fresh' = FALSE
    /\ todo' = {} /\ writing' = {} /\ failed' = {} /\ omitted' = {}
    /\ batch' = [a \in Archives |-> "done"]
    /\ cmd' = None

Stop == Stopped /\ UNCHANGED <<disk, saved, bounds>>

\* install_wabbajack: resets if asked to, and skips the pipeline if nothing seems missing.
Begin(c) ==
    /\ pc = "idle" /\ runs < MaxRuns
    /\ runs' = runs + 1
    /\ cmd' = c /\ UNCHANGED fresh
    /\ \/ /\ c.reset
          /\ plain' = [o \in Outputs |-> "absent"] /\ packed' = plain'
          /\ sentinel' = [a \in Archives |-> None]
          /\ built' = [b \in Bsas |-> "none"]
          /\ game' = Unlinked(Outputs)
          /\ pc' = "plan"
       \/ /\ ~c.reset
          /\ pc' = IF ~c.force /\ AllStaged THEN "validate" ELSE "plan"
          /\ UNCHANGED <<plain, packed, sentinel, built, game>>
    /\ UNCHANGED <<store, vouched, omitted, batch, todo, writing, failed, saved, crashes>>

\* The steps before the passes: validate_download_sources and the game's files may stop it.
\* adopt_existing_staging takes outputs that exist for outputs that were made.
Plan ==
    /\ pc = "plan"
    /\ \/ Stop
       \/ /\ omitted' = SkipPlan(cmd.policy)
          /\ sentinel' = [a \in Archives |->
                LET files == FilesOf(a) \ omitted' IN
                IF files # {} /\ ~SentinelValid(a, files) /\ \A f \in files : Exists(f)
                THEN [files |-> files, adopted |-> TRUE] ELSE sentinel[a]]
          /\ built' = [b \in Bsas |-> IF ~BsaValid(b) /\ Exists(b) THEN "adopted" ELSE built[b]]
          /\ todo' = Inline \ omitted'
          /\ pc' = "inline"
          /\ UNCHANGED <<store, vouched, plain, packed, game, cmd, batch, writing, failed,
                         fresh, saved, bounds>>

\* File::create, and what is copied after it. An inline file worth compressing is written so.
Packs(o) == o \in Inline \cap Large

Put(o, content) ==
    IF Packs(o)
    THEN packed' = [packed EXCEPT ![o] = content] /\ UNCHANGED plain
    ELSE plain' = [plain EXCEPT ![o] = content] /\ UNCHANGED packed

Open(o) ==
    /\ o \in todo \ writing
    /\ writing' = writing \cup {o}
    /\ Put(o, "torn")
    /\ UNCHANGED <<store, vouched, sentinel, built, game, cmd, pc, omitted, batch, todo, failed,
                   fresh, saved, bounds>>

Close(o, content) ==
    /\ o \in writing
    /\ writing' = writing \ {o}
    /\ todo' = todo \ {o}
    /\ Put(o, content)
    /\ UNCHANGED <<store, vouched, sentinel, built, game, cmd, pc, omitted, batch, failed,
                   fresh, saved, bounds>>

\* Mutants: a failure is not told; a half-written output stays open.
FailSilently(S) ==
    /\ todo' = todo \ S
    /\ writing' = writing \ S
    /\ UNCHANGED <<disk, cmd, pc, omitted, batch, failed, fresh, saved, bounds>>

FailOpen(S) ==
    /\ failed' = failed \cup S
    /\ todo' = todo \ S
    /\ UNCHANGED <<disk, cmd, pc, omitted, batch, writing, fresh, saved, bounds>>

\* The outputs of S could not be made; what was written of them stays.
Fail(S) ==
    /\ failed' = failed \cup S
    /\ todo' = todo \ S
    /\ writing' = writing \ S
    /\ UNCHANGED <<disk, cmd, pc, omitted, batch, fresh, saved, bounds>>

\* apply_inline_file, several at once
InlinePass ==
    /\ pc = "inline"
    /\ \/ \E o \in todo : Open(o) \/ Close(o, "whole") \/ Fail({o})
       \/ /\ todo = {}
          /\ pc' = "batches"
          /\ todo' = Files \ omitted
          /\ batch' = [a \in Archives |-> IF Retained(a) = {} THEN "done" ELSE "waiting"]
          /\ UNCHANGED <<disk, cmd, omitted, writing, failed, fresh, saved, bounds>>

-----------------------------------------------------------------------------
(* The batches, one for each archive, at the same time *)

\* The worker of archive a goes on; its outputs S fail.
Advance(a, state) == batch' = [batch EXCEPT ![a] = state]

GiveUp(a) ==
    /\ failed' = failed \cup Retained(a)
    /\ todo' = todo \ Retained(a)
    /\ Advance(a, "done")
    /\ UNCHANGED <<writing>>

\* Mutant: what is there is trusted.
TrustPresent(a) ==
    /\ batch[a] = "waiting"
    /\ \/ store[a] # "absent" /\ Advance(a, "extracting") /\ UNCHANGED store
       \/ /\ Kind[a] # "manual" /\ store[a] = "absent"
          /\ store' = [store EXCEPT ![a] = "partial"]
          /\ Advance(a, "downloading")
    /\ UNCHANGED <<vouched, plain, packed, sentinel, built, game, cmd, pc, omitted, todo, writing,
                   failed, fresh, saved, bounds>>

\* ensure_archive_trusted, as far as it looks at the store: what is there is verified, and is
\* never fetched again.
Trust(a) ==
    /\ batch[a] = "waiting"
    /\ \/ /\ SentinelValid(a, Retained(a))
          /\ todo' = todo \ Retained(a)
          /\ Advance(a, "done")
          /\ UNCHANGED <<store, vouched, writing, failed>>
       \/ GiveUp(a) /\ UNCHANGED <<store, vouched>>
       \/ /\ ~SentinelValid(a, Retained(a))
          /\ \/ Kind[a] = "game" /\ Advance(a, "extracting") /\ UNCHANGED <<store, vouched>>
             \/ /\ a \in vouched \/ store[a] = "whole"
                /\ vouched' = vouched \cup {a}
                /\ Advance(a, "extracting")
                /\ UNCHANGED store
             \/ /\ Kind[a] \notin {"game", "manual"} /\ store[a] = "absent"
                /\ store' = [store EXCEPT ![a] = "partial"]
                /\ Advance(a, "downloading")
                /\ UNCHANGED vouched
          /\ UNCHANGED <<todo, writing, failed>>
    /\ UNCHANGED <<plain, packed, sentinel, built, game, cmd, pc, omitted, fresh, saved, bounds>>

\* The download is hashed as it is written. A direct one that failed leaves nothing behind;
\* others leave what they have, unless it is complete and its hash is wrong. The verification
\* may also fail to be recorded.
Download(a) ==
    /\ batch[a] = "downloading"
    /\ \/ /\ store' = [store EXCEPT ![a] = "whole"]
          /\ vouched' = vouched \cup {a}
          /\ Advance(a, "extracting")
          /\ UNCHANGED <<todo, writing, failed>>
       \/ /\ \/ store' \in {[store EXCEPT ![a] = c] : c \in {"absent", "whole"}}
             \/ Kind[a] # "direct" /\ UNCHANGED store
          /\ GiveUp(a)
          /\ UNCHANGED vouched
    /\ UNCHANGED <<plain, packed, sentinel, built, game, cmd, pc, omitted, fresh, saved, bounds>>

\* extract_selected writes one file after the other, and fails as a whole; a file may be refused
\* before. The game's files are copied one by one.
Extract(a) ==
    LET mine == Retained(a) \ Patched IN
    /\ batch[a] = "extracting"
    /\ \/ \E f \in mine : writing \cap mine = {} /\ Open(f)
       \/ \E f \in mine : Close(f, "whole")
       \/ Kind[a] # "game" /\ todo \cap mine # {} /\ Fail(mine)
       \/ \E f \in todo \cap mine : (Kind[a] = "game" \/ f \notin writing) /\ Fail({f})

\* write_patched_output: the stale form goes first, and the file is renamed into place.
Patch(a) ==
    /\ batch[a] = "extracting"
    /\ Kind[a] = "game" \/ todo \cap (Retained(a) \ Patched) = {}
    /\ \E f \in todo \cap Retained(a) \cap Patched :
        /\ todo' = todo \ {f}
        /\ \/ /\ packed' = [packed EXCEPT ![f] = "absent"]
              /\ plain' = [plain EXCEPT ![f] = "whole"]
              /\ game' = Unlinked({f})
              /\ UNCHANGED failed
           \/ /\ packed' \in {packed, [packed EXCEPT ![f] = "absent"]}
              /\ failed' = failed \cup {f}
              /\ UNCHANGED <<plain, game>>
    /\ UNCHANGED <<store, vouched, sentinel, built, cmd, pc, omitted, batch, writing,
                   fresh, saved, bounds>>

\* Mutants: the record is written whatever failed; before the files are.
SealAlways(a) ==
    /\ batch[a] = "extracting"
    /\ todo \cap Retained(a) = {}
    /\ sentinel' = [sentinel EXCEPT ![a] = [files |-> Retained(a), adopted |-> FALSE]]
    /\ Advance(a, "pruning")
    /\ UNCHANGED <<store, vouched, plain, packed, built, game, cmd, pc, omitted, todo, writing,
                   failed, fresh, saved, bounds>>

SealEarly(a) ==
    /\ batch[a] = "extracting"
    /\ failed \cap Retained(a) = {}
    /\ sentinel' = [sentinel EXCEPT ![a] = [files |-> Retained(a), adopted |-> FALSE]]
    /\ Advance(a, "pruning")
    /\ UNCHANGED <<store, vouched, plain, packed, built, game, cmd, pc, omitted, todo, writing,
                   failed, fresh, saved, bounds>>

\* The record is written if every output succeeded.
Seal(a) ==
    /\ batch[a] = "extracting"
    /\ todo \cap Retained(a) = {}
    /\ \/ /\ failed \cap Retained(a) = {}
          /\ sentinel' = [sentinel EXCEPT ![a] = [files |-> Retained(a), adopted |-> FALSE]]
          /\ Advance(a, "pruning")
          /\ UNCHANGED failed
       \/ /\ failed' = failed \cup Retained(a)
          /\ Advance(a, "done")
          /\ UNCHANGED sentinel
    /\ UNCHANGED <<store, vouched, plain, packed, built, game, cmd, pc, omitted, todo, writing,
                   fresh, saved, bounds>>

\* maybe_prune_archive, whose failure is only logged
Prune(a) ==
    /\ batch[a] = "pruning"
    /\ \/ UNCHANGED <<store, vouched>>
       \/ /\ Kind[a] # "game"
          /\ cmd.keep = "prune" \/ (cmd.keep = "auto" /\ a \in Small)
          /\ store' = [store EXCEPT ![a] = "absent"]
          /\ vouched' = vouched \ {a}
    /\ Advance(a, "done")
    /\ UNCHANGED <<plain, packed, sentinel, built, game, cmd, pc, omitted, todo, writing, failed,
                   fresh, saved, bounds>>

\* What failed stops the command, once all workers are done, unless it is told to go on.
BatchPass ==
    /\ pc = "batches"
    /\ \/ \E a \in Archives : Trust(a) \/ Download(a) \/ Extract(a) \/ Patch(a) \/ Seal(a) \/ Prune(a)
       \/ /\ \A a \in Archives : batch[a] = "done"
          /\ IF failed # {} /\ ~cmd.goOn
             THEN Stop
             ELSE /\ pc' = "bsa"
                  /\ todo' = Bsas \ omitted
                  /\ UNCHANGED <<disk, cmd, omitted, batch, writing, failed, fresh, saved, bounds>>

-----------------------------------------------------------------------------
(* The passes after the batches, one output at a time *)

\* create_bsa: an input that is not there is taken to be empty.
BsaContent(b) == IF \A f \in Inputs[b] : plain[f] = "whole" THEN "whole" ELSE "hollow"

CloseBsa(b) ==
    /\ b \in writing
    /\ writing' = writing \ {b}
    /\ todo' = todo \ {b}
    /\ plain' = [plain EXCEPT ![b] = BsaContent(b)]
    /\ built' = [built EXCEPT ![b] = "earned"]
    /\ UNCHANGED <<store, vouched, packed, sentinel, game, cmd, pc, omitted, batch, failed,
                   fresh, saved, bounds>>

BsaPass ==
    /\ pc = "bsa"
    /\ \/ \E b \in todo :
            \/ /\ BsaValid(b) /\ writing = {}
               /\ todo' = todo \ {b}
               /\ UNCHANGED <<disk, cmd, pc, omitted, batch, writing, failed, fresh, saved, bounds>>
            \/ ~BsaValid(b) /\ writing = {} /\ Open(b)
            \/ CloseBsa(b)
            \/ /\ writing = {b} \/ (~BsaValid(b) /\ writing = {})
               /\ IF cmd.goOn THEN Fail({b}) ELSE Stop
       \/ /\ todo = {}
          /\ pc' = "compress"
          /\ todo' = {o \in Large : plain[o] # "absent"}
          /\ UNCHANGED <<disk, cmd, omitted, batch, writing, failed, fresh, saved, bounds>>

\* Mutant: the plain form is removed when the other is begun.
CompressInPlace(o) ==
    /\ o \in todo
    /\ \/ /\ writing = {}
          /\ writing' = {o}
          /\ packed' = [packed EXCEPT ![o] = "torn"]
          /\ plain' = [plain EXCEPT ![o] = "absent"]
          /\ UNCHANGED todo
       \/ /\ o \in writing
          /\ packed' = [packed EXCEPT ![o] = "whole"]
          /\ todo' = todo \ {o} /\ writing' = {}
          /\ UNCHANGED plain
    /\ UNCHANGED <<store, vouched, sentinel, built, game, cmd, pc, omitted, batch, failed,
                   fresh, saved, bounds>>

\* compress_eligible_files: the plain form is removed when the other is complete.
Compress(o) ==
    /\ o \in todo
    /\ \/ /\ writing = {}
          /\ writing' = {o}
          /\ packed' = [packed EXCEPT ![o] = "torn"]
          /\ UNCHANGED <<plain, game, todo>>
       \/ /\ o \in writing
          /\ packed' = [packed EXCEPT ![o] = plain[o]]
          /\ UNCHANGED <<plain, game, todo, writing>>
       \/ /\ o \in writing /\ packed[o] = plain[o]
          /\ plain' = [plain EXCEPT ![o] = "absent"]
          /\ game' = Unlinked({o})
          /\ todo' = todo \ {o}
          /\ writing' = {}
          /\ UNCHANGED packed
    /\ UNCHANGED <<store, vouched, sentinel, built, cmd, pc, omitted, batch, failed,
                   fresh, saved, bounds>>

CompressPass ==
    /\ pc = "compress"
    /\ \/ \E o \in todo : Compress(o)
       \/ Stop
       \/ /\ todo = {}
          /\ pc' = "validate"
          /\ fresh' = TRUE
          /\ UNCHANGED <<disk, cmd, omitted, batch, todo, writing, failed, saved, bounds>>

\* validate_install, less what the plan leaves out: made anew from what the store holds now.
Wrong == {o \in Files \cup Inline :
            ~Exists(o) \/ (o \in Patched \cup Inline /\ Content(o) # "whole")}

\* The files under mods/, in either form. Mutant: in the plain one.
StagedPlain == {o \in Outputs : Mod[o] # None /\ plain[o] # "absent"}

Staged == {o \in Outputs : Mod[o] # None /\ Exists(o)}

Validate ==
    /\ pc = "validate"
    /\ \/ cmd.validate /\ Stop
       \/ /\ cmd.validate => Wrong \subseteq SkipPlan(cmd.policy)
          /\ pc' = IF cmd.deploy THEN "deploy" ELSE "save"
          /\ todo' = IF cmd.deploy THEN Staged ELSE {}
          /\ UNCHANGED <<disk, cmd, omitted, batch, writing, failed, fresh, saved, bounds>>

\* deploy_mo2_to_game, file by file: a link where that can be, else a copy.
DeployPass ==
    /\ pc = "deploy"
    /\ \/ \E o \in todo :
            /\ game' \in {[game EXCEPT ![o] = c] :
                            c \in {Content(o)} \cup IF plain[o] # "absent" THEN {"linked"} ELSE {}}
            /\ todo' = todo \ {o}
            /\ UNCHANGED <<cmd, pc, omitted, batch, writing, failed, fresh>>
       \/ \E o \in todo, c \in {"torn", "absent"} : game' = [game EXCEPT ![o] = c] /\ Stopped
       \/ Stopped /\ UNCHANGED game
       \/ /\ todo = {}
          /\ pc' = "save"
          /\ UNCHANGED <<game, cmd, omitted, batch, todo, writing, failed, fresh>>
    /\ UNCHANGED <<store, vouched, plain, packed, sentinel, built, saved, bounds>>

\* save_profile_and_settings
Save ==
    /\ pc = "save"
    /\ saved' \in {TRUE, saved}
    /\ Stopped
    /\ UNCHANGED <<disk, bounds>>

-----------------------------------------------------------------------------
\* import_archives, of a file the user has: copied unless what is there is right.
Import(a) ==
    /\ pc = "idle"
    /\ Kind[a] # "game" /\ store[a] # "whole"
    /\ \E content \in {"partial", "whole"} :
        /\ content = "partial" => crashes < MaxCrashes
        /\ crashes' = IF content = "partial" THEN crashes + 1 ELSE crashes
        /\ store' = [store EXCEPT ![a] = content]
    /\ vouched' = vouched \ {a}
    /\ UNCHANGED <<plain, packed, sentinel, built, game, command, fresh, saved, runs>>

Crash ==
    /\ pc # "idle" /\ crashes < MaxCrashes
    /\ crashes' = crashes + 1
    /\ Stopped
    /\ UNCHANGED <<disk, saved, runs>>

Init ==
    /\ store = [a \in Archives |-> "absent"] /\ vouched = {}
    /\ plain = [o \in Outputs |-> "absent"] /\ packed = plain
    /\ sentinel = [a \in Archives |-> None]
    /\ built = [b \in Bsas |-> "none"]
    /\ game = [o \in Outputs |-> "absent"]
    /\ pc = "idle" /\ cmd = None
    /\ omitted = {} /\ todo = {} /\ writing = {} /\ failed = {}
    /\ batch = [a \in Archives |-> "done"]
    /\ fresh = FALSE /\ saved = FALSE
    /\ runs = 0 /\ crashes = 0

Step == Plan \/ InlinePass \/ BatchPass \/ BsaPass \/ CompressPass \/ Validate \/ DeployPass \/ Save

Next == Step \/ Crash \/ (\E c \in Commands : Begin(c)) \/ (\E a \in Archives : Import(a))

Spec == Init /\ [][Next]_vars

-----------------------------------------------------------------------------
(* Properties *)

\* The types of what is on disk, of the command and of its workers.
TypeOK ==
    /\ store \in [Archives -> {"absent", "partial", "whole"}] /\ vouched \subseteq Archives
    /\ plain \in [Outputs -> Contents] /\ packed \in [Outputs -> Contents]
    /\ sentinel \in [Archives -> [files : SUBSET Files, adopted : BOOLEAN] \cup {None}]
    /\ built \in [Bsas -> {"none", "earned", "adopted"}]
    /\ game \in [Outputs -> Contents \cup {"linked"}]
    /\ cmd \in Commands \cup {None}
    /\ pc \in {"idle", "plan", "inline", "batches", "bsa", "compress", "validate", "deploy", "save"}
    /\ omitted \subseteq Outputs /\ todo \subseteq Outputs /\ writing \subseteq todo
    /\ failed \subseteq Outputs
    /\ batch \in [Archives -> {"waiting", "downloading", "extracting", "pruning", "done"}]
    /\ fresh \in BOOLEAN /\ saved \in BOOLEAN
    /\ runs \in 0..MaxRuns /\ crashes \in 0..MaxCrashes

\* Files are only taken from an archive whose bytes have been compared with its hash, however
\* its download or its import ended and whatever an earlier command recorded (trust.rs:12-33).
ExtractsWhole ==
    \A a \in Archives : batch[a] = "extracting" /\ Kind[a] # "game" => store[a] = "whole"

\* The record of a batch that did all the archive's files is worth what it says: through later
\* commands, deaths, pruning and compression the files it names stay whole (architecture.md:469).
EarnedIsWhole ==
    \A a \in Archives :
        sentinel[a] # None /\ ~sentinel[a].adopted /\ sentinel[a].files = FilesOf(a)
        => \A f \in FilesOf(a) : Content(f) = "whole"

\* A command that fails on errors and found no record but those of complete batches stages
\* every output it does not leave out, whether or not it validates (install.rs:323-335).
CleanRunIsWhole ==
    /\ pc \in {"deploy", "save"} /\ fresh /\ ~cmd.goOn
    /\ \A a \in Archives :
            sentinel[a] # None => ~sentinel[a].adopted /\ sentinel[a].files = FilesOf(a)
    => \A o \in (Files \cup Inline) \ omitted : Content(o) = "whole"

\* An archive is deleted only when everything this command wants of it is in staging, so that
\* a command that dies next needs it no more (wabbajack.md:214).
PruneKeepsOutputs ==
    [][\A a \in Archives : store[a] = "whole" /\ store'[a] = "absent"
        => \A f \in Retained(a) : Content(f) = "whole"]_vars

\* Compression never changes what an output is to a reader, not even if it dies halfway
\* (staging.rs:230-234).
CompressKeepsContent ==
    [][pc = "compress" => \A o \in Outputs : Content(o)' = Content(o)]_vars

\* After deployment the game reads what is staged, compressed or not: no older copy is left in
\* a mod's place (runner.rs:376-450).
DeployedIsStaged ==
    pc = "save" /\ cmd.deploy =>
        \A o \in Outputs : Mod[o] # None /\ Exists(o) => Played(o) = Content(o)

\* What architecture.md:473 says: a failed or interrupted batch leaves no sentinel and runs
\* again whole; so a batch that is skipped has whole outputs.
SkippedIsWhole ==
    \A a \in Archives :
        pc = "batches" /\ batch[a] = "waiting" /\ SentinelValid(a, Retained(a))
        => \A f \in Retained(a) : Content(f) = "whole"
=============================================================================
