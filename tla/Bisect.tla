-------------------------------- MODULE Bisect --------------------------------
(***************************************************************************)
(* `modde bisect`: the search for the mods that spoil a profile            *)
(* (crates/modde-core/src/bisect.rs, db/bisect.rs and                      *)
(* crates/modde-cli/src/commands/bisect).                                  *)
(*                                                                         *)
(* A session is a row of the database.  `run` makes a candidate, a copy of *)
(* the source profile with half of the suspects disabled, and shows it to  *)
(* the player; `mark`, or `run` itself, records what came of it and halves *)
(* the suspects.  Commands may run in several terminals, one statement     *)
(* after the other, and may die between any two; a game may be up for      *)
(* hours between two statements of the `run` that started it.              *)
(*                                                                         *)
(* Mods are their positions in the source profile, steps their step_index, *)
(* and a candidate profile has the number of its step.                     *)
(***************************************************************************)
EXTENDS Integers, Sequences, FiniteSets

CONSTANTS
    N,          \* how many mods the source profile enables
    Depends,    \* Depends[m]: what m loads after or has as a master
    Causes,     \* what may be wrong: mods that spoil the game together
    Oracles,    \* among "manual", "crash", "perf"
    SaveMods,   \* mods that change what a save holds
    ForceSaveRisk, \* --force-save-risk
    Keep,       \* --keep-profiles
    SaveDir,    \* the game has a save directory
    Shared,     \* a deployment replaces one folder that holds every mod
    Terminals,  \* where commands are typed
    Launchers,  \* those where `start`, `run` and `retry` are
    Source,     \* the profile the session was started for
    None,       \* no profile
    MaxSteps,   \* bound: steps of the session
    MaxDeaths   \* bound: commands that die or fail half-way

Mods  == 1..N
Steps == 1..MaxSteps

ASSUME BisectAssumption ==
    /\ N \in Nat /\ N >= 2
    /\ Depends \in [Mods -> SUBSET Mods]
    /\ Causes \subseteq SUBSET Mods /\ {} \notin Causes
    /\ Oracles \subseteq {"manual", "crash", "perf"}
    /\ SaveMods \subseteq Mods
    /\ {ForceSaveRisk, Keep, SaveDir, Shared} \subseteq BOOLEAN
    /\ Launchers \subseteq Terminals
    /\ MaxSteps \in Nat /\ MaxDeaths \in Nat
    /\ Source # None /\ Source \notin Steps /\ None \notin Steps

VARIABLES
    session,    \* the row of bisect_sessions
    oracle,     \* its oracle
    steps,      \* the rows of bisect_steps
    candidates, \* the candidate profiles there are
    off,        \* off[k]: what candidate k disables
    active,     \* the active profile of the game
    littered,   \* the save directory is not empty
    deployed,   \* the candidate deployed last, or 0
    visible,    \* the mods the game finds in its folder
    pc,         \* pc[t]: the next statement of the command in t
    cmd,        \* cmd[t]: its locals
    cause,      \* what is wrong, which nobody knows
    deaths      \* how many commands died

rowVars     == <<session, oracle, steps>>
profileVars == <<candidates, off>>
gameVars    == <<active, littered, deployed, visible>>
vars == <<rowVars, profileVars, gameVars, pc, cmd, cause, deaths>>

Statuses == {"none", "active", "waiting", "complete", "inconclusive", "aborted"}
Verdicts == {"good", "bad"}
Labels   == {"idle", "create", "record", "wait", "activate", "deploy", "play",
             "load", "complete", "advance", "cleanup", "abclean", "abort", "restore"}
Session  == [status: Statuses, suspects: SUBSET Mods, good: SUBSET Mods,
             bad: SUBSET Mods, step: 0..MaxSteps]
Step     == [enabled: SUBSET Mods, disabled: SUBSET Mods,
             result: Verdicts \union {"pending"}]
\* The step a command is about, the session as it read it, what its candidate
\* leaves enabled, whether it judges by itself and how, what is to be deleted.
Command  == [at: 0..MaxSteps, read: Session, plan: SUBSET Mods, auto: BOOLEAN,
             verdict: Verdicts, todo: SUBSET Steps]
NoSession == [status |-> "none", suspects |-> {}, good |-> {}, bad |-> {}, step |-> 0]
NoCommand == [at |-> 0, read |-> NoSession, plan |-> {}, auto |-> FALSE,
              verdict |-> "good", todo |-> {}]

TypeOK ==
    /\ session \in Session
    /\ oracle \in {"manual", "crash", "perf"}
    /\ steps \in Seq(Step) /\ Len(steps) <= MaxSteps
    /\ candidates \in SUBSET Steps
    /\ off \in [Steps -> SUBSET Mods]
    /\ active \in Steps \union {Source, None}
    /\ littered \in BOOLEAN
    /\ deployed \in 0..MaxSteps
    /\ visible \in SUBSET Mods
    /\ pc \in [Terminals -> Labels]
    /\ cmd \in [Terminals -> Command]
    /\ cause \in SUBSET Mods
    /\ deaths \in 0..MaxDeaths

Quiet == \A t \in Terminals : pc[t] = "idle"
Over  == session.status \in {"complete", "inconclusive", "aborted"}

-----------------------------------------------------------------------------
(* The search.                                                             *)

\* A mutant: the half is rounded the wrong way.
UpperHalfLess(S) ==
    {m \in S : Cardinality({n \in S : n < m}) >= (Cardinality(S) - 1) \div 2}

\* suspects[len / 2 ..], in the order of the profile.
UpperHalf(S) == {m \in S : Cardinality({n \in S : n < m}) >= Cardinality(S) \div 2}

Closed(E, S) == \A m \in E : Depends[m] \cap S \subseteq E

\* next_candidate_with_dependencies: the upper half and, round after round,
\* the suspects it depends on.  The rounds end in the least closed set.
Enabled(S) ==
    {m \in S : \A E \in SUBSET S : UpperHalf(S) \subseteq E /\ Closed(E, S) => m \in E}

\* A mutant: the two verdicts swapped.
NarrowedOther(step, result) == IF result = "good" THEN step.enabled ELSE step.disabled

\* apply_result: the culprits went with what was disabled, or are still there.
Narrowed(step, result) == IF result = "good" THEN step.disabled ELSE step.enabled

\* What comes of the game with the mods it finds.
Outcome == IF cause \subseteq visible THEN "bad" ELSE "good"

-----------------------------------------------------------------------------
(* Helpers.                                                                *)

\* The command in t goes on to a label with locals c; at "idle" it is over.
Goto(t, label, c) ==
    /\ pc' = [pc EXCEPT ![t] = label]
    /\ cmd' = [cmd EXCEPT ![t] = IF label = "idle" THEN NoCommand ELSE c]
Move(t, from, label, c) == pc[t] = from /\ Goto(t, label, c)

\* activate_with_fingerprint refuses while no profile is active and the save
\* directory is not empty.
Unadopted == SaveDir /\ active = None /\ littered

\* Otherwise it parks the saves of the active profile under .modde, and copies
\* out what the vault has for the new one.
Activated(p) ==
    /\ active' = p
    /\ littered' \in IF ~SaveDir THEN {littered}
                     ELSE IF active = None THEN BOOLEAN ELSE {TRUE}

\* cleanup_candidates: the candidates of the session's steps.
ToDelete == IF Keep THEN {} ELSE 1..Len(steps)

-----------------------------------------------------------------------------
(* bisect start, run and retry.                                            *)

\* handle_start: all that is enabled is suspect.
Start(t) ==
    /\ pc[t] = "idle" /\ t \in Launchers
    /\ session.status = "none"
    /\ session' = [NoSession EXCEPT !.status = "active", !.suspects = Mods]
    /\ oracle' \in Oracles
    /\ UNCHANGED <<steps, profileVars, gameVars, pc, cmd, cause, deaths>>

\* handle_run up to the plan.  There is always one: an active session has at
\* least two suspects.
Run(t) ==
    /\ t \in Launchers
    /\ Len(steps) < MaxSteps
    /\ session.status = "active" /\ session.step = 0
    /\ Move(t, "idle", "create",
            [NoCommand EXCEPT !.at = Len(steps) + 1, !.read = session,
                              !.plan = Enabled(session.suspects),
                              !.auto = (oracle # "manual")])
    /\ UNCHANGED <<rowVars, profileVars, gameVars, cause, deaths>>

\* create_candidate_profile fails if the name is taken; enforce_save_safety
\* then refuses a candidate that changes what saves hold.
Create(t) ==
    LET c        == cmd[t]
        disabled == c.read.suspects \ c.plan
        refused  == ~ForceSaveRisk /\ disabled \cap SaveMods # {}
    IN /\ \/ /\ c.at \in candidates
             /\ Move(t, "create", "idle", c)
             /\ UNCHANGED profileVars
          \/ /\ c.at \notin candidates
             /\ Move(t, "create", IF refused THEN "idle" ELSE "record", c)
             /\ candidates' = candidates \union {c.at}
             /\ off' = [off EXCEPT ![c.at] = disabled]
       /\ UNCHANGED <<rowVars, gameVars, cause, deaths>>

\* create_bisect_step.  A session has one row of an index.
Record(t) ==
    LET c     == cmd[t]
        taken == c.at <= Len(steps)
        step  == [enabled |-> c.plan, disabled |-> c.read.suspects \ c.plan,
                  result |-> "pending"]
    IN /\ Move(t, "record", IF taken THEN "idle" ELSE "wait", c)
       /\ steps' = IF taken THEN steps ELSE Append(steps, step)
       /\ UNCHANGED <<session, oracle, profileVars, gameVars, cause, deaths>>

\* The session waits for the step.  The perf oracle then starts the game
\* (run_perf_candidate), the others activate and deploy the candidate first.
Wait(t) ==
    LET c == cmd[t]
    IN /\ Move(t, "wait", IF oracle = "perf" THEN "play" ELSE "activate", c)
       /\ session' = [c.read EXCEPT !.status = "waiting", !.step = c.at]
       /\ UNCHANGED <<oracle, steps, profileVars, gameVars, cause, deaths>>

\* handle_retry.
Retry(t) ==
    /\ t \in Launchers
    /\ session.status = "waiting" /\ session.step # 0
    /\ Move(t, "idle", "activate", [NoCommand EXCEPT !.at = session.step])
    /\ UNCHANGED <<rowVars, profileVars, gameVars, cause, deaths>>

\* launch_candidate: the candidate may have been deleted meanwhile.
Activate(t) ==
    LET c == cmd[t]
    IN /\ \/ /\ c.at \notin candidates \/ Unadopted
             /\ Move(t, "activate", "idle", c)
             /\ UNCHANGED <<active, littered>>
          \/ /\ c.at \in candidates /\ ~Unadopted
             /\ Move(t, "activate", "deploy", c)
             /\ Activated(c.at)
       /\ UNCHANGED <<rowVars, profileVars, deployed, visible, cause, deaths>>

\* A mutant: the source profile is deployed.
DeploySource(t) ==
    /\ Move(t, "deploy", "play", cmd[t])
    /\ deployed' = cmd[t].at
    /\ visible' = Mods
    /\ UNCHANGED <<rowVars, profileVars, active, littered, cause, deaths>>

\* commands::deploy.  It removes no link but those it replaces, so what other
\* profiles left in the game's folder stays, unless the folder is one link.
Deploy(t) ==
    LET c       == cmd[t]
        enabled == Mods \ off[c.at]
    IN /\ \/ /\ c.at \notin candidates
             /\ Move(t, "deploy", "idle", c)
             /\ UNCHANGED <<deployed, visible>>
          \/ /\ c.at \in candidates
             /\ Move(t, "deploy", "play", c)
             /\ deployed' = c.at
             /\ visible' = IF Shared THEN enabled ELSE visible \union enabled
       /\ UNCHANGED <<rowVars, profileVars, active, littered, cause, deaths>>

\* The game is over.  A command that judges by itself goes on, if the launcher
\* let it see the end of the game.
Play(t) ==
    LET c == cmd[t]
    IN /\ \/ Move(t, "play", "idle", c)
          \/ c.auto /\ Move(t, "play", "load", [c EXCEPT !.verdict = Outcome])
       /\ littered' \in {littered, SaveDir}
       /\ UNCHANGED <<rowVars, profileVars, active, deployed, visible, cause, deaths>>

-----------------------------------------------------------------------------
(* bisect mark, and how a verdict is put to use.                           *)

\* A mutant: the session is not asked whether a step is pending.
MarkAny(t) ==
    /\ deployed # 0
    /\ Move(t, "idle", "load", [NoCommand EXCEPT !.at = deployed, !.verdict = Outcome])
    /\ UNCHANGED <<rowVars, profileVars, gameVars, cause, deaths>>

\* handle_mark: there must be a pending step.  The player is honest, and marks
\* the candidate that was deployed last.
Mark(t) ==
    /\ session.step # 0 /\ session.step = deployed
    /\ Move(t, "idle", "load",
            [NoCommand EXCEPT !.at = session.step, !.verdict = Outcome])
    /\ UNCHANGED <<rowVars, profileVars, gameVars, cause, deaths>>

\* complete_and_advance reads the session again,
Load(t) ==
    /\ Move(t, "load", "complete", [cmd[t] EXCEPT !.read = session])
    /\ UNCHANGED <<rowVars, profileVars, gameVars, cause, deaths>>

\* records the verdict with the step,
Complete(t) ==
    /\ Move(t, "complete", "advance", cmd[t])
    /\ steps' = [steps EXCEPT ![cmd[t].at].result = cmd[t].verdict]
    /\ UNCHANGED <<session, oracle, profileVars, gameVars, cause, deaths>>

\* and narrows the session down, whatever step that is waiting for by now.
Advance(t) ==
    LET c         == cmd[t]
        step      == steps[c.at]
        suspects  == Narrowed(step, c.verdict)
        status    == CASE suspects = {}             -> "inconclusive"
                       [] Cardinality(suspects) = 1 -> "complete"
                       [] OTHER                     -> "active"
        learnt(v) == IF c.verdict = v THEN step.disabled ELSE {}
    IN /\ Move(t, "advance", IF status = "active" THEN "idle" ELSE "cleanup",
               [c EXCEPT !.todo = ToDelete])
       /\ session' = [status |-> status, suspects |-> suspects, step |-> 0,
                      good |-> c.read.good \union learnt("bad"),
                      bad  |-> c.read.bad \union learnt("good")]
       /\ UNCHANGED <<oracle, steps, profileVars, gameVars, cause, deaths>>

-----------------------------------------------------------------------------
(* The end of a session.                                                   *)

\* cleanup_candidates: one profile after the other, whatever becomes of it.  The
\* row of active_profiles goes with the active one.
Cleanup(t) ==
    LET c    == cmd[t]
        next == IF pc[t] = "cleanup" THEN "restore" ELSE "abort"
    IN /\ pc[t] \in {"cleanup", "abclean"}
       /\ \/ \E k \in c.todo :
               /\ \A j \in c.todo : k <= j
               /\ Goto(t, pc[t], [c EXCEPT !.todo = @ \ {k}])
               /\ candidates' = candidates \ {k}
               /\ active' = IF active = k THEN None ELSE active
          \/ /\ c.todo = {}
             /\ Goto(t, next, c)
             /\ UNCHANGED <<candidates, active>>
       /\ UNCHANGED <<rowVars, off, littered, deployed, visible, cause, deaths>>

\* handle_abort: the candidates first,
Abort(t) ==
    /\ session.status # "none"
    /\ Move(t, "idle", "abclean", [NoCommand EXCEPT !.read = session, !.todo = ToDelete])
    /\ UNCHANGED <<rowVars, profileVars, gameVars, cause, deaths>>

\* then the session.
Aborted(t) ==
    /\ Move(t, "abort", "restore", cmd[t])
    /\ session' = [cmd[t].read EXCEPT !.status = "aborted", !.step = 0]
    /\ UNCHANGED <<oracle, steps, profileVars, gameVars, cause, deaths>>

\* A mutant: nothing is restored.
RestoreNothing(t) ==
    /\ Move(t, "restore", "idle", cmd[t])
    /\ UNCHANGED <<rowVars, profileVars, gameVars, cause, deaths>>

\* restore_source_profile: its outcome is ignored.
Restore(t) ==
    /\ Move(t, "restore", "idle", cmd[t])
    /\ \/ Unadopted /\ UNCHANGED <<active, littered>>
       \/ ~Unadopted /\ Activated(Source)
    /\ UNCHANGED <<rowVars, profileVars, deployed, visible, cause, deaths>>

\* A command fails, is interrupted or dies between two statements.
Die(t) ==
    /\ pc[t] # "idle" /\ deaths < MaxDeaths
    /\ Goto(t, "idle", NoCommand)
    /\ deaths' = deaths + 1
    /\ UNCHANGED <<rowVars, profileVars, gameVars, cause>>

-----------------------------------------------------------------------------
Init ==
    /\ session = NoSession /\ oracle = "manual" /\ steps = <<>>
    /\ candidates = {} /\ off = [k \in Steps |-> {}]
    /\ active \in {Source, None}
    /\ littered \in {FALSE, SaveDir}
    /\ deployed = 0 /\ visible \in {{}, Mods}
    /\ pc = [t \in Terminals |-> "idle"]
    /\ cmd = [t \in Terminals |-> NoCommand]
    /\ cause \in Causes
    /\ deaths = 0

\* What a command does once it has begun.
Proceed(t) ==
    \/ Create(t) \/ Record(t) \/ Wait(t) \/ Activate(t) \/ Deploy(t) \/ Play(t)
    \/ Load(t) \/ Complete(t) \/ Advance(t) \/ Cleanup(t) \/ Aborted(t) \/ Restore(t)

Next == \E t \in Terminals :
    \/ Start(t) \/ Run(t) \/ Retry(t) \/ Mark(t) \/ Abort(t) \/ Proceed(t) \/ Die(t)

Spec == Init /\ [][Next]_vars

\* Commands go on once begun, and a player who has not given up calls `run`
\* while the session is active and `mark` while it waits for a candidate.
FairSpec ==
    /\ Spec
    /\ \A t \in Terminals : WF_vars(Proceed(t))
    /\ \A t \in Launchers : SF_vars(Run(t)) /\ SF_vars(Mark(t))

-----------------------------------------------------------------------------
(* Properties of the search.                                               *)

\* The search never loses the culprit: some mod of what is wrong is always
\* among the suspects (apply_result), so that a session that ends complete
\* names one; whatever verdicts are repeated, late, or cut short.
CauseIsSuspect == session.status # "none" => cause \cap session.suspects # {}

\* A mod the session calls known good (complete_and_advance) is.
KnownGoodIsGood == cause \cap session.good = {}

\* A verdict on a step is passed on the candidate of that step: when a command
\* or the player judges, the game has what the candidate enables and no more.
\* Claimed by docs/src/reference/cli.md: `run` deploys the next candidate.
JudgedIsCandidate ==
    [][\A t \in Terminals : pc[t] # "load" /\ pc'[t] = "load" =>
           visible = Mods \ steps[cmd'[t].at].disabled]_vars

\* n suspects take no more than log2 n steps, rounded up
\* (docs/src/guides/troubleshooting.md: "a binary search is O(log n)").
StepsAreLog == Len(steps) > 0 => 2 ^ (Len(steps) - 1) < N

\* A session the player goes on with comes to a conclusion.
Converges == session.status # "none" ~> Over

\* Claimed by docs/src/reference/cli.md: a candidate has half of the remaining
\* suspects disabled.  (At least one, then.)
DisablesSome == \A k \in DOMAIN steps : steps[k].disabled # {}

\* Claimed by docs/src/reference/cli.md: candidates respect load-order and
\* master-dependency constraints.
DependenciesKept ==
    \A k \in DOMAIN steps : \A m \in Mods \ steps[k].disabled :
        Depends[m] \cap steps[k].disabled = {}

-----------------------------------------------------------------------------
(* Properties of the session.                                              *)

\* Claimed by docs/src/reference/cli.md: a session is resumable.  An active
\* one can make its next candidate.
Resumable ==
    Quiet /\ session.status = "active" /\ Len(steps) < MaxSteps =>
        Len(steps) + 1 \notin candidates

\* Claimed by docs/src/guides/troubleshooting.md: candidate profiles are
\* cleaned up when the session ends.
CandidatesRemoved == Quiet /\ Over /\ deaths = 0 => candidates = {}

\* Claimed by docs/src/guides/troubleshooting.md: the end of a session, abort
\* included, restores the source profile; there is something to restore once
\* a candidate has been deployed.
SourceRestored == Quiet /\ Over /\ deaths = 0 /\ deployed # 0 => active = Source

\* A session leaves the profiles as it found them (bisect/candidate.rs:170-183, 219-230).
ProfilesRestored == CandidatesRemoved /\ SourceRestored

\* A session that is over stays so (abort: docs/src/reference/cli.md).
StaysOver == [][Over => Over']_vars
===============================================================================
