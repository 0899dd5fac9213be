---------------------------- MODULE Bisect_proofs ----------------------------
(***************************************************************************)
(* Theorems about Bisect for any number of mods, dependencies, causes,     *)
(* steps and deaths.                                                       *)
(*                                                                         *)
(* The search, in any number of terminals of which one launches.  A        *)
(* verdict narrows the suspects by the step it is about, not by what they  *)
(* are by then.  So the inductive invariant says of every recorded step,   *)
(* and of every plan not yet recorded, that the cause has mods among those *)
(* it divided; and of every verdict on its way that it is what the         *)
(* candidate of its step deserves, for which the game's folder must hold   *)
(* what that candidate enables.                                            *)
(*                                                                         *)
(* The types, in any terminals.  Then the session, in one terminal, where  *)
(* the status of the row goes with the statement of the command: a session *)
(* that is over stays so, leaves no candidate, gives the source profile    *)
(* back, and takes no more than log2 N steps.                              *)
(***************************************************************************)
EXTENDS Bisect, TLAPS, FiniteSetTheorems

\* A single terminal launches, the folder is replaced, no perf oracle.
Reliable ==
    /\ \A a, b \in Launchers : a = b
    /\ Shared
    /\ "perf" \notin Oracles

\* Labels of a launch, of a verdict, and those at which the row that the
\* command read will be written back.
Launching == {"create", "record", "wait", "activate", "deploy", "play"}
Judging   == {"load", "complete", "advance"}
Writing   == {"create", "record", "wait", "complete", "advance", "abclean", "abort"}

\* The row s has not lost the cause, or mistaken it for something good.
Honest(s) == cause \cap s.suspects # {} /\ cause \cap s.good = {}

RowInv ==
    /\ session.status = "none" =>
           session = NoSession /\ \A t \in Terminals : pc[t] = "idle"
    /\ session.status # "none" => Honest(session)
    /\ session.step <= Len(steps)
    /\ oracle # "perf"

\* Each step divided mods with some of the cause; its candidate is as recorded.
StepInv ==
    \A k \in 1..Len(steps) :
        /\ cause \cap (steps[k].enabled \union steps[k].disabled) # {}
        /\ off[k] = steps[k].disabled

\* The game finds what the candidate deployed last enables.
FolderInv ==
    /\ deployed <= Len(steps)
    /\ deployed # 0 => visible = Mods \ off[deployed]

\* What a command at its label holds on to.
CommandInv(t) ==
    /\ pc[t] \in Writing => Honest(cmd[t].read)
    /\ pc[t] \in Launching => t \in Launchers
    /\ pc[t] \in {"create", "record"} =>
           /\ cmd[t].at = Len(steps) + 1
           /\ cmd[t].plan \subseteq cmd[t].read.suspects
    /\ pc[t] = "record" => off[cmd[t].at] = cmd[t].read.suspects \ cmd[t].plan
    /\ pc[t] \in {"wait", "activate", "deploy", "play"} \union Judging =>
           cmd[t].at \in 1..Len(steps)
    /\ pc[t] = "play" => deployed = cmd[t].at
    /\ pc[t] \in Judging =>
           (cmd[t].verdict = "bad" <=> cause \cap steps[cmd[t].at].disabled = {})

IInv ==
    /\ Reliable
    /\ TypeOK
    /\ cause # {}
    /\ RowInv
    /\ StepInv
    /\ FolderInv
    /\ \A t \in Terminals : CommandInv(t)

-----------------------------------------------------------------------------
(* Commands.                                                               *)

LEMMA NoCommandType == NoSession \in Session /\ NoCommand \in Command
  BY BisectAssumption DEF NoSession, NoCommand, Session, Command, Statuses, Verdicts

\* Goto moves one command and leaves the others alone.
LEMMA GotoOnly ==
  ASSUME TypeOK, NEW t \in Terminals, NEW label \in Labels, NEW c \in Command,
         Goto(t, label, c)
  PROVE  /\ pc' \in [Terminals -> Labels] /\ cmd' \in [Terminals -> Command]
         /\ pc'[t] = label
         /\ label # "idle" => cmd'[t] = c
         /\ \A u \in Terminals : u # t => pc'[u] = pc[u] /\ cmd'[u] = cmd[u]
  BY NoCommandType DEF TypeOK, Goto

\* A command that did not move keeps what it knows, as long as the steps, the
\* candidates and the deployment stay.
LEMMA OthersKeep ==
  ASSUME NEW u \in Terminals, CommandInv(u), pc'[u] = pc[u], cmd'[u] = cmd[u],
         UNCHANGED <<steps, off, deployed, cause>>
  PROVE  CommandInv(u)'
  BY DEF CommandInv, Honest

\* What none but Start, Wait, Advance and Aborted could disturb.
LEMMA RowKeeps ==
  ASSUME RowInv, session.status # "none",
         UNCHANGED <<session, oracle, cause>>, Len(steps') = Len(steps)
  PROVE  RowInv'
  BY DEF RowInv, Honest

LEMMA StepsKeep ==
  ASSUME StepInv, UNCHANGED <<steps, off, cause>>
  PROVE  StepInv'
  BY DEF StepInv

LEMMA FolderKeeps ==
  ASSUME FolderInv, UNCHANGED <<steps, off, deployed, visible>>
  PROVE  FolderInv'
  BY DEF FolderInv

\* A command has begun, so there is a session.
LEMMA Begun ==
  ASSUME RowInv, NEW t \in Terminals, pc[t] # "idle"
  PROVE  session.status # "none"
  BY DEF RowInv

-----------------------------------------------------------------------------
(* start, run and retry.                                                   *)

LEMMA StartStep ==
  ASSUME IInv, NEW t \in Terminals, Start(t)
  PROVE  IInv'
<1> USE DEF IInv
<1>1. TypeOK'
  BY BisectAssumption, NoCommandType DEF TypeOK, Start, Session, NoSession, Statuses,
     profileVars, gameVars
<1>2. RowInv'
  <2>1. session' = [NoSession EXCEPT !.status = "active", !.suspects = Mods]
    BY DEF Start
  <2>2. session'.suspects = Mods /\ session'.good = {} /\ session'.step = 0
    BY <2>1 DEF NoSession
  <2>3. session'.status = "active" /\ cause' = cause /\ steps' = steps
    BY <2>1 DEF Start, NoSession
  <2>4. oracle' # "perf"
    BY DEF Start, Reliable
  <2>5. QED
    BY <2>2, <2>3, <2>4 DEF RowInv, Honest, TypeOK
<1>3. StepInv' /\ FolderInv'
  BY StepsKeep, FolderKeeps DEF Start, profileVars, gameVars
<1>4. \A u \in Terminals : CommandInv(u)'
  BY OthersKeep DEF Start, profileVars, gameVars
<1>5. QED
  BY <1>1, <1>2, <1>3, <1>4 DEF Start, Reliable

LEMMA RunStep ==
  ASSUME IInv, NEW t \in Terminals, Run(t)
  PROVE  IInv'
<1> USE DEF IInv
<1> DEFINE c == [NoCommand EXCEPT !.at = Len(steps) + 1, !.read = session,
                                  !.plan = Enabled(session.suspects),
                                  !.auto = (oracle # "manual")]
<1>1. Enabled(session.suspects) \subseteq session.suspects
  BY DEF Enabled
<1>2. c \in Command
  <2>1. Len(steps) + 1 \in 0..MaxSteps
    BY BisectAssumption DEF Run, TypeOK
  <2>2. session \in Session /\ session.suspects \subseteq Mods
    BY DEF TypeOK, Session
  <2>3. QED
    BY <1>1, <2>1, <2>2, NoCommandType DEF Command
<1>3. Goto(t, "create", c) /\ pc[t] = "idle"
  BY DEF Run, Move
<1>4. /\ pc' \in [Terminals -> Labels] /\ cmd' \in [Terminals -> Command]
      /\ pc'[t] = "create" /\ cmd'[t] = c
      /\ \A u \in Terminals : u # t => pc'[u] = pc[u] /\ cmd'[u] = cmd[u]
  BY <1>2, <1>3, GotoOnly DEF Labels
<1>5. TypeOK'
  BY <1>4 DEF TypeOK, Run, rowVars, profileVars, gameVars
<1>6. RowInv' /\ StepInv' /\ FolderInv'
  BY RowKeeps, StepsKeep, FolderKeeps DEF Run, rowVars, profileVars, gameVars
<1>7. ASSUME NEW u \in Terminals PROVE CommandInv(u)'
  <2>1. CASE u = t
    <3>1. /\ cmd'[t].at = Len(steps) + 1 /\ cmd'[t].read = session
          /\ cmd'[t].plan = Enabled(session.suspects)
      BY <1>4 DEF NoCommand
    <3>2. Honest(session)'
      BY <1>6, Honest(session) DEF RowInv, Run, rowVars, Honest
    <3>3. Honest(cmd'[t].read)
      BY <3>1 DEF RowInv, Run, Honest
    <3>4. QED
      BY <1>1, <1>4, <2>1, <3>1, <3>3
      DEF CommandInv, Run, rowVars, Launching, Judging, Honest
  <2>2. CASE u # t
    BY <1>4, <2>2, OthersKeep DEF Run, rowVars, profileVars, gameVars
  <2>3. QED
    BY <2>1, <2>2
<1>8. QED
  BY <1>5, <1>6, <1>7 DEF Run, Reliable

LEMMA CreateStep ==
  ASSUME IInv, NEW t \in Terminals, Create(t)
  PROVE  IInv'
<1> USE DEF IInv
<1> DEFINE c == cmd[t]
<1>1. PICK label \in {"idle", "record"} :
        /\ pc[t] = "create" /\ Goto(t, label, c)
        /\ \/ label = "idle" /\ UNCHANGED <<candidates, off>>
           \/ /\ candidates' = candidates \union {c.at}
              /\ off' = [off EXCEPT ![c.at] = c.read.suspects \ c.plan]
  BY DEF Create, Move, profileVars
<1>2. /\ pc' \in [Terminals -> Labels] /\ cmd' \in [Terminals -> Command]
      /\ pc'[t] = label /\ (label # "idle" => cmd'[t] = c)
      /\ \A u \in Terminals : u # t => pc'[u] = pc[u] /\ cmd'[u] = cmd[u]
  BY <1>1, GotoOnly DEF Labels, TypeOK
<1>3. /\ c.at = Len(steps) + 1 /\ c.at \in Steps /\ t \in Launchers
      /\ c.read.suspects \subseteq Mods /\ Honest(c.read)
      /\ c.plan \subseteq c.read.suspects
  BY <1>1, BisectAssumption
  DEF CommandInv, TypeOK, Command, Session, Steps, Launching, Writing
<1>4. /\ label = "record" => off'[c.at] = c.read.suspects \ c.plan
      /\ \A k \in Steps : k # c.at => off'[k] = off[k]
      /\ off' \in [Steps -> SUBSET Mods] /\ candidates' \in SUBSET Steps
  BY <1>1, <1>3 DEF TypeOK
<1>5. UNCHANGED <<rowVars, gameVars, cause, deaths>>
  BY DEF Create
<1>6. TypeOK'
  BY <1>2, <1>4, <1>5 DEF TypeOK, rowVars, gameVars
<1>7. RowInv'
  BY <1>1, <1>5, Begun, RowKeeps DEF rowVars
<1>8. \A k \in 1..Len(steps) : off'[k] = off[k]
  BY <1>3, <1>4, BisectAssumption DEF Steps, TypeOK
<1>9. StepInv' /\ FolderInv'
  BY <1>5, <1>8, BisectAssumption DEF StepInv, FolderInv, TypeOK, rowVars, gameVars
<1>10. ASSUME NEW u \in Terminals PROVE CommandInv(u)'
  <2>1. CASE u = t
    BY <1>2, <1>3, <1>4, <1>5, <2>1
    DEF CommandInv, rowVars, gameVars, Honest, Launching, Writing, Judging
  <2>2. CASE u # t
    <3>1. pc[u] # "record"
      BY <1>3, <2>2 DEF CommandInv, Launching, Reliable
    <3>2. QED
      BY <1>2, <1>5, <2>2, <3>1 DEF CommandInv, rowVars, gameVars, Honest
  <2>3. QED
    BY <2>1, <2>2
<1>11. QED
  BY <1>5, <1>6, <1>7, <1>9, <1>10 DEF Reliable

LEMMA RecordStep ==
  ASSUME IInv, NEW t \in Terminals, Record(t)
  PROVE  IInv'
<1> USE DEF IInv
<1> DEFINE c == cmd[t]
<1> DEFINE step == [enabled |-> c.plan, disabled |-> c.read.suspects \ c.plan,
                    result |-> "pending"]
<1>1. pc[t] = "record" /\ Goto(t, "wait", c) /\ steps' = Append(steps, step)
  <2>1. pc[t] = "record" /\ Len(steps) \in Nat
    BY DEF Record, Move, TypeOK
  <2>2. ~(c.at <= Len(steps))
    BY <2>1 DEF CommandInv
  <2>3. QED
    BY <2>2 DEF Record, Move
<1>2. UNCHANGED <<session, oracle, profileVars, gameVars, cause, deaths>>
  BY DEF Record
<1>3. /\ pc' \in [Terminals -> Labels] /\ cmd' \in [Terminals -> Command]
      /\ pc'[t] = "wait" /\ cmd'[t] = c
      /\ \A u \in Terminals : u # t => pc'[u] = pc[u] /\ cmd'[u] = cmd[u]
  BY <1>1, GotoOnly DEF Labels, TypeOK
<1>4. /\ c.at = Len(steps) + 1 /\ c.at \in Steps /\ t \in Launchers
      /\ c.read.suspects \subseteq Mods /\ Honest(c.read)
      /\ c.plan \subseteq c.read.suspects
      /\ off[c.at] = c.read.suspects \ c.plan
  BY <1>1, BisectAssumption
  DEF CommandInv, TypeOK, Command, Session, Steps, Launching, Writing
<1>5. /\ step \in Step /\ Len(steps) \in Nat /\ Len(steps) + 1 <= MaxSteps
      /\ steps \in Seq(Step)
  BY <1>4, BisectAssumption DEF Step, TypeOK, Steps
<1>6. /\ steps' \in Seq(Step) /\ Len(steps') = Len(steps) + 1
      /\ steps'[Len(steps) + 1] = step
      /\ \A k \in 1..Len(steps) : steps'[k] = steps[k]
  <2> HIDE DEF step
  <2>1. QED
    BY <1>1, <1>5
<1>7. TypeOK'
  BY <1>2, <1>3, <1>5, <1>6 DEF TypeOK, profileVars, gameVars
<1>8. RowInv'
  <2>1. session.step \in Nat
    BY DEF TypeOK, Session
  <2>2. QED
    BY <1>1, <1>2, <1>5, <1>6, <2>1, Begun DEF RowInv, Honest
<1>9. StepInv'
  <2>1. cause \cap (step.enabled \union step.disabled) # {}
    BY <1>4 DEF Honest
  <2>2. \A k \in 1..Len(steps)' : k \in 1..Len(steps) \/ k = Len(steps) + 1
    BY <1>5, <1>6
  <2>3. off[Len(steps) + 1] = step.disabled
    BY <1>4
  <2>4. QED
    BY <1>2, <1>6, <2>1, <2>2, <2>3 DEF StepInv, profileVars
<1>10. FolderInv'
  BY <1>2, <1>5, <1>6 DEF FolderInv, profileVars, gameVars, TypeOK
<1>11. ASSUME NEW u \in Terminals PROVE CommandInv(u)'
  <2>1. CASE u = t
    BY <1>2, <1>3, <1>4, <1>5, <1>6, <2>1
    DEF CommandInv, Honest, Launching, Writing, Judging
  <2>2. CASE u # t
    <3>1. pc[u] \notin {"create", "record"}
      BY <1>4, <2>2 DEF CommandInv, Launching, Reliable
    <3>2. \A k \in 1..Len(steps) : k \in 1..Len(steps)' /\ steps'[k] = steps[k]
      BY <1>5, <1>6
    <3>3. QED
      BY <1>2, <1>3, <2>2, <3>1, <3>2
      DEF CommandInv, profileVars, gameVars, Honest, Judging
  <2>3. QED
    BY <2>1, <2>2
<1>12. QED
  BY <1>2, <1>7, <1>8, <1>9, <1>10, <1>11 DEF Reliable

LEMMA WaitStep ==
  ASSUME IInv, NEW t \in Terminals, Wait(t)
  PROVE  IInv'
<1> USE DEF IInv
<1> DEFINE c == cmd[t]
<1>1. /\ pc[t] = "wait" /\ Goto(t, "activate", c)
      /\ session' = [c.read EXCEPT !.status = "waiting", !.step = c.at]
  BY DEF Wait, Move, RowInv
<1>2. UNCHANGED <<oracle, steps, profileVars, gameVars, cause, deaths>>
  BY DEF Wait
<1>3. /\ pc' \in [Terminals -> Labels] /\ cmd' \in [Terminals -> Command]
      /\ pc'[t] = "activate" /\ cmd'[t] = c
      /\ \A u \in Terminals : u # t => pc'[u] = pc[u] /\ cmd'[u] = cmd[u]
  BY <1>1, GotoOnly DEF Labels, TypeOK
<1>4. /\ c.at \in 1..Len(steps) /\ t \in Launchers /\ Honest(c.read)
      /\ c.read \in Session /\ c.at \in 0..MaxSteps
  BY <1>1 DEF CommandInv, TypeOK, Command, Launching, Writing
<1>5. /\ session' \in Session /\ session'.status = "waiting"
      /\ session'.suspects = c.read.suspects /\ session'.good = c.read.good
      /\ session'.step = c.at
  BY <1>1, <1>4 DEF Session, Statuses
<1>6. TypeOK'
  BY <1>2, <1>3, <1>5 DEF TypeOK, profileVars, gameVars
<1>7. RowInv'
  BY <1>2, <1>4, <1>5 DEF RowInv, Honest, TypeOK
<1>8. StepInv' /\ FolderInv'
  BY <1>2, StepsKeep, FolderKeeps DEF profileVars, gameVars
<1>9. ASSUME NEW u \in Terminals PROVE CommandInv(u)'
  <2>1. CASE u = t
    BY <1>2, <1>3, <1>4, <2>1 DEF CommandInv, Launching, Writing, Judging
  <2>2. CASE u # t
    BY <1>2, <1>3, <2>2, OthersKeep DEF profileVars, gameVars
  <2>3. QED
    BY <2>1, <2>2
<1>10. QED
  BY <1>2, <1>6, <1>7, <1>8, <1>9 DEF Reliable

LEMMA RetryStep ==
  ASSUME IInv, NEW t \in Terminals, Retry(t)
  PROVE  IInv'
<1> USE DEF IInv
<1> DEFINE c == [NoCommand EXCEPT !.at = session.step]
<1>1. /\ pc[t] = "idle" /\ Goto(t, "activate", c) /\ t \in Launchers
      /\ UNCHANGED <<rowVars, profileVars, gameVars, cause, deaths>>
  BY DEF Retry, Move
<1>2. session.step \in 1..Len(steps) /\ session.step \in 0..MaxSteps
  BY DEF Retry, RowInv, TypeOK, Session
<1>3. c \in Command /\ c.at = session.step
  BY <1>2, NoCommandType DEF Command, NoCommand
<1>4. /\ pc' \in [Terminals -> Labels] /\ cmd' \in [Terminals -> Command]
      /\ pc'[t] = "activate" /\ cmd'[t] = c
      /\ \A u \in Terminals : u # t => pc'[u] = pc[u] /\ cmd'[u] = cmd[u]
  BY <1>1, <1>3, GotoOnly DEF Labels, TypeOK
<1>5. TypeOK'
  BY <1>1, <1>4 DEF TypeOK, rowVars, profileVars, gameVars
<1>6. RowInv' /\ StepInv' /\ FolderInv'
  BY <1>1, RowKeeps, StepsKeep, FolderKeeps DEF Retry, rowVars, profileVars, gameVars
<1>7. ASSUME NEW u \in Terminals PROVE CommandInv(u)'
  <2>1. CASE u = t
    BY <1>1, <1>2, <1>3, <1>4, <2>1
    DEF CommandInv, rowVars, Launching, Writing, Judging
  <2>2. CASE u # t
    BY <1>1, <1>4, <2>2, OthersKeep DEF rowVars, profileVars, gameVars
  <2>3. QED
    BY <2>1, <2>2
<1>8. QED
  BY <1>1, <1>5, <1>6, <1>7 DEF Reliable

\* What Activate, Restore and the like do to the active profile has a type.
LEMMA ActivatedType ==
  ASSUME TypeOK, NEW p \in Steps \union {Source, None}, Activated(p)
  PROVE  active' \in Steps \union {Source, None} /\ littered' \in BOOLEAN
  BY DEF Activated, TypeOK

LEMMA ActivateStep ==
  ASSUME IInv, NEW t \in Terminals, Activate(t)
  PROVE  IInv'
<1> USE DEF IInv
<1> DEFINE c == cmd[t]
<1>1. PICK label \in {"idle", "deploy"} :
        /\ pc[t] = "activate" /\ Goto(t, label, c)
        /\ \/ UNCHANGED <<active, littered>>
           \/ c.at \in candidates /\ Activated(c.at)
  BY DEF Activate, Move
<1>2. UNCHANGED <<rowVars, profileVars, deployed, visible, cause, deaths>>
  BY DEF Activate
<1>3. /\ pc' \in [Terminals -> Labels] /\ cmd' \in [Terminals -> Command]
      /\ pc'[t] = label /\ (label # "idle" => cmd'[t] = c)
      /\ \A u \in Terminals : u # t => pc'[u] = pc[u] /\ cmd'[u] = cmd[u]
  BY <1>1, GotoOnly DEF Labels, TypeOK
<1>4. active' \in Steps \union {Source, None} /\ littered' \in BOOLEAN
  BY <1>1, ActivatedType DEF TypeOK
<1>5. TypeOK'
  BY <1>2, <1>3, <1>4 DEF TypeOK, rowVars, profileVars
<1>6. RowInv' /\ StepInv' /\ FolderInv'
  BY <1>1, <1>2, Begun, RowKeeps, StepsKeep, FolderKeeps DEF rowVars, profileVars
<1>7. ASSUME NEW u \in Terminals PROVE CommandInv(u)'
  <2>1. CASE u = t
    BY <1>1, <1>2, <1>3, <2>1
    DEF CommandInv, rowVars, Launching, Writing, Judging
  <2>2. CASE u # t
    BY <1>2, <1>3, <2>2, OthersKeep DEF rowVars, profileVars
  <2>3. QED
    BY <2>1, <2>2
<1>8. QED
  BY <1>2, <1>5, <1>6, <1>7 DEF Reliable

LEMMA DeployStep ==
  ASSUME IInv, NEW t \in Terminals, Deploy(t)
  PROVE  IInv'
<1> USE DEF IInv
<1> DEFINE c == cmd[t]
<1>1. PICK label \in {"idle", "play"} :
        /\ pc[t] = "deploy" /\ Goto(t, label, c)
        /\ \/ label = "idle" /\ UNCHANGED <<deployed, visible>>
           \/ deployed' = c.at /\ visible' = Mods \ off[c.at]
  BY DEF Deploy, Move, Reliable
<1>2. UNCHANGED <<rowVars, profileVars, active, littered, cause, deaths>>
  BY DEF Deploy
<1>3. /\ pc' \in [Terminals -> Labels] /\ cmd' \in [Terminals -> Command]
      /\ pc'[t] = label /\ (label # "idle" => cmd'[t] = c)
      /\ \A u \in Terminals : u # t => pc'[u] = pc[u] /\ cmd'[u] = cmd[u]
  BY <1>1, GotoOnly DEF Labels, TypeOK
<1>4. c.at \in 1..Len(steps) /\ c.at \in 0..MaxSteps /\ t \in Launchers
  BY <1>1 DEF CommandInv, TypeOK, Command, Launching
<1>5. deployed' \in 0..MaxSteps /\ visible' \in SUBSET Mods
  BY <1>1, <1>4 DEF TypeOK
<1>6. TypeOK'
  BY <1>2, <1>3, <1>5 DEF TypeOK, rowVars, profileVars
<1>7. RowInv' /\ StepInv'
  BY <1>1, <1>2, Begun, RowKeeps, StepsKeep DEF rowVars, profileVars
<1>8. FolderInv'
  BY <1>1, <1>2, <1>4 DEF FolderInv, rowVars, profileVars, TypeOK
<1>9. ASSUME NEW u \in Terminals PROVE CommandInv(u)'
  <2>1. CASE u = t
    BY <1>1, <1>2, <1>3, <1>4, <2>1
    DEF CommandInv, rowVars, Launching, Writing, Judging
  <2>2. CASE u # t
    <3>1. pc[u] # "play"
      BY <1>4, <2>2 DEF CommandInv, Launching, Reliable
    <3>2. QED
      BY <1>2, <1>3, <2>2, <3>1 DEF CommandInv, rowVars, profileVars, Honest
  <2>3. QED
    BY <2>1, <2>2
<1>10. QED
  BY <1>2, <1>6, <1>7, <1>8, <1>9 DEF Reliable

-----------------------------------------------------------------------------
(* Verdicts.                                                               *)

\* When the game holds what the candidate of step k enables, the outcome is
\* bad just in case nothing of the cause is disabled.
LEMMA HonestOutcome ==
  ASSUME IInv, NEW k \in 1..Len(steps), deployed = k
  PROVE  /\ Outcome \in Verdicts
         /\ visible = Mods \ steps[k].disabled
         /\ Outcome = "bad" <=> cause \cap steps[k].disabled = {}
<1>1. visible = Mods \ steps[k].disabled
  BY DEF IInv, StepInv, FolderInv
<1>2. cause \subseteq Mods
  BY DEF IInv, TypeOK
<1>3. QED
  BY <1>1, <1>2 DEF Outcome, Verdicts

LEMMA PlayStep ==
  ASSUME IInv, NEW t \in Terminals, Play(t)
  PROVE  IInv'
<1> USE DEF IInv
<1> DEFINE c == [cmd[t] EXCEPT !.verdict = Outcome]
<1>1. /\ pc[t] = "play"
      /\ Goto(t, "idle", cmd[t]) \/ Goto(t, "load", c)
      /\ littered' \in {littered, SaveDir}
      /\ UNCHANGED <<rowVars, profileVars, active, deployed, visible, cause, deaths>>
  BY DEF Play, Move
<1>2. cmd[t].at \in 1..Len(steps) /\ deployed = cmd[t].at /\ cmd[t] \in Command
  BY <1>1 DEF CommandInv, TypeOK
<1>3. /\ c \in Command /\ c.at = cmd[t].at /\ c.verdict = Outcome
      /\ Outcome = "bad" <=> cause \cap steps[c.at].disabled = {}
  <2>1. Outcome \in Verdicts
    BY <1>2, HonestOutcome
  <2>2. c \in Command /\ c.at = cmd[t].at /\ c.verdict = Outcome
    BY <1>2, <2>1 DEF Command
  <2>3. QED
    BY <1>2, <2>2, HonestOutcome
<1>4. /\ pc' \in [Terminals -> Labels] /\ cmd' \in [Terminals -> Command]
      /\ pc'[t] = "idle" \/ (pc'[t] = "load" /\ cmd'[t] = c)
      /\ \A u \in Terminals : u # t => pc'[u] = pc[u] /\ cmd'[u] = cmd[u]
  <2>1. CASE Goto(t, "idle", cmd[t])
    BY <1>2, <2>1, GotoOnly DEF Labels
  <2>2. CASE Goto(t, "load", c)
    BY <1>3, <2>2, GotoOnly DEF Labels
  <2>3. QED
    BY <1>1, <2>1, <2>2
<1>5. TypeOK'
  <2>1. littered' \in BOOLEAN
    BY <1>1, BisectAssumption DEF TypeOK
  <2>2. QED
    BY <1>1, <1>4, <2>1 DEF TypeOK, rowVars, profileVars
<1>6. RowInv' /\ StepInv' /\ FolderInv'
  BY <1>1, Begun, RowKeeps, StepsKeep, FolderKeeps DEF rowVars, profileVars
<1>7. ASSUME NEW u \in Terminals PROVE CommandInv(u)'
  <2>1. CASE u = t
    BY <1>1, <1>2, <1>3, <1>4, <2>1
    DEF CommandInv, rowVars, Launching, Writing, Judging
  <2>2. CASE u # t
    BY <1>1, <1>4, <2>2, OthersKeep DEF rowVars, profileVars
  <2>3. QED
    BY <2>1, <2>2
<1>8. QED
  BY <1>1, <1>5, <1>6, <1>7 DEF Reliable

LEMMA MarkStep ==
  ASSUME IInv, NEW t \in Terminals, Mark(t)
  PROVE  IInv'
<1> USE DEF IInv
<1> DEFINE c == [NoCommand EXCEPT !.at = session.step, !.verdict = Outcome]
<1>1. /\ Goto(t, "load", c) /\ session.step # 0 /\ session.step = deployed
      /\ UNCHANGED <<rowVars, profileVars, gameVars, cause, deaths>>
  BY DEF Mark, Move
<1>2. session.step \in 1..Len(steps) /\ session.step \in 0..MaxSteps
  BY <1>1 DEF RowInv, TypeOK, Session
<1>3. /\ c \in Command /\ c.at = session.step /\ c.verdict = Outcome
      /\ Outcome = "bad" <=> cause \cap steps[c.at].disabled = {}
  <2>1. Outcome \in Verdicts
    BY <1>1, <1>2, HonestOutcome
  <2>2. c \in Command /\ c.at = session.step /\ c.verdict = Outcome
    BY <1>2, <2>1, NoCommandType DEF Command, NoCommand
  <2>3. QED
    BY <1>1, <1>2, <2>2, HonestOutcome
<1>4. /\ pc' \in [Terminals -> Labels] /\ cmd' \in [Terminals -> Command]
      /\ pc'[t] = "load" /\ cmd'[t] = c
      /\ \A u \in Terminals : u # t => pc'[u] = pc[u] /\ cmd'[u] = cmd[u]
  BY <1>1, <1>3, GotoOnly DEF Labels, TypeOK
<1>5. TypeOK'
  BY <1>1, <1>4 DEF TypeOK, rowVars, profileVars, gameVars
<1>6. RowInv' /\ StepInv' /\ FolderInv'
  <2>1. session.status # "none"
    BY <1>1 DEF RowInv, NoSession
  <2>2. QED
    BY <1>1, <2>1, RowKeeps, StepsKeep, FolderKeeps DEF rowVars, profileVars, gameVars
<1>7. ASSUME NEW u \in Terminals PROVE CommandInv(u)'
  <2>1. CASE u = t
    BY <1>1, <1>2, <1>3, <1>4, <2>1
    DEF CommandInv, rowVars, Launching, Writing, Judging
  <2>2. CASE u # t
    BY <1>1, <1>4, <2>2, OthersKeep DEF rowVars, profileVars, gameVars
  <2>3. QED
    BY <2>1, <2>2
<1>8. QED
  BY <1>1, <1>5, <1>6, <1>7 DEF Reliable

LEMMA LoadStep ==
  ASSUME IInv, NEW t \in Terminals, Load(t)
  PROVE  IInv'
<1> USE DEF IInv
<1> DEFINE c == [cmd[t] EXCEPT !.read = session]
<1>1. /\ pc[t] = "load" /\ Goto(t, "complete", c)
      /\ UNCHANGED <<rowVars, profileVars, gameVars, cause, deaths>>
  BY DEF Load, Move
<1>2. /\ c \in Command /\ c.at = cmd[t].at /\ c.verdict = cmd[t].verdict
      /\ c.read = session
  BY DEF TypeOK, Command
<1>3. /\ pc' \in [Terminals -> Labels] /\ cmd' \in [Terminals -> Command]
      /\ pc'[t] = "complete" /\ cmd'[t] = c
      /\ \A u \in Terminals : u # t => pc'[u] = pc[u] /\ cmd'[u] = cmd[u]
  BY <1>1, <1>2, GotoOnly DEF Labels, TypeOK
<1>4. TypeOK'
  BY <1>1, <1>3 DEF TypeOK, rowVars, profileVars, gameVars
<1>5. RowInv' /\ StepInv' /\ FolderInv'
  BY <1>1, Begun, RowKeeps, StepsKeep, FolderKeeps DEF rowVars, profileVars, gameVars
<1>6. ASSUME NEW u \in Terminals PROVE CommandInv(u)'
  <2>1. CASE u = t
    <3>1. Honest(session) /\ Honest(session)'
      BY <1>1, Begun DEF RowInv, Honest, rowVars
    <3>2. /\ cmd[t].at \in 1..Len(steps)
          /\ cmd[t].verdict = "bad" <=> cause \cap steps[cmd[t].at].disabled = {}
      BY <1>1 DEF CommandInv, Judging
    <3> HIDE DEF c
    <3>3. Honest(cmd[t].read)'
      BY <1>1, <1>2, <1>3, <3>1 DEF rowVars, Honest
    <3>4. QED
      BY <1>1, <1>2, <1>3, <2>1, <3>2, <3>3
      DEF CommandInv, rowVars, Launching, Judging
  <2>2. CASE u # t
    BY <1>1, <1>3, <2>2, OthersKeep DEF rowVars, profileVars, gameVars
  <2>3. QED
    BY <2>1, <2>2
<1>7. QED
  BY <1>1, <1>4, <1>5, <1>6 DEF Reliable

LEMMA CompleteStep ==
  ASSUME IInv, NEW t \in Terminals, Complete(t)
  PROVE  IInv'
<1> USE DEF IInv
<1> DEFINE c == cmd[t]
<1>1. /\ pc[t] = "complete" /\ Goto(t, "advance", c)
      /\ steps' = [steps EXCEPT ![c.at].result = c.verdict]
      /\ UNCHANGED <<session, oracle, profileVars, gameVars, cause, deaths>>
  BY DEF Complete, Move
<1>2. c.at \in 1..Len(steps) /\ c.verdict \in Verdicts /\ steps \in Seq(Step)
  BY <1>1 DEF CommandInv, TypeOK, Command, Judging
<1>3. /\ pc' \in [Terminals -> Labels] /\ cmd' \in [Terminals -> Command]
      /\ pc'[t] = "advance" /\ cmd'[t] = c
      /\ \A u \in Terminals : u # t => pc'[u] = pc[u] /\ cmd'[u] = cmd[u]
  BY <1>1, GotoOnly DEF Labels, TypeOK
<1>4. /\ steps' \in Seq(Step) /\ Len(steps') = Len(steps)
      /\ \A k \in 1..Len(steps) : /\ steps'[k].enabled = steps[k].enabled
                                  /\ steps'[k].disabled = steps[k].disabled
  <2> DEFINE step == [steps[c.at] EXCEPT !.result = c.verdict]
  <2>1. steps[c.at] \in Step
    BY <1>2
  <2>2. /\ step \in Step /\ step.enabled = steps[c.at].enabled
        /\ step.disabled = steps[c.at].disabled
    BY <1>2, <2>1 DEF Step
  <2>3. steps' = [steps EXCEPT ![c.at] = step]
    BY <1>1
  <2> HIDE DEF step
  <2>4. steps' \in Seq(Step) /\ Len(steps') = Len(steps)
    BY <1>2, <2>2, <2>3
  <2>5. \A k \in 1..Len(steps) : steps'[k] = IF k = c.at THEN step ELSE steps[k]
    BY <1>2, <2>3
  <2>6. QED
    BY <2>2, <2>4, <2>5
<1>5. TypeOK'
  BY <1>1, <1>3, <1>4 DEF TypeOK, profileVars, gameVars
<1>6. RowInv'
  BY <1>1, <1>4, Begun, RowKeeps
<1>7. StepInv' /\ FolderInv'
  BY <1>1, <1>4 DEF StepInv, FolderInv, profileVars, gameVars
<1>8. ASSUME NEW u \in Terminals PROVE CommandInv(u)'
  <2>1. CASE u = t
    BY <1>1, <1>2, <1>3, <1>4, <2>1
    DEF CommandInv, Launching, Writing, Judging, Honest
  <2>2. CASE u # t
    BY <1>1, <1>3, <1>4, <2>2
    DEF CommandInv, profileVars, gameVars, Judging, Honest
  <2>3. QED
    BY <2>1, <2>2
<1>9. QED
  BY <1>1, <1>5, <1>6, <1>7, <1>8 DEF Reliable

\* The heart of the search: narrowing by an honest verdict keeps some of the
\* cause among the suspects.
LEMMA NarrowingKeepsCause ==
  ASSUME NEW step \in Step, NEW verdict \in Verdicts,
         cause \cap (step.enabled \union step.disabled) # {},
         verdict = "bad" <=> cause \cap step.disabled = {}
  PROVE  /\ Narrowed(step, verdict) \in SUBSET Mods
         /\ cause \cap Narrowed(step, verdict) # {}
<1>1. CASE verdict = "good"
  BY <1>1 DEF Narrowed, Step
<1>2. CASE verdict = "bad"
  BY <1>2 DEF Narrowed, Step
<1>3. QED
  BY <1>1, <1>2 DEF Verdicts

LEMMA AdvanceStep ==
  ASSUME IInv, NEW t \in Terminals, Advance(t)
  PROVE  IInv'
<1> USE DEF IInv
<1> DEFINE c == cmd[t]
           step == steps[c.at]
           d == [c EXCEPT !.todo = ToDelete]
<1>1. /\ pc[t] = "advance"
      /\ Goto(t, "idle", d) \/ Goto(t, "cleanup", d)
      /\ UNCHANGED <<oracle, steps, profileVars, gameVars, cause, deaths>>
  BY DEF Advance, Move
<1>2. PICK status \in {"inconclusive", "complete", "active"} :
        session' = [status |-> status, suspects |-> Narrowed(step, c.verdict), step |-> 0,
                    good |-> c.read.good \union
                             (IF c.verdict = "bad" THEN step.disabled ELSE {}),
                    bad  |-> c.read.bad \union
                             (IF c.verdict = "good" THEN step.disabled ELSE {})]
  <2> DEFINE suspects == Narrowed(step, c.verdict)
             status == CASE suspects = {}             -> "inconclusive"
                         [] Cardinality(suspects) = 1 -> "complete"
                         [] OTHER                     -> "active"
  <2>1. status \in {"inconclusive", "complete", "active"}
    OBVIOUS
  <2>2. session' = [status |-> status, suspects |-> suspects, step |-> 0,
                    good |-> c.read.good \union
                             (IF c.verdict = "bad" THEN step.disabled ELSE {}),
                    bad  |-> c.read.bad \union
                             (IF c.verdict = "good" THEN step.disabled ELSE {})]
    BY Zenon DEF Advance
  <2> HIDE DEF status
  <2>3. QED
    BY <2>1, <2>2
<1>3. /\ c \in Command /\ c.read \in Session /\ c.verdict \in Verdicts
      /\ c.at \in 1..Len(steps) /\ step \in Step
      /\ Honest(c.read)
      /\ c.verdict = "bad" <=> cause \cap step.disabled = {}
      /\ cause \cap (step.enabled \union step.disabled) # {}
  BY <1>1 DEF CommandInv, StepInv, TypeOK, Command, Writing, Judging
<1>4. d \in Command
  <2>1. ToDelete \subseteq Steps
    BY BisectAssumption DEF ToDelete, Steps, TypeOK
  <2>2. QED
    BY <1>3, <2>1 DEF Command
<1>5. /\ pc' \in [Terminals -> Labels] /\ cmd' \in [Terminals -> Command]
      /\ pc'[t] \in {"idle", "cleanup"}
      /\ \A u \in Terminals : u # t => pc'[u] = pc[u] /\ cmd'[u] = cmd[u]
  <2>1. CASE Goto(t, "idle", d)
    BY <1>4, <2>1, GotoOnly DEF Labels
  <2>2. CASE Goto(t, "cleanup", d)
    BY <1>4, <2>2, GotoOnly DEF Labels
  <2>3. QED
    BY <1>1, <2>1, <2>2
<1>6. session' \in Session /\ session'.status # "none" /\ Honest(session')
  <2>1. /\ Narrowed(step, c.verdict) \in SUBSET Mods
        /\ cause \cap Narrowed(step, c.verdict) # {}
    <3> HIDE DEF step, c
    <3>1. QED
      BY <1>3, NarrowingKeepsCause
  <2>2. cause \cap (c.read.good \union
                    (IF c.verdict = "bad" THEN step.disabled ELSE {})) = {}
    <3> HIDE DEF step, c
    <3>1. QED
      BY <1>3 DEF Honest
  <2>3. /\ c.read.good \in SUBSET Mods /\ c.read.bad \in SUBSET Mods
        /\ step.disabled \in SUBSET Mods /\ 0 \in 0..MaxSteps
    BY <1>3, BisectAssumption DEF Session, Step
  <2>4. QED
    <3> HIDE DEF step, c
    <3>1. QED
      BY <1>1, <1>2, <2>1, <2>2, <2>3 DEF Session, Statuses, Honest
<1>7. TypeOK'
  BY <1>1, <1>5, <1>6 DEF TypeOK, profileVars, gameVars
<1>8. RowInv'
  <2>1. session'.step = 0 /\ Len(steps) \in Nat
    BY <1>2 DEF TypeOK
  <2>2. QED
    BY <1>1, <1>6, <2>1 DEF RowInv, Honest
<1>9. StepInv' /\ FolderInv'
  BY <1>1, StepsKeep, FolderKeeps DEF profileVars, gameVars
<1>10. ASSUME NEW u \in Terminals PROVE CommandInv(u)'
  <2>1. CASE u = t
    BY <1>5, <2>1 DEF CommandInv, Launching, Writing, Judging
  <2>2. CASE u # t
    BY <1>1, <1>5, <2>2, OthersKeep DEF profileVars, gameVars
  <2>3. QED
    BY <2>1, <2>2
<1>11. QED
  BY <1>1, <1>7, <1>8, <1>9, <1>10 DEF Reliable

-----------------------------------------------------------------------------
(* The end of a session, and of a command.                                 *)

LEMMA CleanupStep ==
  ASSUME IInv, NEW t \in Terminals, Cleanup(t)
  PROVE  IInv'
<1> USE DEF IInv
<1>1. /\ pc[t] \in {"cleanup", "abclean"}
      /\ UNCHANGED <<rowVars, off, littered, deployed, visible, cause, deaths>>
  BY DEF Cleanup
<1>2. /\ candidates' \in SUBSET Steps /\ active' \in Steps \union {Source, None}
  BY DEF Cleanup, TypeOK
<1>3. PICK label \in {"cleanup", "abclean", "restore", "abort"}, c \in Command :
        /\ Goto(t, label, c) /\ c.read = cmd[t].read
        /\ label \in {"abclean", "abort"} => pc[t] = "abclean"
  <2>1. CASE \E k \in cmd[t].todo : Goto(t, pc[t], [cmd[t] EXCEPT !.todo = @ \ {k}])
    <3>1. PICK k \in cmd[t].todo : Goto(t, pc[t], [cmd[t] EXCEPT !.todo = @ \ {k}])
      BY <2>1
    <3> DEFINE c == [cmd[t] EXCEPT !.todo = @ \ {k}]
    <3>2. c \in Command /\ c.read = cmd[t].read
      BY DEF TypeOK, Command
    <3> HIDE DEF c
    <3>3. QED
      BY <1>1, <3>1, <3>2 DEF c
  <2>2. CASE Goto(t, IF pc[t] = "cleanup" THEN "restore" ELSE "abort", cmd[t])
    BY <1>1, <2>2 DEF TypeOK
  <2>3. QED
    BY <2>1, <2>2 DEF Cleanup
<1>4. /\ pc' \in [Terminals -> Labels] /\ cmd' \in [Terminals -> Command]
      /\ pc'[t] = label /\ cmd'[t] = c
      /\ \A u \in Terminals : u # t => pc'[u] = pc[u] /\ cmd'[u] = cmd[u]
  BY <1>3, GotoOnly DEF Labels
<1>5. TypeOK'
  BY <1>1, <1>2, <1>4 DEF TypeOK, rowVars
<1>6. RowInv' /\ StepInv' /\ FolderInv'
  BY <1>1, Begun, RowKeeps, StepsKeep, FolderKeeps DEF rowVars
<1>7. ASSUME NEW u \in Terminals PROVE CommandInv(u)'
  <2>1. CASE u = t
    BY <1>1, <1>3, <1>4, <2>1 DEF CommandInv, Launching, Writing, Judging, Honest
  <2>2. CASE u # t
    BY <1>1, <1>4, <2>2, OthersKeep DEF rowVars
  <2>3. QED
    BY <2>1, <2>2
<1>8. QED
  BY <1>1, <1>5, <1>6, <1>7 DEF Reliable

LEMMA AbortStep ==
  ASSUME IInv, NEW t \in Terminals, Abort(t)
  PROVE  IInv'
<1> USE DEF IInv
<1> DEFINE c == [NoCommand EXCEPT !.read = session, !.todo = ToDelete]
<1>1. /\ Goto(t, "abclean", c) /\ session.status # "none"
      /\ UNCHANGED <<rowVars, profileVars, gameVars, cause, deaths>>
  BY DEF Abort, Move
<1>2. c \in Command /\ c.read = session
  <2>1. ToDelete \subseteq Steps
    BY BisectAssumption DEF ToDelete, Steps, TypeOK
  <2>2. QED
    BY <2>1, NoCommandType DEF Command, NoCommand, TypeOK
<1>3. /\ pc' \in [Terminals -> Labels] /\ cmd' \in [Terminals -> Command]
      /\ pc'[t] = "abclean" /\ cmd'[t] = c
      /\ \A u \in Terminals : u # t => pc'[u] = pc[u] /\ cmd'[u] = cmd[u]
  BY <1>1, <1>2, GotoOnly DEF Labels, TypeOK
<1>4. TypeOK'
  BY <1>1, <1>3 DEF TypeOK, rowVars, profileVars, gameVars
<1>5. RowInv' /\ StepInv' /\ FolderInv'
  BY <1>1, RowKeeps, StepsKeep, FolderKeeps DEF rowVars, profileVars, gameVars
<1>6. ASSUME NEW u \in Terminals PROVE CommandInv(u)'
  <2>1. CASE u = t
    <3> HIDE DEF c
    <3>1. Honest(cmd[t].read)'
      BY <1>1, <1>2, <1>3 DEF RowInv, Honest, rowVars
    <3>2. QED
      BY <1>3, <2>1, <3>1 DEF CommandInv, Launching, Writing, Judging
  <2>2. CASE u # t
    BY <1>1, <1>3, <2>2, OthersKeep DEF rowVars, profileVars, gameVars
  <2>3. QED
    BY <2>1, <2>2
<1>7. QED
  BY <1>1, <1>4, <1>5, <1>6 DEF Reliable

LEMMA AbortedStep ==
  ASSUME IInv, NEW t \in Terminals, Aborted(t)
  PROVE  IInv'
<1> USE DEF IInv
<1> DEFINE c == cmd[t]
<1>1. /\ pc[t] = "abort" /\ Goto(t, "restore", c)
      /\ session' = [c.read EXCEPT !.status = "aborted", !.step = 0]
      /\ UNCHANGED <<oracle, steps, profileVars, gameVars, cause, deaths>>
  BY DEF Aborted, Move
<1>2. c.read \in Session /\ c \in Command /\ Honest(c.read) /\ 0 \in 0..MaxSteps
  BY <1>1, BisectAssumption DEF TypeOK, Command, CommandInv, Writing
<1>3. /\ session' \in Session /\ session'.status = "aborted" /\ session'.step = 0
      /\ session'.suspects = c.read.suspects /\ session'.good = c.read.good
  BY <1>1, <1>2 DEF Session, Statuses
<1>4. /\ pc' \in [Terminals -> Labels] /\ cmd' \in [Terminals -> Command]
      /\ pc'[t] = "restore" /\ cmd'[t] = c
      /\ \A u \in Terminals : u # t => pc'[u] = pc[u] /\ cmd'[u] = cmd[u]
  BY <1>1, <1>2, GotoOnly DEF Labels
<1>5. TypeOK'
  BY <1>1, <1>3, <1>4 DEF TypeOK, profileVars, gameVars
<1>6. RowInv'
  BY <1>1, <1>2, <1>3 DEF RowInv, Honest, TypeOK
<1>7. StepInv' /\ FolderInv'
  BY <1>1, StepsKeep, FolderKeeps DEF profileVars, gameVars
<1>8. ASSUME NEW u \in Terminals PROVE CommandInv(u)'
  <2>1. CASE u = t
    BY <1>4, <2>1 DEF CommandInv, Launching, Writing, Judging
  <2>2. CASE u # t
    BY <1>1, <1>4, <2>2, OthersKeep DEF profileVars, gameVars
  <2>3. QED
    BY <2>1, <2>2
<1>9. QED
  BY <1>1, <1>5, <1>6, <1>7, <1>8 DEF Reliable

\* A command that ends says nothing of the steps.
LEMMA EndStep ==
  ASSUME IInv, NEW t \in Terminals, pc[t] # "idle", Goto(t, "idle", NoCommand),
         UNCHANGED <<rowVars, profileVars, deployed, visible, cause>>,
         active' \in Steps \union {Source, None}, littered' \in BOOLEAN,
         deaths' \in 0..MaxDeaths
  PROVE  IInv'
<1> USE DEF IInv
<1>1. /\ pc' \in [Terminals -> Labels] /\ cmd' \in [Terminals -> Command]
      /\ pc'[t] = "idle"
      /\ \A u \in Terminals : u # t => pc'[u] = pc[u] /\ cmd'[u] = cmd[u]
  BY NoCommandType, GotoOnly DEF Labels
<1>2. TypeOK'
  BY <1>1 DEF TypeOK, rowVars, profileVars
<1>3. RowInv' /\ StepInv' /\ FolderInv'
  BY Begun, RowKeeps, StepsKeep, FolderKeeps DEF rowVars, profileVars
<1>4. ASSUME NEW u \in Terminals PROVE CommandInv(u)'
  <2>1. CASE u = t
    BY <1>1, <2>1 DEF CommandInv, Launching, Writing, Judging
  <2>2. CASE u # t
    BY <1>1, <2>2, OthersKeep DEF rowVars, profileVars
  <2>3. QED
    BY <2>1, <2>2
<1>5. QED
  BY <1>2, <1>3, <1>4 DEF Reliable, rowVars

LEMMA RestoreStep ==
  ASSUME IInv, NEW t \in Terminals, Restore(t)
  PROVE  IInv'
<1>1. pc[t] = "restore" /\ Goto(t, "idle", NoCommand)
  BY DEF Restore, Move, Goto
<1>2. active' \in Steps \union {Source, None} /\ littered' \in BOOLEAN
  BY ActivatedType DEF Restore, IInv, TypeOK
<1>3. UNCHANGED <<rowVars, profileVars, deployed, visible, cause, deaths>>
  BY DEF Restore
<1>4. QED
  BY <1>1, <1>2, <1>3, EndStep DEF IInv, TypeOK

LEMMA DieStep ==
  ASSUME IInv, NEW t \in Terminals, Die(t)
  PROVE  IInv'
<1>1. deaths' \in 0..MaxDeaths
  BY BisectAssumption DEF Die, IInv, TypeOK
<1>2. QED
  BY <1>1, EndStep DEF Die, IInv, TypeOK, gameVars

-----------------------------------------------------------------------------
(* The theorems.                                                           *)

LEMMA InitInv == Reliable /\ Init => IInv
<1> SUFFICES ASSUME Reliable, Init PROVE IInv
  OBVIOUS
<1>1. TypeOK
  <2>1. steps \in Seq(Step) /\ Len(steps) = 0
    BY DEF Init
  <2>2. cause \in SUBSET Mods /\ MaxSteps \in Nat /\ MaxDeaths \in Nat
    BY BisectAssumption DEF Init
  <2>3. SaveDir \in BOOLEAN
    BY BisectAssumption
  <2>4. /\ pc \in [Terminals -> Labels] /\ cmd \in [Terminals -> Command]
        /\ off \in [Steps -> SUBSET Mods]
    BY NoCommandType DEF Init, Labels
  <2>5. /\ session \in Session /\ oracle \in {"manual", "crash", "perf"}
        /\ active \in Steps \union {Source, None} /\ littered \in BOOLEAN
        /\ visible \in SUBSET Mods /\ candidates \in SUBSET Steps
    BY <2>3, NoCommandType DEF Init
  <2>6. QED
    BY <2>1, <2>2, <2>4, <2>5 DEF Init, TypeOK
<1>2. cause # {}
  BY BisectAssumption DEF Init
<1>3. RowInv
  BY DEF Init, RowInv, NoSession
<1>4. StepInv /\ FolderInv
  BY DEF Init, StepInv, FolderInv
<1>5. \A t \in Terminals : CommandInv(t)
  BY DEF Init, CommandInv, Launching, Writing, Judging
<1>6. QED
  BY <1>1, <1>2, <1>3, <1>4, <1>5 DEF IInv

LEMMA NextInv == IInv /\ [Next]_vars => IInv'
<1> SUFFICES ASSUME IInv, [Next]_vars PROVE IInv'
  OBVIOUS
<1>1. CASE UNCHANGED vars
  BY <1>1 DEF IInv, Reliable, TypeOK, RowInv, StepInv, FolderInv, CommandInv, Honest,
     vars, rowVars, profileVars, gameVars
<1>2. CASE Next
  <2>1. PICK t \in Terminals :
          \/ Start(t) \/ Run(t) \/ Retry(t) \/ Mark(t) \/ Abort(t) \/ Proceed(t) \/ Die(t)
    BY <1>2 DEF Next
  <2>2. CASE Start(t) \/ Run(t) \/ Retry(t) \/ Mark(t) \/ Abort(t) \/ Die(t)
    BY <2>2, StartStep, RunStep, RetryStep, MarkStep, AbortStep, DieStep
  <2>3. CASE Create(t) \/ Record(t) \/ Wait(t) \/ Activate(t) \/ Deploy(t) \/ Play(t)
    BY <2>3, CreateStep, RecordStep, WaitStep, ActivateStep, DeployStep, PlayStep
  <2>4. CASE \/ Load(t) \/ Complete(t) \/ Advance(t)
             \/ Cleanup(t) \/ Aborted(t) \/ Restore(t)
    BY <2>4, LoadStep, CompleteStep, AdvanceStep, CleanupStep, AbortedStep, RestoreStep
  <2>5. QED
    BY <2>1, <2>2, <2>3, <2>4 DEF Proceed
<1>3. QED
  BY <1>1, <1>2

\* The invariant holds of every state any sequence of bisect commands reaches.
THEOREM Invariance == Reliable /\ Spec => []IInv
<1>1. QED
  BY InitInv, NextInv, PTL DEF Spec

\* A session never loses the culprit (complete_and_advance, apply_result),
\* whatever commands die, retry, abort or pass their verdicts late.
THEOREM CulpritKept == Reliable /\ Spec => [](TypeOK /\ CauseIsSuspect)
<1>1. IInv => TypeOK /\ CauseIsSuspect
  BY DEF IInv, RowInv, Honest, CauseIsSuspect
<1>2. QED
  BY <1>1, Invariance, PTL

\* No mod of the cause is put down as known good (complete_and_advance).
THEOREM NoneClearedWrongly == Reliable /\ Spec => []KnownGoodIsGood
<1>1. IInv => KnownGoodIsGood
  BY DEF IInv, RowInv, Honest, KnownGoodIsGood, NoSession
<1>2. QED
  BY <1>1, Invariance, PTL

\* Only the end of a game and `mark` judge.
LEMMA JudgeStep ==
  ASSUME IInv, Next, NEW u \in Terminals, pc[u] # "load", pc'[u] = "load"
  PROVE  Play(u) \/ Mark(u)
<1> USE DEF IInv, TypeOK
<1>1. PICK t \in Terminals :
        \/ Start(t) \/ Run(t) \/ Retry(t) \/ Mark(t) \/ Abort(t) \/ Proceed(t) \/ Die(t)
  BY DEF Next
<1>2. \A label \in Labels : \A c : Goto(t, label, c) => label = "load" /\ u = t
  BY DEF Goto
<1>3. CASE Play(t) \/ Mark(t)
  <2>1. u = t
    BY <1>2, <1>3 DEF Play, Mark, Move, Labels
  <2>2. QED
    BY <1>3, <2>1
<1>4. CASE Start(t) \/ Run(t) \/ Retry(t) \/ Abort(t) \/ Die(t)
  BY <1>2, <1>4 DEF Start, Run, Retry, Abort, Die, Move, Labels
<1>5. CASE Create(t) \/ Record(t) \/ Wait(t) \/ Activate(t) \/ Deploy(t)
  BY <1>2, <1>5 DEF Create, Record, Wait, Activate, Deploy, Move, Labels
<1>6. CASE Load(t) \/ Complete(t) \/ Advance(t) \/ Cleanup(t) \/ Aborted(t) \/ Restore(t)
  BY <1>2, <1>6 DEF Load, Complete, Advance, Cleanup, Aborted, Restore, Move, Labels
<1>7. QED
  BY <1>1, <1>3, <1>4, <1>5, <1>6 DEF Proceed

\* A verdict is on what the candidate of its step enables (run, mark).
THEOREM VerdictsOnCandidates == Reliable /\ Spec => JudgedIsCandidate
<1> DEFINE Judged == \A t \in Terminals : pc[t] # "load" /\ pc'[t] = "load" =>
                         visible = Mods \ steps[cmd'[t].at].disabled
<1>1. ASSUME IInv, Next PROVE Judged
  <2> SUFFICES ASSUME NEW t \in Terminals, pc[t] # "load", pc'[t] = "load"
               PROVE  visible = Mods \ steps[cmd'[t].at].disabled
    OBVIOUS
  <2>1. CASE Play(t)
    <3>1. cmd[t].at \in 1..Len(steps) /\ deployed = cmd[t].at
      BY <1>1, <2>1 DEF Play, Move, IInv, CommandInv
    <3>2. cmd'[t].at = cmd[t].at
      BY <1>1, <2>1 DEF Play, Move, Goto, IInv, TypeOK, Command
    <3>3. QED
      BY <1>1, <3>1, <3>2, HonestOutcome
  <2>2. CASE Mark(t)
    <3>1. session.step \in 1..Len(steps) /\ deployed = session.step
      BY <1>1, <2>2 DEF Mark, IInv, RowInv, TypeOK, Session
    <3>2. cmd'[t].at = session.step
      BY <1>1, <2>2 DEF Mark, Move, Goto, IInv, TypeOK, NoCommand
    <3>3. QED
      BY <1>1, <3>1, <3>2, HonestOutcome
  <2>3. QED
    BY <1>1, <2>1, <2>2, JudgeStep
<1>2. IInv /\ [Next]_vars => [Judged]_vars
  BY <1>1
<1>3. QED
  BY <1>2, Invariance, PTL DEF Spec, JudgedIsCandidate

-----------------------------------------------------------------------------
(* Any terminals: what each statement does, and the types.                 *)

\* A command is about a step that is recorded, or about to be.
AtOf(n, label, at) ==
    /\ label \in {"create", "record"} => at \in Steps /\ at <= n + 1
    /\ label \in {"wait", "activate", "deploy", "play"} \union Judging => at \in 1..n

TypeInv ==
    /\ TypeOK
    /\ session.step <= Len(steps)
    /\ \A t \in Terminals : AtOf(Len(steps), pc[t], cmd[t].at)

\* What a state has, taken apart.
LEMMA TypeParts ==
  ASSUME TypeInv, NEW t \in Terminals
  PROVE  /\ session \in Session /\ session.step \in Nat /\ session.suspects \in SUBSET Mods
         /\ steps \in Seq(Step) /\ Len(steps) \in Nat /\ Len(steps) <= MaxSteps
         /\ MaxSteps \in Nat /\ session.step \in 0..MaxSteps
         /\ pc[t] \in Labels /\ cmd[t] \in Command /\ cmd[t].read \in Session
         /\ cmd[t].at \in 0..MaxSteps /\ cmd[t].plan \in SUBSET Mods
         /\ cmd[t].read.suspects \in SUBSET Mods /\ cmd[t].verdict \in Verdicts
         /\ cmd[t].todo \in SUBSET Steps
         /\ AtOf(Len(steps), pc[t], cmd[t].at)
  BY BisectAssumption DEF TypeInv, TypeOK, Session, Command

\* The command in t goes from a label to the next, with locals c; at "idle" it
\* has none.
Goes(t, label, c) ==
    /\ pc' \in [Terminals -> Labels] /\ cmd' \in [Terminals -> Command]
    /\ pc'[t] = label /\ cmd'[t] = c
    /\ \A u \in Terminals : u # t => pc'[u] = pc[u] /\ cmd'[u] = cmd[u]

LEMMA GotoGoes ==
  ASSUME TypeInv, NEW t \in Terminals, NEW label \in Labels, NEW c \in Command,
         Goto(t, label, c)
  PROVE  Goes(t, label, IF label = "idle" THEN NoCommand ELSE c)
  BY NoCommandType DEF TypeInv, TypeOK, Goto, Goes

\* The types of all but the commands.
RestTyped ==
    /\ session \in Session /\ session.step <= Len(steps)
    /\ oracle \in {"manual", "crash", "perf"}
    /\ steps \in Seq(Step) /\ Len(steps) <= MaxSteps
    /\ candidates \in SUBSET Steps /\ off \in [Steps -> SUBSET Mods]
    /\ active \in Steps \union {Source, None} /\ littered \in BOOLEAN
    /\ deployed \in 0..MaxSteps /\ visible \in SUBSET Mods
    /\ cause \in SUBSET Mods /\ deaths \in 0..MaxDeaths

LEMMA RestParts == TypeInv => RestTyped
  BY DEF TypeInv, TypeOK, RestTyped

LEMMA RestKeeps ==
  ASSUME RestTyped, UNCHANGED <<rowVars, profileVars, gameVars, cause, deaths>>
  PROVE  RestTyped'
  BY DEF RestTyped, rowVars, profileVars, gameVars

\* A step that keeps the types of the rest, forgets no step and leaves its
\* command about a step there is.
LEMMA TypeGoes ==
  ASSUME TypeInv, NEW t \in Terminals, NEW label, NEW c, Goes(t, label, c),
         RestTyped', Len(steps') >= Len(steps), AtOf(Len(steps'), label, c.at)
  PROVE  TypeInv'
<1>1. TypeOK' /\ session'.step <= Len(steps')
  BY DEF RestTyped, TypeOK, Goes
<1>2. Len(steps) \in Nat /\ Len(steps') \in Nat
  BY <1>1 DEF TypeInv, TypeOK
<1>3. ASSUME NEW u \in Terminals PROVE AtOf(Len(steps)', pc'[u], cmd'[u].at)
  <2>1. CASE u = t
    BY <2>1 DEF Goes
  <2>2. CASE u # t
    <3>1. AtOf(Len(steps), pc[u], cmd[u].at) /\ cmd[u].at \in 0..MaxSteps
      BY TypeParts
    <3>2. AtOf(Len(steps'), pc[u], cmd[u].at)
      BY <1>2, <3>1, BisectAssumption DEF AtOf, Steps
    <3>3. QED
      BY <2>2, <3>2 DEF Goes
  <2>3. QED
    BY <2>1, <2>2
<1>4. QED
  BY <1>1, <1>3 DEF TypeInv

LEMMA RunDoes ==
  ASSUME TypeInv, NEW t \in Terminals, Run(t)
  PROVE  \E c \in Command :
           /\ pc[t] = "idle" /\ Goes(t, "create", c)
           /\ c.at = Len(steps) + 1 /\ c.at \in Steps /\ c.read = session
           /\ c.plan = Enabled(session.suspects) /\ c.todo = {}
           /\ session.status = "active" /\ session.step = 0
           /\ UNCHANGED <<rowVars, profileVars, gameVars, cause, deaths>>
<1> DEFINE c == [NoCommand EXCEPT !.at = Len(steps) + 1, !.read = session,
                                  !.plan = Enabled(session.suspects),
                                  !.auto = (oracle # "manual")]
<1>1. Enabled(session.suspects) \in SUBSET Mods
  BY TypeParts DEF Enabled
<1>2. Len(steps) + 1 \in 0..MaxSteps /\ Len(steps) + 1 \in Steps
  BY TypeParts DEF Run, Steps
<1>3. /\ c \in Command /\ c.at = Len(steps) + 1 /\ c.read = session /\ c.todo = {}
      /\ c.plan = Enabled(session.suspects)
  BY <1>1, <1>2, NoCommandType, TypeParts DEF Command, NoCommand
<1>4. pc[t] = "idle" /\ Goto(t, "create", c)
  BY DEF Run, Move
<1> HIDE DEF c
<1>5. Goes(t, "create", c)
  BY <1>3, <1>4, GotoGoes DEF Labels
<1>6. QED
  BY <1>2, <1>3, <1>4, <1>5 DEF Run

LEMMA CreateDoes ==
  ASSUME TypeInv, NEW t \in Terminals, Create(t)
  PROVE  /\ pc[t] = "create"
         /\ \/ Goes(t, "idle", NoCommand) /\ UNCHANGED profileVars
            \/ /\ cmd[t].at \notin candidates
               /\ \/ Goes(t, "record", cmd[t])
                  \/ /\ Goes(t, "idle", NoCommand)
                     /\ ~ForceSaveRisk
                     /\ (cmd[t].read.suspects \ cmd[t].plan) \cap SaveMods # {}
               /\ candidates' = candidates \union {cmd[t].at}
               /\ off' = [off EXCEPT ![cmd[t].at] = cmd[t].read.suspects \ cmd[t].plan]
         /\ UNCHANGED <<rowVars, gameVars, cause, deaths>>
<1>1. cmd[t] \in Command
  BY TypeParts
<1>2. /\ Goto(t, "idle", cmd[t]) => Goes(t, "idle", NoCommand)
      /\ Goto(t, "record", cmd[t]) => Goes(t, "record", cmd[t])
  BY <1>1, GotoGoes DEF Labels
<1>3. QED
  BY <1>2 DEF Create, Move

LEMMA RecordDoes ==
  ASSUME TypeInv, NEW t \in Terminals, Record(t)
  PROVE  \E step \in Step :
           /\ pc[t] = "record"
           /\ step.enabled = cmd[t].plan /\ step.disabled = cmd[t].read.suspects \ cmd[t].plan
           /\ \/ /\ cmd[t].at <= Len(steps)
                 /\ Goes(t, "idle", NoCommand) /\ UNCHANGED steps
              \/ /\ cmd[t].at = Len(steps) + 1 /\ cmd[t].at \in Steps
                 /\ Goes(t, "wait", cmd[t])
                 /\ steps' \in Seq(Step) /\ Len(steps') = Len(steps) + 1
                 /\ steps'[Len(steps) + 1] = step
                 /\ \A k \in 1..Len(steps) : steps'[k] = steps[k]
           /\ UNCHANGED <<session, oracle, profileVars, gameVars, cause, deaths>>
<1> DEFINE step == [enabled |-> cmd[t].plan, disabled |-> cmd[t].read.suspects \ cmd[t].plan,
                    result |-> "pending"]
<1>1. /\ step \in Step /\ step.enabled = cmd[t].plan
      /\ step.disabled = cmd[t].read.suspects \ cmd[t].plan
  BY TypeParts DEF Step
<1>2. pc[t] = "record" /\ cmd[t].at \in Steps /\ cmd[t].at <= Len(steps) + 1
  BY TypeParts DEF Record, Move, AtOf
<1>3. \/ cmd[t].at <= Len(steps) /\ Goto(t, "idle", cmd[t]) /\ UNCHANGED steps
      \/ /\ ~(cmd[t].at <= Len(steps))
         /\ Goto(t, "wait", cmd[t]) /\ steps' = Append(steps, step)
  BY DEF Record, Move
<1> HIDE DEF step
<1>4. cmd[t] \in Command
  BY TypeParts
<1>5. /\ Goto(t, "idle", cmd[t]) => Goes(t, "idle", NoCommand)
      /\ Goto(t, "wait", cmd[t]) => Goes(t, "wait", cmd[t])
  BY <1>4, GotoGoes DEF Labels
<1>6. ~(cmd[t].at <= Len(steps)) => cmd[t].at = Len(steps) + 1
  BY <1>2, TypeParts DEF Steps
<1>7. steps' = Append(steps, step) =>
        /\ steps' \in Seq(Step) /\ Len(steps') = Len(steps) + 1
        /\ steps'[Len(steps) + 1] = step
        /\ \A k \in 1..Len(steps) : steps'[k] = steps[k]
  BY <1>1, TypeParts
<1>8. QED
  BY <1>1, <1>2, <1>3, <1>5, <1>6, <1>7 DEF Record

LEMMA WaitDoes ==
  ASSUME TypeInv, NEW t \in Terminals, Wait(t)
  PROVE  /\ pc[t] = "wait"
         /\ Goes(t, "play", cmd[t]) \/ Goes(t, "activate", cmd[t])
         /\ cmd[t].at \in 1..Len(steps)
         /\ session' \in Session
         /\ session'.status = "waiting" /\ session'.step = cmd[t].at
         /\ session'.suspects = cmd[t].read.suspects
         /\ UNCHANGED <<oracle, steps, profileVars, gameVars, cause, deaths>>
<1>1. cmd[t] \in Command /\ cmd[t].read \in Session /\ cmd[t].at \in 0..MaxSteps
  BY TypeParts
<1>2. /\ Goto(t, "play", cmd[t]) => Goes(t, "play", cmd[t])
      /\ Goto(t, "activate", cmd[t]) => Goes(t, "activate", cmd[t])
  BY <1>1, GotoGoes DEF Labels
<1>3. pc[t] = "wait" /\ cmd[t].at \in 1..Len(steps)
  BY TypeParts DEF Wait, Move, AtOf
<1>4. /\ session' \in Session
      /\ session'.status = "waiting" /\ session'.step = cmd[t].at
      /\ session'.suspects = cmd[t].read.suspects
  BY <1>1 DEF Wait, Session, Statuses
<1>5. QED
  BY <1>2, <1>3, <1>4 DEF Wait, Move

LEMMA RetryDoes ==
  ASSUME TypeInv, NEW t \in Terminals, Retry(t)
  PROVE  \E c \in Command :
           /\ pc[t] = "idle" /\ Goes(t, "activate", c)
           /\ c.at = session.step /\ session.step \in 1..Len(steps) /\ c.todo = {}
           /\ session.status = "waiting"
           /\ UNCHANGED <<rowVars, profileVars, gameVars, cause, deaths>>
<1> DEFINE c == [NoCommand EXCEPT !.at = session.step]
<1>1. session.step \in 1..Len(steps) /\ session.step \in 0..MaxSteps
  BY TypeParts DEF Retry, TypeInv
<1>2. c \in Command /\ c.at = session.step /\ c.todo = {}
  BY <1>1, NoCommandType DEF Command, NoCommand
<1>3. pc[t] = "idle" /\ Goto(t, "activate", c)
  BY DEF Retry, Move
<1> HIDE DEF c
<1>4. Goes(t, "activate", c)
  BY <1>2, <1>3, GotoGoes DEF Labels
<1>5. QED
  BY <1>1, <1>2, <1>3, <1>4 DEF Retry

LEMMA ActivateDoes ==
  ASSUME TypeInv, NEW t \in Terminals, Activate(t)
  PROVE  /\ pc[t] = "activate" /\ cmd[t].at \in 1..Len(steps)
         /\ \/ Goes(t, "idle", NoCommand) /\ UNCHANGED <<active, littered>>
            \/ /\ Goes(t, "deploy", cmd[t])
               /\ cmd[t].at \in candidates /\ Activated(cmd[t].at)
         /\ UNCHANGED <<rowVars, profileVars, deployed, visible, cause, deaths>>
<1>1. cmd[t] \in Command
  BY TypeParts
<1>2. /\ Goto(t, "idle", cmd[t]) => Goes(t, "idle", NoCommand)
      /\ Goto(t, "deploy", cmd[t]) => Goes(t, "deploy", cmd[t])
  BY <1>1, GotoGoes DEF Labels
<1>3. pc[t] = "activate" /\ cmd[t].at \in 1..Len(steps)
  BY TypeParts DEF Activate, Move, AtOf
<1>4. QED
  BY <1>2, <1>3 DEF Activate, Move

LEMMA DeployDoes ==
  ASSUME TypeInv, NEW t \in Terminals, Deploy(t)
  PROVE  /\ pc[t] = "deploy" /\ cmd[t].at \in 1..Len(steps)
         /\ \/ Goes(t, "idle", NoCommand) /\ UNCHANGED <<deployed, visible>>
            \/ /\ Goes(t, "play", cmd[t])
               /\ deployed' = cmd[t].at /\ visible' \in SUBSET Mods
         /\ UNCHANGED <<rowVars, profileVars, active, littered, cause, deaths>>
<1>1. cmd[t] \in Command
  BY TypeParts
<1>2. /\ Goto(t, "idle", cmd[t]) => Goes(t, "idle", NoCommand)
      /\ Goto(t, "play", cmd[t]) => Goes(t, "play", cmd[t])
  BY <1>1, GotoGoes DEF Labels
<1>3. pc[t] = "deploy" /\ cmd[t].at \in 1..Len(steps)
  BY TypeParts DEF Deploy, Move, AtOf
<1>4. visible \in SUBSET Mods
  BY DEF TypeInv, TypeOK
<1>5. QED
  BY <1>2, <1>3, <1>4 DEF Deploy, Move

LEMMA PlayDoes ==
  ASSUME TypeInv, NEW t \in Terminals, Play(t)
  PROVE  \E c \in Command :
           /\ pc[t] = "play" /\ cmd[t].at \in 1..Len(steps)
           /\ Goes(t, "idle", NoCommand) \/ Goes(t, "load", c)
           /\ c.at = cmd[t].at /\ c.todo = cmd[t].todo
           /\ littered' \in {littered, SaveDir}
           /\ UNCHANGED <<rowVars, profileVars, active, deployed, visible, cause, deaths>>
<1> DEFINE c == [cmd[t] EXCEPT !.verdict = Outcome]
<1>1. cmd[t] \in Command
  BY TypeParts
<1>2. c \in Command /\ c.at = cmd[t].at /\ c.todo = cmd[t].todo
  BY <1>1 DEF Command, Outcome, Verdicts
<1>3. pc[t] = "play" /\ (Goto(t, "idle", cmd[t]) \/ Goto(t, "load", c))
  BY DEF Play, Move
<1> HIDE DEF c
<1>4. Goes(t, "idle", NoCommand) \/ Goes(t, "load", c)
  BY <1>1, <1>2, <1>3, GotoGoes DEF Labels
<1>5. cmd[t].at \in 1..Len(steps)
  BY <1>3, TypeParts DEF AtOf
<1>6. QED
  BY <1>2, <1>3, <1>4, <1>5 DEF Play

LEMMA MarkDoes ==
  ASSUME TypeInv, NEW t \in Terminals, Mark(t)
  PROVE  \E c \in Command :
           /\ pc[t] = "idle" /\ Goes(t, "load", c)
           /\ c.at = session.step /\ session.step \in 1..Len(steps) /\ c.todo = {}
           /\ UNCHANGED <<rowVars, profileVars, gameVars, cause, deaths>>
<1> DEFINE c == [NoCommand EXCEPT !.at = session.step, !.verdict = Outcome]
<1>1. session.step \in 1..Len(steps) /\ session.step \in 0..MaxSteps
  BY TypeParts DEF Mark, TypeInv
<1>2. c \in Command /\ c.at = session.step /\ c.todo = {}
  <2>1. Outcome \in Verdicts
    BY DEF Outcome, Verdicts
  <2>2. QED
    BY <1>1, <2>1, NoCommandType DEF Command, NoCommand
<1>3. pc[t] = "idle" /\ Goto(t, "load", c)
  BY DEF Mark, Move
<1> HIDE DEF c
<1>4. Goes(t, "load", c)
  BY <1>2, <1>3, GotoGoes DEF Labels
<1>5. QED
  BY <1>1, <1>2, <1>3, <1>4 DEF Mark

LEMMA LoadDoes ==
  ASSUME TypeInv, NEW t \in Terminals, Load(t)
  PROVE  \E c \in Command :
           /\ pc[t] = "load" /\ Goes(t, "complete", c)
           /\ c.at = cmd[t].at /\ cmd[t].at \in 1..Len(steps)
           /\ c.read = session /\ c.todo = cmd[t].todo
           /\ UNCHANGED <<rowVars, profileVars, gameVars, cause, deaths>>
<1> DEFINE c == [cmd[t] EXCEPT !.read = session]
<1>1. c \in Command /\ c.at = cmd[t].at /\ c.read = session /\ c.todo = cmd[t].todo
  BY TypeParts DEF Command
<1>2. pc[t] = "load" /\ Goto(t, "complete", c)
  BY DEF Load, Move
<1> HIDE DEF c
<1>3. Goes(t, "complete", c)
  BY <1>1, <1>2, GotoGoes DEF Labels
<1>4. cmd[t].at \in 1..Len(steps)
  BY <1>2, TypeParts DEF AtOf, Judging
<1>5. QED
  BY <1>1, <1>2, <1>3, <1>4 DEF Load

\* Recording a verdict changes no step but in its result.
LEMMA CompleteDoes ==
  ASSUME TypeInv, NEW t \in Terminals, Complete(t)
  PROVE  /\ pc[t] = "complete" /\ Goes(t, "advance", cmd[t])
         /\ cmd[t].at \in 1..Len(steps)
         /\ steps' \in Seq(Step) /\ Len(steps') = Len(steps)
         /\ \A k \in 1..Len(steps) : /\ steps'[k].enabled = steps[k].enabled
                                     /\ steps'[k].disabled = steps[k].disabled
         /\ UNCHANGED <<session, oracle, profileVars, gameVars, cause, deaths>>
<1> DEFINE at == cmd[t].at
           step == [steps[at] EXCEPT !.result = cmd[t].verdict]
<1>1. cmd[t] \in Command /\ cmd[t].verdict \in Verdicts /\ steps \in Seq(Step)
  BY TypeParts
<1>2. pc[t] = "complete" /\ Goto(t, "advance", cmd[t]) /\ at \in 1..Len(steps)
  BY TypeParts DEF Complete, Move, AtOf, Judging
<1>3. Goes(t, "advance", cmd[t])
  BY <1>1, <1>2, GotoGoes DEF Labels
<1>4. steps[at] \in Step
  BY <1>1, <1>2
<1>5. step \in Step /\ step.enabled = steps[at].enabled /\ step.disabled = steps[at].disabled
  BY <1>1, <1>4 DEF Step
<1>6. steps' = [steps EXCEPT ![at] = step]
  BY DEF Complete
<1> HIDE DEF step
<1>7. steps' \in Seq(Step) /\ Len(steps') = Len(steps)
  BY <1>1, <1>2, <1>5, <1>6
<1>8. \A k \in 1..Len(steps) : steps'[k] = IF k = at THEN step ELSE steps[k]
  BY <1>1, <1>2, <1>6
<1>9. QED
  BY <1>2, <1>3, <1>5, <1>7, <1>8 DEF Complete

LEMMA ToDeleteType ==
  ASSUME TypeInv
  PROVE  ToDelete \in SUBSET Steps
  BY BisectAssumption DEF ToDelete, Steps, TypeInv, TypeOK

LEMMA AdvanceDoes ==
  ASSUME TypeInv, NEW t \in Terminals, Advance(t)
  PROVE  \E c \in Command, S \in SUBSET Mods :
           /\ pc[t] = "advance" /\ cmd[t].at \in 1..Len(steps)
           /\ S \in {steps[cmd[t].at].enabled, steps[cmd[t].at].disabled}
           /\ session' \in Session
           /\ session'.suspects = S /\ session'.step = 0
           /\ \/ /\ session'.status = "active" /\ S # {} /\ Cardinality(S) # 1
                 /\ Goes(t, "idle", NoCommand)
              \/ session'.status \in {"inconclusive", "complete"} /\ Goes(t, "cleanup", c)
           /\ c.todo = ToDelete
           /\ UNCHANGED <<oracle, steps, profileVars, gameVars, cause, deaths>>
<1> DEFINE c == [cmd[t] EXCEPT !.todo = ToDelete]
           step == steps[cmd[t].at]
           S == Narrowed(step, cmd[t].verdict)
           status == CASE S = {}             -> "inconclusive"
                       [] Cardinality(S) = 1 -> "complete"
                       [] OTHER              -> "active"
           good == cmd[t].read.good \union
                   (IF cmd[t].verdict = "bad" THEN step.disabled ELSE {})
           bad == cmd[t].read.bad \union
                  (IF cmd[t].verdict = "good" THEN step.disabled ELSE {})
<1>1. pc[t] = "advance" /\ cmd[t].at \in 1..Len(steps)
  BY TypeParts DEF Advance, Move, AtOf, Judging
<1>2. step \in Step /\ step.enabled \in SUBSET Mods /\ step.disabled \in SUBSET Mods
  <2>1. steps \in Seq(Step)
    BY TypeParts
  <2>2. step \in Step
    BY <1>1, <2>1
  <2>3. QED
    BY <2>2 DEF Step
<1>3. c \in Command /\ c.todo = ToDelete
  BY TypeParts, ToDeleteType DEF Command
<1>4. /\ Move(t, "advance", IF status = "active" THEN "idle" ELSE "cleanup", c)
      /\ session' = [status |-> status, suspects |-> S, step |-> 0,
                     good |-> good, bad |-> bad]
      /\ UNCHANGED <<oracle, steps, profileVars, gameVars, cause, deaths>>
  BY Zenon DEF Advance
<1>5. S \in {step.enabled, step.disabled} /\ S \in SUBSET Mods
  BY <1>2 DEF Narrowed
<1>6. good \in SUBSET Mods /\ bad \in SUBSET Mods
  BY <1>2, TypeParts DEF Session
<1>7. /\ status \in {"inconclusive", "complete", "active"}
      /\ status = "active" => S # {} /\ Cardinality(S) # 1
  OBVIOUS
<1> HIDE DEF status, S, good, bad, c, step
<1>8. /\ session' \in Session /\ session'.status = status
      /\ session'.suspects = S /\ session'.step = 0
  BY <1>4, <1>5, <1>6, <1>7, BisectAssumption DEF Session, Statuses
<1>9. /\ status = "active" => Goes(t, "idle", NoCommand)
      /\ status # "active" => Goes(t, "cleanup", c)
  BY <1>3, <1>4, GotoGoes DEF Labels, Move
<1>10. QED
  BY <1>1, <1>3, <1>4, <1>5, <1>7, <1>8, <1>9 DEF step

LEMMA CleanupDoes ==
  ASSUME TypeInv, NEW t \in Terminals, Cleanup(t)
  PROVE  \E c \in Command :
           /\ pc[t] \in {"cleanup", "abclean"}
           /\ c.at = cmd[t].at /\ c.read = cmd[t].read
           /\ \/ \E k \in cmd[t].todo :
                   /\ Goes(t, pc[t], c) /\ c.todo = cmd[t].todo \ {k}
                   /\ candidates' = candidates \ {k}
                   /\ active' = IF active = k THEN None ELSE active
              \/ /\ cmd[t].todo = {} /\ c.todo = {}
                 /\ Goes(t, IF pc[t] = "cleanup" THEN "restore" ELSE "abort", c)
                 /\ UNCHANGED <<candidates, active>>
           /\ UNCHANGED <<rowVars, off, littered, deployed, visible, cause, deaths>>
<1>1. /\ pc[t] \in {"cleanup", "abclean"}
      /\ UNCHANGED <<rowVars, off, littered, deployed, visible, cause, deaths>>
  BY DEF Cleanup
<1>2. cmd[t] \in Command /\ cmd[t].todo \in SUBSET Steps
  BY TypeParts
<1>3. CASE \E k \in cmd[t].todo :
             /\ Goto(t, pc[t], [cmd[t] EXCEPT !.todo = @ \ {k}])
             /\ candidates' = candidates \ {k}
             /\ active' = IF active = k THEN None ELSE active
  <2>1. PICK k \in cmd[t].todo :
             /\ Goto(t, pc[t], [cmd[t] EXCEPT !.todo = @ \ {k}])
             /\ candidates' = candidates \ {k}
             /\ active' = IF active = k THEN None ELSE active
    BY <1>3
  <2> DEFINE c == [cmd[t] EXCEPT !.todo = @ \ {k}]
  <2>2. /\ c \in Command /\ c.todo = cmd[t].todo \ {k}
        /\ c.at = cmd[t].at /\ c.read = cmd[t].read
    BY <1>2 DEF Command
  <2>3. Goto(t, pc[t], c)
    BY <2>1
  <2> HIDE DEF c
  <2>4. Goes(t, pc[t], c)
    BY <1>1, <2>2, <2>3, GotoGoes DEF Labels
  <2>5. QED
    BY <1>1, <2>1, <2>2, <2>4
<1>4. CASE /\ cmd[t].todo = {} /\ UNCHANGED <<candidates, active>>
           /\ Goto(t, IF pc[t] = "cleanup" THEN "restore" ELSE "abort", cmd[t])
  <2>1. Goes(t, IF pc[t] = "cleanup" THEN "restore" ELSE "abort", cmd[t])
    BY <1>2, <1>4, GotoGoes DEF Labels
  <2>2. QED
    BY <1>1, <1>2, <1>4, <2>1
<1>5. QED
  BY <1>3, <1>4 DEF Cleanup

LEMMA AbortDoes ==
  ASSUME TypeInv, NEW t \in Terminals, Abort(t)
  PROVE  \E c \in Command :
           /\ pc[t] = "idle" /\ Goes(t, "abclean", c)
           /\ c.read = session /\ c.todo = ToDelete /\ session.status # "none"
           /\ UNCHANGED <<rowVars, profileVars, gameVars, cause, deaths>>
<1> DEFINE c == [NoCommand EXCEPT !.read = session, !.todo = ToDelete]
<1>1. c \in Command /\ c.read = session /\ c.todo = ToDelete
  BY NoCommandType, ToDeleteType, TypeParts DEF Command, NoCommand
<1>2. pc[t] = "idle" /\ Goto(t, "abclean", c)
  BY DEF Abort, Move
<1> HIDE DEF c
<1>3. Goes(t, "abclean", c)
  BY <1>1, <1>2, GotoGoes DEF Labels
<1>4. QED
  BY <1>1, <1>2, <1>3 DEF Abort

LEMMA AbortedDoes ==
  ASSUME TypeInv, NEW t \in Terminals, Aborted(t)
  PROVE  /\ pc[t] = "abort" /\ Goes(t, "restore", cmd[t])
         /\ session' \in Session
         /\ session'.status = "aborted" /\ session'.step = 0
         /\ UNCHANGED <<oracle, steps, profileVars, gameVars, cause, deaths>>
<1>1. cmd[t] \in Command /\ cmd[t].read \in Session
  BY TypeParts
<1>2. Goes(t, "restore", cmd[t])
  BY <1>1, GotoGoes DEF Aborted, Move, Labels
<1>3. session' \in Session /\ session'.status = "aborted" /\ session'.step = 0
  <2>1. 0 \in 0..MaxSteps
    BY BisectAssumption
  <2>2. session' = [cmd[t].read EXCEPT !.status = "aborted", !.step = 0]
    BY DEF Aborted
  <2>3. QED
    BY <1>1, <2>1, <2>2 DEF Session, Statuses
<1>4. QED
  BY <1>2, <1>3 DEF Aborted, Move

LEMMA RestoreDoes ==
  ASSUME TypeInv, NEW t \in Terminals, Restore(t)
  PROVE  /\ pc[t] = "restore" /\ Goes(t, "idle", NoCommand)
         /\ \/ Unadopted /\ UNCHANGED <<active, littered>>
            \/ Activated(Source)
         /\ UNCHANGED <<rowVars, profileVars, deployed, visible, cause, deaths>>
<1>1. cmd[t] \in Command
  BY TypeParts
<1>2. Goes(t, "idle", NoCommand)
  BY <1>1, GotoGoes DEF Restore, Move, Labels
<1>3. QED
  BY <1>2 DEF Restore, Move

LEMMA DieDoes ==
  ASSUME TypeInv, NEW t \in Terminals, Die(t)
  PROVE  /\ pc[t] # "idle" /\ Goes(t, "idle", NoCommand)
         /\ deaths < MaxDeaths /\ deaths' = deaths + 1 /\ deaths' \in 0..MaxDeaths
         /\ UNCHANGED <<rowVars, profileVars, gameVars, cause>>
<1>1. Goes(t, "idle", NoCommand)
  BY NoCommandType, GotoGoes DEF Die, Labels
<1>2. deaths \in 0..MaxDeaths /\ MaxDeaths \in Nat
  BY BisectAssumption DEF TypeInv, TypeOK
<1>3. QED
  BY <1>1, <1>2 DEF Die

LEMMA TypeStart ==
  ASSUME TypeInv, NEW t \in Terminals, Start(t)
  PROVE  TypeInv'
<1>1. session' \in Session /\ session'.step = 0
  BY BisectAssumption, NoCommandType DEF Start, Session, NoSession, Statuses
<1>2. TypeOK'
  BY <1>1, BisectAssumption DEF TypeInv, TypeOK, Start, profileVars, gameVars
<1>3. QED
  BY <1>1, <1>2, TypeParts DEF TypeInv, Start

\* A command that is over is about nothing; nor is one that deletes.
LEMMA AtIdle ==
  ASSUME NEW n
  PROVE  /\ AtOf(n, "idle", NoCommand.at)
         /\ \A label \in {"cleanup", "abclean", "abort", "restore"} : \A at :
                AtOf(n, label, at)
  BY DEF AtOf, Judging

\* A command that goes on about a step there is, without touching the rest.
LEMMA TypeQuiet ==
  ASSUME TypeInv, NEW t \in Terminals, NEW label, NEW c, Goes(t, label, c),
         AtOf(Len(steps), label, c.at),
         UNCHANGED <<rowVars, profileVars, gameVars, cause, deaths>>
  PROVE  TypeInv'
<1>1. RestTyped' /\ Len(steps') >= Len(steps) /\ Len(steps') = Len(steps)
  BY RestParts, RestKeeps, TypeParts DEF rowVars
<1>2. QED
  BY <1>1, TypeGoes

LEMMA TypeRun ==
  ASSUME TypeInv, NEW t \in Terminals, Run(t)
  PROVE  TypeInv'
<1>1. PICK c \in Command :
        /\ Goes(t, "create", c) /\ c.at = Len(steps) + 1 /\ c.at \in Steps
        /\ UNCHANGED <<rowVars, profileVars, gameVars, cause, deaths>>
  BY RunDoes
<1>2. AtOf(Len(steps), "create", c.at)
  BY <1>1, TypeParts DEF AtOf, Judging
<1>3. QED
  BY <1>1, <1>2, TypeQuiet

LEMMA TypeCreate ==
  ASSUME TypeInv, NEW t \in Terminals, Create(t)
  PROVE  TypeInv'
<1>1. cmd[t].at \in Steps /\ cmd[t].at <= Len(steps) + 1
  BY CreateDoes, TypeParts DEF AtOf
<1>2. AtOf(Len(steps), "record", cmd[t].at)
  BY <1>1 DEF AtOf, Judging
<1>3. /\ UNCHANGED <<rowVars, gameVars, cause, deaths>>
      /\ Goes(t, "idle", NoCommand) \/ Goes(t, "record", cmd[t])
  BY CreateDoes
<1>4. candidates' \in SUBSET Steps /\ off' \in [Steps -> SUBSET Mods]
  BY <1>1, CreateDoes, TypeParts DEF TypeInv, TypeOK, profileVars
<1>5. RestTyped' /\ Len(steps') >= Len(steps) /\ Len(steps') = Len(steps)
  BY <1>3, <1>4, RestParts, TypeParts DEF RestTyped, rowVars, gameVars
<1>6. QED
  BY <1>2, <1>3, <1>5, AtIdle, TypeGoes

LEMMA TypeRecord ==
  ASSUME TypeInv, NEW t \in Terminals, Record(t)
  PROVE  TypeInv'
<1>1. UNCHANGED <<session, oracle, profileVars, gameVars, cause, deaths>>
  BY RecordDoes
<1>2. \/ Goes(t, "idle", NoCommand) /\ UNCHANGED steps
      \/ /\ cmd[t].at = Len(steps) + 1 /\ cmd[t].at \in Steps
         /\ Goes(t, "wait", cmd[t])
         /\ steps' \in Seq(Step) /\ Len(steps') = Len(steps) + 1
  BY RecordDoes
<1>3. CASE Goes(t, "idle", NoCommand) /\ UNCHANGED steps
  BY <1>1, <1>3, AtIdle, TypeQuiet DEF rowVars
<1>4. CASE /\ cmd[t].at = Len(steps) + 1 /\ cmd[t].at \in Steps
           /\ Goes(t, "wait", cmd[t])
           /\ steps' \in Seq(Step) /\ Len(steps') = Len(steps) + 1
  <2>1. AtOf(Len(steps'), "wait", cmd[t].at)
    BY <1>4, TypeParts DEF AtOf, Judging
  <2>2. /\ Len(steps') <= MaxSteps /\ Len(steps') >= Len(steps)
        /\ session'.step <= Len(steps')
    BY <1>1, <1>4, TypeParts, BisectAssumption DEF Steps, TypeInv
  <2>3. RestTyped'
    BY <1>1, <1>4, <2>2, RestParts DEF RestTyped, profileVars, gameVars
  <2>4. QED
    BY <1>4, <2>1, <2>2, <2>3, TypeGoes
<1>5. QED
  BY <1>2, <1>3, <1>4

LEMMA TypeWait ==
  ASSUME TypeInv, NEW t \in Terminals, Wait(t)
  PROVE  TypeInv'
<1>1. /\ Goes(t, "play", cmd[t]) \/ Goes(t, "activate", cmd[t])
      /\ cmd[t].at \in 1..Len(steps)
      /\ session' \in Session /\ session'.step = cmd[t].at
      /\ UNCHANGED <<oracle, steps, profileVars, gameVars, cause, deaths>>
  BY WaitDoes
<1>2. AtOf(Len(steps), "play", cmd[t].at) /\ AtOf(Len(steps), "activate", cmd[t].at)
  BY <1>1 DEF AtOf, Judging
<1>3. RestTyped' /\ Len(steps') >= Len(steps) /\ Len(steps') = Len(steps)
  BY <1>1, RestParts, TypeParts DEF RestTyped, profileVars, gameVars
<1>4. QED
  BY <1>1, <1>2, <1>3, TypeGoes

LEMMA TypeRetry ==
  ASSUME TypeInv, NEW t \in Terminals, Retry(t)
  PROVE  TypeInv'
<1>1. PICK c \in Command :
        /\ Goes(t, "activate", c)
        /\ c.at = session.step /\ session.step \in 1..Len(steps)
        /\ UNCHANGED <<rowVars, profileVars, gameVars, cause, deaths>>
  BY RetryDoes
<1>2. AtOf(Len(steps), "activate", c.at)
  BY <1>1 DEF AtOf, Judging
<1>3. QED
  BY <1>1, <1>2, TypeQuiet

LEMMA TypeActivate ==
  ASSUME TypeInv, NEW t \in Terminals, Activate(t)
  PROVE  TypeInv'
<1>1. /\ cmd[t].at \in 1..Len(steps) /\ cmd[t].at \in Steps
      /\ UNCHANGED <<rowVars, profileVars, deployed, visible, cause, deaths>>
      /\ Goes(t, "idle", NoCommand) \/ Goes(t, "deploy", cmd[t])
  BY ActivateDoes, TypeParts DEF Steps
<1>2. AtOf(Len(steps), "deploy", cmd[t].at)
  BY <1>1 DEF AtOf, Judging
<1>3. active' \in Steps \union {Source, None} /\ littered' \in BOOLEAN
  BY <1>1, ActivateDoes, ActivatedType DEF TypeInv, TypeOK
<1>4. RestTyped' /\ Len(steps') >= Len(steps) /\ Len(steps') = Len(steps)
  BY <1>1, <1>3, RestParts, TypeParts DEF RestTyped, rowVars, profileVars
<1>5. QED
  BY <1>1, <1>2, <1>4, AtIdle, TypeGoes

LEMMA TypeDeploy ==
  ASSUME TypeInv, NEW t \in Terminals, Deploy(t)
  PROVE  TypeInv'
<1>1. /\ cmd[t].at \in 1..Len(steps) /\ cmd[t].at \in 0..MaxSteps
      /\ UNCHANGED <<rowVars, profileVars, active, littered, cause, deaths>>
      /\ Goes(t, "idle", NoCommand) \/ Goes(t, "play", cmd[t])
  BY DeployDoes, TypeParts
<1>2. AtOf(Len(steps), "play", cmd[t].at)
  BY <1>1 DEF AtOf, Judging
<1>3. deployed' \in 0..MaxSteps /\ visible' \in SUBSET Mods
  BY <1>1, DeployDoes DEF TypeInv, TypeOK
<1>4. RestTyped' /\ Len(steps') >= Len(steps) /\ Len(steps') = Len(steps)
  BY <1>1, <1>3, RestParts, TypeParts DEF RestTyped, rowVars, profileVars
<1>5. QED
  BY <1>1, <1>2, <1>4, AtIdle, TypeGoes

LEMMA TypePlay ==
  ASSUME TypeInv, NEW t \in Terminals, Play(t)
  PROVE  TypeInv'
<1>1. PICK c \in Command :
        /\ c.at = cmd[t].at /\ cmd[t].at \in 1..Len(steps)
        /\ Goes(t, "idle", NoCommand) \/ Goes(t, "load", c)
        /\ littered' \in {littered, SaveDir}
        /\ UNCHANGED <<rowVars, profileVars, active, deployed, visible, cause, deaths>>
  BY PlayDoes
<1>2. AtOf(Len(steps), "load", c.at)
  BY <1>1 DEF AtOf, Judging
<1>3. littered' \in BOOLEAN
  BY <1>1, BisectAssumption DEF TypeInv, TypeOK
<1>4. RestTyped' /\ Len(steps') >= Len(steps) /\ Len(steps') = Len(steps)
  BY <1>1, <1>3, RestParts, TypeParts DEF RestTyped, rowVars, profileVars
<1>5. QED
  BY <1>1, <1>2, <1>4, AtIdle, TypeGoes

LEMMA TypeMark ==
  ASSUME TypeInv, NEW t \in Terminals, Mark(t)
  PROVE  TypeInv'
<1>1. PICK c \in Command :
        /\ Goes(t, "load", c)
        /\ c.at = session.step /\ session.step \in 1..Len(steps)
        /\ UNCHANGED <<rowVars, profileVars, gameVars, cause, deaths>>
  BY MarkDoes
<1>2. AtOf(Len(steps), "load", c.at)
  BY <1>1 DEF AtOf, Judging
<1>3. QED
  BY <1>1, <1>2, TypeQuiet

LEMMA TypeLoad ==
  ASSUME TypeInv, NEW t \in Terminals, Load(t)
  PROVE  TypeInv'
<1>1. PICK c \in Command :
        /\ Goes(t, "complete", c)
        /\ c.at = cmd[t].at /\ cmd[t].at \in 1..Len(steps)
        /\ UNCHANGED <<rowVars, profileVars, gameVars, cause, deaths>>
  BY LoadDoes
<1>2. AtOf(Len(steps), "complete", c.at)
  BY <1>1 DEF AtOf, Judging
<1>3. QED
  BY <1>1, <1>2, TypeQuiet

LEMMA TypeComplete ==
  ASSUME TypeInv, NEW t \in Terminals, Complete(t)
  PROVE  TypeInv'
<1>1. /\ Goes(t, "advance", cmd[t]) /\ cmd[t].at \in 1..Len(steps)
      /\ steps' \in Seq(Step) /\ Len(steps') = Len(steps)
      /\ UNCHANGED <<session, oracle, profileVars, gameVars, cause, deaths>>
  BY CompleteDoes
<1>2. AtOf(Len(steps'), "advance", cmd[t].at)
  BY <1>1 DEF AtOf, Judging
<1>3. RestTyped' /\ Len(steps') >= Len(steps)
  BY <1>1, RestParts, TypeParts DEF RestTyped, profileVars, gameVars
<1>4. QED
  BY <1>1, <1>2, <1>3, TypeGoes

LEMMA TypeAdvance ==
  ASSUME TypeInv, NEW t \in Terminals, Advance(t)
  PROVE  TypeInv'
<1>1. PICK c \in Command :
        /\ session' \in Session /\ session'.step = 0
        /\ Goes(t, "idle", NoCommand) \/ Goes(t, "cleanup", c)
        /\ UNCHANGED <<oracle, steps, profileVars, gameVars, cause, deaths>>
  BY AdvanceDoes
<1>2. RestTyped' /\ Len(steps') >= Len(steps)
  BY <1>1, RestParts, TypeParts DEF RestTyped, profileVars, gameVars
<1>3. QED
  BY <1>1, <1>2, AtIdle, TypeGoes

LEMMA TypeCleanup ==
  ASSUME TypeInv, NEW t \in Terminals, Cleanup(t)
  PROVE  TypeInv'
<1>1. PICK label \in {"cleanup", "abclean", "abort", "restore"}, c \in Command :
        /\ Goes(t, label, c)
        /\ candidates' \subseteq candidates /\ active' \in {active, None}
        /\ UNCHANGED <<rowVars, off, littered, deployed, visible, cause, deaths>>
  BY CleanupDoes
<1>2. candidates' \in SUBSET Steps /\ active' \in Steps \union {Source, None}
  BY <1>1 DEF TypeInv, TypeOK
<1>3. RestTyped' /\ Len(steps') >= Len(steps)
  BY <1>1, <1>2, RestParts, TypeParts DEF RestTyped, rowVars
<1>4. QED
  BY <1>1, <1>3, AtIdle, TypeGoes

LEMMA TypeAbort ==
  ASSUME TypeInv, NEW t \in Terminals, Abort(t)
  PROVE  TypeInv'
<1>1. PICK c \in Command :
        /\ Goes(t, "abclean", c)
        /\ UNCHANGED <<rowVars, profileVars, gameVars, cause, deaths>>
  BY AbortDoes
<1>2. QED
  BY <1>1, AtIdle, TypeQuiet

LEMMA TypeAborted ==
  ASSUME TypeInv, NEW t \in Terminals, Aborted(t)
  PROVE  TypeInv'
<1>1. /\ Goes(t, "restore", cmd[t]) /\ session' \in Session /\ session'.step = 0
      /\ UNCHANGED <<oracle, steps, profileVars, gameVars, cause, deaths>>
  BY AbortedDoes
<1>2. RestTyped' /\ Len(steps') >= Len(steps)
  BY <1>1, RestParts, TypeParts DEF RestTyped, profileVars, gameVars
<1>3. QED
  BY <1>1, <1>2, AtIdle, TypeGoes

LEMMA TypeRestore ==
  ASSUME TypeInv, NEW t \in Terminals, Restore(t)
  PROVE  TypeInv'
<1>1. /\ Goes(t, "idle", NoCommand)
      /\ UNCHANGED <<rowVars, profileVars, deployed, visible, cause, deaths>>
  BY RestoreDoes
<1>2. active' \in Steps \union {Source, None} /\ littered' \in BOOLEAN
  BY RestoreDoes, ActivatedType DEF TypeInv, TypeOK
<1>3. RestTyped' /\ Len(steps') >= Len(steps)
  BY <1>1, <1>2, RestParts, TypeParts DEF RestTyped, rowVars, profileVars
<1>4. QED
  BY <1>1, <1>3, AtIdle, TypeGoes

LEMMA TypeDie ==
  ASSUME TypeInv, NEW t \in Terminals, Die(t)
  PROVE  TypeInv'
<1>1. /\ Goes(t, "idle", NoCommand) /\ deaths' \in 0..MaxDeaths
      /\ UNCHANGED <<rowVars, profileVars, gameVars, cause>>
  BY DieDoes
<1>2. RestTyped' /\ Len(steps') >= Len(steps)
  BY <1>1, RestParts, TypeParts DEF RestTyped, rowVars, profileVars, gameVars
<1>3. QED
  BY <1>1, <1>2, AtIdle, TypeGoes

LEMMA InitType == Init => TypeInv
<1> SUFFICES ASSUME Init PROVE TypeInv
  OBVIOUS
<1>1. TypeOK
  <2>1. steps \in Seq(Step) /\ Len(steps) = 0
    BY DEF Init
  <2>2. cause \in SUBSET Mods /\ MaxSteps \in Nat /\ MaxDeaths \in Nat
    BY BisectAssumption DEF Init
  <2>3. SaveDir \in BOOLEAN
    BY BisectAssumption
  <2>4. /\ pc \in [Terminals -> Labels] /\ cmd \in [Terminals -> Command]
        /\ off \in [Steps -> SUBSET Mods]
    BY NoCommandType DEF Init, Labels
  <2>5. /\ session \in Session /\ oracle \in {"manual", "crash", "perf"}
        /\ active \in Steps \union {Source, None} /\ littered \in BOOLEAN
        /\ visible \in SUBSET Mods /\ candidates \in SUBSET Steps
    BY <2>3, NoCommandType DEF Init
  <2>6. QED
    BY <2>1, <2>2, <2>4, <2>5 DEF Init, TypeOK
<1>2. session.step = 0 /\ Len(steps) = 0
  BY DEF Init, NoSession
<1>3. \A t \in Terminals : AtOf(Len(steps), pc[t], cmd[t].at)
  BY DEF Init, AtOf, Judging
<1>4. QED
  BY <1>1, <1>2, <1>3 DEF TypeInv

LEMMA NextType == TypeInv /\ [Next]_vars => TypeInv'
<1> SUFFICES ASSUME TypeInv, [Next]_vars PROVE TypeInv'
  OBVIOUS
<1>1. CASE UNCHANGED vars
  BY <1>1 DEF TypeInv, TypeOK, vars, rowVars, profileVars, gameVars
<1>2. CASE Next
  <2>1. PICK t \in Terminals :
          \/ Start(t) \/ Run(t) \/ Retry(t) \/ Mark(t) \/ Abort(t) \/ Proceed(t) \/ Die(t)
    BY <1>2 DEF Next
  <2>2. CASE Start(t) \/ Run(t) \/ Retry(t) \/ Mark(t) \/ Abort(t) \/ Die(t)
    BY <2>2, TypeStart, TypeRun, TypeRetry, TypeMark, TypeAbort, TypeDie
  <2>3. CASE Create(t) \/ Record(t) \/ Wait(t) \/ Activate(t) \/ Deploy(t) \/ Play(t)
    BY <2>3, TypeCreate, TypeRecord, TypeWait, TypeActivate, TypeDeploy, TypePlay
  <2>4. CASE \/ Load(t) \/ Complete(t) \/ Advance(t)
             \/ Cleanup(t) \/ Aborted(t) \/ Restore(t)
    BY <2>4, TypeLoad, TypeComplete, TypeAdvance, TypeCleanup, TypeAborted, TypeRestore
  <2>5. QED
    BY <2>1, <2>2, <2>3, <2>4 DEF Proceed
<1>3. QED
  BY <1>1, <1>2

\* Whatever commands run, in however many terminals, no step is written past
\* the table or judged before it is there (create_bisect_step,
\* complete_bisect_step).
THEOREM TypesKept == Spec => []TypeInv
<1>1. QED
  BY InitType, NextType, PTL DEF Spec

-----------------------------------------------------------------------------
(* One terminal: a session that is over stays so.                          *)

OneTerminal == \E t : Terminals = {t}

\* The status of the row goes with the statement of the only command: a row is
\* still as that command read it until it writes it, waits while a candidate is
\* out, and is over when it cleans up.
PhaseAt(row, label, read) ==
    /\ label \in {"create", "record", "wait"} =>
           row.status = "active" /\ row.step = 0 /\ read = row
    /\ label \in {"activate", "deploy", "play"} \union Judging => row.status = "waiting"
    /\ label \in {"cleanup", "restore"} =>
           row.status \in {"complete", "inconclusive", "aborted"}
    /\ row.step # 0 => row.status = "waiting"

PhaseInv == \A t \in Terminals : PhaseAt(session, pc[t], cmd[t].read)

LEMMA PhaseAlone ==
  ASSUME OneTerminal, NEW t \in Terminals, NEW label, NEW c, Goes(t, label, c),
         PhaseAt(session', label, c.read)
  PROVE  PhaseInv'
  BY DEF OneTerminal, Goes, PhaseInv

LEMMA PhaseStart ==
  ASSUME OneTerminal, PhaseInv, NEW t \in Terminals, Start(t)
  PROVE  PhaseInv' /\ ~Over
<1>1. pc[t] = "idle" /\ pc' = pc /\ cmd' = cmd
  BY DEF Start
<1>2. session.status = "none" /\ session'.step = 0
  BY DEF Start, NoSession
<1>3. PhaseAt(session', pc'[t], cmd'[t].read)
  BY <1>1, <1>2 DEF PhaseAt, Judging
<1>4. QED
  BY <1>1, <1>2, <1>3 DEF PhaseInv, OneTerminal, Over

\* Every other step keeps the phases, and a session that is over stays so.
LEMMA PhaseLaunch ==
  ASSUME OneTerminal, TypeInv, PhaseInv, NEW t \in Terminals,
         \/ Run(t) \/ Create(t) \/ Record(t) \/ Wait(t) \/ Retry(t)
         \/ Activate(t) \/ Deploy(t) \/ Play(t)
  PROVE  PhaseInv' /\ (Over => Over')
<1> USE DEF rowVars
<1>1. PhaseAt(session, pc[t], cmd[t].read)
  BY DEF PhaseInv
<1>2. CASE Run(t)
  <2>1. PICK c \in Command :
          /\ Goes(t, "create", c) /\ c.read = session /\ session' = session
          /\ session.status = "active" /\ session.step = 0
    BY <1>2, RunDoes
  <2>2. PhaseAt(session', "create", c.read)
    BY <2>1 DEF PhaseAt, Judging
  <2>3. QED
    BY <2>1, <2>2, PhaseAlone DEF Over
<1>3. CASE Create(t)
  <2>1. /\ pc[t] = "create" /\ session' = session
        /\ Goes(t, "idle", NoCommand) \/ Goes(t, "record", cmd[t])
    BY <1>3, CreateDoes
  <2>2. /\ PhaseAt(session', "idle", NoCommand.read)
        /\ PhaseAt(session', "record", cmd[t].read)
    BY <1>1, <2>1 DEF PhaseAt, Judging
  <2>3. QED
    BY <2>1, <2>2, PhaseAlone DEF Over
<1>4. CASE Record(t)
  <2>1. /\ pc[t] = "record" /\ session' = session
        /\ Goes(t, "idle", NoCommand) \/ Goes(t, "wait", cmd[t])
    BY <1>4, RecordDoes
  <2>2. /\ PhaseAt(session', "idle", NoCommand.read)
        /\ PhaseAt(session', "wait", cmd[t].read)
    BY <1>1, <2>1 DEF PhaseAt, Judging
  <2>3. QED
    BY <2>1, <2>2, PhaseAlone DEF Over
<1>5. CASE Wait(t)
  <2>1. /\ pc[t] = "wait" /\ session'.status = "waiting"
        /\ Goes(t, "play", cmd[t]) \/ Goes(t, "activate", cmd[t])
    BY <1>5, WaitDoes
  <2>2. /\ PhaseAt(session', "play", cmd[t].read)
        /\ PhaseAt(session', "activate", cmd[t].read)
    BY <2>1 DEF PhaseAt
  <2>3. session.status = "active"
    BY <1>1, <2>1 DEF PhaseAt
  <2>4. QED
    BY <2>1, <2>2, <2>3, PhaseAlone DEF Over
<1>6. CASE Retry(t)
  <2>1. PICK c \in Command :
          Goes(t, "activate", c) /\ session' = session /\ session.status = "waiting"
    BY <1>6, RetryDoes
  <2>2. PhaseAt(session', "activate", c.read)
    BY <2>1 DEF PhaseAt
  <2>3. QED
    BY <2>1, <2>2, PhaseAlone DEF Over
<1>7. CASE Activate(t)
  <2>1. /\ pc[t] = "activate" /\ session' = session
        /\ Goes(t, "idle", NoCommand) \/ Goes(t, "deploy", cmd[t])
    BY <1>7, ActivateDoes
  <2>2. /\ PhaseAt(session', "idle", NoCommand.read)
        /\ PhaseAt(session', "deploy", cmd[t].read)
    BY <1>1, <2>1 DEF PhaseAt, Judging
  <2>3. QED
    BY <2>1, <2>2, PhaseAlone DEF Over
<1>8. CASE Deploy(t)
  <2>1. /\ pc[t] = "deploy" /\ session' = session
        /\ Goes(t, "idle", NoCommand) \/ Goes(t, "play", cmd[t])
    BY <1>8, DeployDoes
  <2>2. /\ PhaseAt(session', "idle", NoCommand.read)
        /\ PhaseAt(session', "play", cmd[t].read)
    BY <1>1, <2>1 DEF PhaseAt, Judging
  <2>3. QED
    BY <2>1, <2>2, PhaseAlone DEF Over
<1>9. CASE Play(t)
  <2>1. PICK c \in Command :
          /\ pc[t] = "play" /\ session' = session
          /\ Goes(t, "idle", NoCommand) \/ Goes(t, "load", c)
    BY <1>9, PlayDoes
  <2>2. /\ PhaseAt(session', "idle", NoCommand.read)
        /\ PhaseAt(session', "load", c.read)
    BY <1>1, <2>1 DEF PhaseAt, Judging
  <2>3. QED
    BY <2>1, <2>2, PhaseAlone DEF Over
<1>10. QED
  BY <1>2, <1>3, <1>4, <1>5, <1>6, <1>7, <1>8, <1>9

LEMMA PhaseJudge ==
  ASSUME OneTerminal, TypeInv, PhaseInv, NEW t \in Terminals,
         \/ Mark(t) \/ Load(t) \/ Complete(t) \/ Advance(t)
  PROVE  PhaseInv' /\ (Over => Over')
<1> USE DEF rowVars
<1>1. PhaseAt(session, pc[t], cmd[t].read)
  BY DEF PhaseInv
<1>2. CASE Mark(t)
  <2>1. PICK c \in Command :
          Goes(t, "load", c) /\ session' = session /\ session.step \in 1..Len(steps)
    BY <1>2, MarkDoes
  <2>2. session.status = "waiting"
    BY <1>1, <2>1, TypeParts DEF PhaseAt
  <2>3. PhaseAt(session', "load", c.read)
    BY <2>1, <2>2 DEF PhaseAt
  <2>4. QED
    BY <2>1, <2>3, PhaseAlone DEF Over
<1>3. CASE Load(t)
  <2>1. PICK c \in Command :
          pc[t] = "load" /\ Goes(t, "complete", c) /\ session' = session
    BY <1>3, LoadDoes
  <2>2. PhaseAt(session', "complete", c.read)
    BY <1>1, <2>1 DEF PhaseAt, Judging
  <2>3. QED
    BY <2>1, <2>2, PhaseAlone DEF Over
<1>4. CASE Complete(t)
  <2>1. pc[t] = "complete" /\ Goes(t, "advance", cmd[t]) /\ session' = session
    BY <1>4, CompleteDoes
  <2>2. PhaseAt(session', "advance", cmd[t].read)
    BY <1>1, <2>1 DEF PhaseAt, Judging
  <2>3. QED
    BY <2>1, <2>2, PhaseAlone DEF Over
<1>5. CASE Advance(t)
  <2>1. PICK c \in Command :
          /\ pc[t] = "advance" /\ session'.step = 0
          /\ \/ session'.status = "active" /\ Goes(t, "idle", NoCommand)
             \/ session'.status \in {"inconclusive", "complete"} /\ Goes(t, "cleanup", c)
    BY <1>5, AdvanceDoes
  <2>2. session.status = "waiting"
    BY <1>1, <2>1 DEF PhaseAt, Judging
  <2>3. PhaseAt(session', "idle", NoCommand.read)
    BY <2>1 DEF PhaseAt, Judging
  <2>4. session'.status # "active" => PhaseAt(session', "cleanup", c.read)
    BY <2>1 DEF PhaseAt, Judging
  <2>5. QED
    BY <2>1, <2>2, <2>3, <2>4, PhaseAlone DEF Over
<1>6. QED
  BY <1>2, <1>3, <1>4, <1>5

LEMMA PhaseEnd ==
  ASSUME OneTerminal, TypeInv, PhaseInv, NEW t \in Terminals,
         \/ Cleanup(t) \/ Abort(t) \/ Aborted(t) \/ Restore(t) \/ Die(t)
  PROVE  PhaseInv' /\ (Over => Over')
<1> USE DEF rowVars
<1>1. PhaseAt(session, pc[t], cmd[t].read)
  BY DEF PhaseInv
<1>2. CASE Cleanup(t)
  <2>1. PICK c \in Command, label \in Labels :
          /\ Goes(t, label, c) /\ session' = session
          /\ \/ pc[t] = "cleanup" /\ label \in {"cleanup", "restore"}
             \/ pc[t] = "abclean" /\ label \in {"abclean", "abort"}
    BY <1>2, CleanupDoes DEF Labels
  <2>2. PhaseAt(session', label, c.read)
    BY <1>1, <2>1 DEF PhaseAt, Judging
  <2>3. QED
    BY <2>1, <2>2, PhaseAlone DEF Over
<1>3. CASE Abort(t)
  <2>1. PICK c \in Command : Goes(t, "abclean", c) /\ session' = session
    BY <1>3, AbortDoes
  <2>2. PhaseAt(session', "abclean", c.read)
    BY <1>1, <2>1 DEF PhaseAt, Judging
  <2>3. QED
    BY <2>1, <2>2, PhaseAlone DEF Over
<1>4. CASE Aborted(t)
  <2>1. Goes(t, "restore", cmd[t]) /\ session'.status = "aborted" /\ session'.step = 0
    BY <1>4, AbortedDoes
  <2>2. PhaseAt(session', "restore", cmd[t].read)
    BY <2>1 DEF PhaseAt, Judging
  <2>3. QED
    BY <2>1, <2>2, PhaseAlone DEF Over
<1>5. CASE Restore(t) \/ Die(t)
  <2>1. Goes(t, "idle", NoCommand) /\ session' = session
    BY <1>5, RestoreDoes, DieDoes
  <2>2. PhaseAt(session', "idle", NoCommand.read)
    BY <1>1, <2>1 DEF PhaseAt, Judging
  <2>3. QED
    BY <2>1, <2>2, PhaseAlone DEF Over
<1>6. QED
  BY <1>2, <1>3, <1>4, <1>5

LEMMA InitPhase == Init => PhaseInv
  BY DEF Init, PhaseInv, PhaseAt, NoSession, Judging

LEMMA NextPhase ==
  ASSUME OneTerminal, TypeInv, PhaseInv, [Next]_vars
  PROVE  PhaseInv' /\ (Over => Over')
<1>1. CASE UNCHANGED vars
  BY <1>1 DEF PhaseInv, Over, vars, rowVars
<1>2. CASE Next
  <2>1. PICK t \in Terminals :
          \/ Start(t) \/ Run(t) \/ Retry(t) \/ Mark(t) \/ Abort(t) \/ Proceed(t) \/ Die(t)
    BY <1>2 DEF Next
  <2>2. CASE Start(t)
    BY <2>2, PhaseStart
  <2>3. CASE ~Start(t)
    BY <2>1, <2>3, PhaseLaunch, PhaseJudge, PhaseEnd DEF Proceed
  <2>4. QED
    BY <2>2, <2>3
<1>3. QED
  BY <1>1, <1>2

LEMMA PhasesKept ==
  ASSUME OneTerminal
  PROVE  Spec => []PhaseInv
<1>1. TypeInv /\ PhaseInv /\ [Next]_vars => PhaseInv'
  BY NextPhase
<1>2. QED
  BY <1>1, InitPhase, TypesKept, PTL DEF Spec

\* A session that is over stays so (handle_abort, complete_and_advance), when
\* commands are typed in one terminal, whichever of them die half-way.
THEOREM OverForGood ==
  ASSUME OneTerminal
  PROVE  Spec => StaysOver
<1>1. TypeInv /\ PhaseInv /\ [Next]_vars => [Over => Over']_vars
  BY NextPhase
<1>2. QED
  BY <1>1, PhasesKept, TypesKept, PTL DEF Spec, StaysOver

-----------------------------------------------------------------------------
(* One terminal: a session leaves no candidate behind.                     *)

\* Candidates are deleted at the end, and none is refused once it is created.
Tidy == ~Keep /\ (ForceSaveRisk \/ SaveMods = {})

\* Candidates are those of the n recorded steps and the one about to be, until
\* what is left of them is still to be deleted.
CandidatesAt(cands, n, over, label, c) ==
    /\ cands \subseteq 1..n \union (IF label = "record" THEN {c.at} ELSE {})
    /\ label \in {"cleanup", "abclean"} => cands \subseteq c.todo
    /\ label \in {"abort", "restore"} => cands = {}
    /\ label = "idle" /\ over => cands = {}

CandidatesInv ==
    deaths = 0 => \A t \in Terminals :
                      CandidatesAt(candidates, Len(steps), Over, pc[t], cmd[t])

LEMMA CandidatesAlone ==
  ASSUME OneTerminal, NEW t \in Terminals, NEW label, NEW c, Goes(t, label, c),
         CandidatesAt(candidates', Len(steps'), Over', label, c)
  PROVE  CandidatesInv'
  BY DEF OneTerminal, Goes, CandidatesInv

LEMMA CandidatesStart ==
  ASSUME OneTerminal, TypeInv, CandidatesInv, NEW t \in Terminals, Start(t)
  PROVE  CandidatesInv'
<1>1. /\ pc[t] = "idle" /\ session'.status = "active"
      /\ UNCHANGED <<candidates, steps, pc, cmd, deaths>>
  BY DEF Start, profileVars, NoSession
<1>2. SUFFICES ASSUME deaths = 0
               PROVE  CandidatesAt(candidates', Len(steps'), Over', pc'[t], cmd'[t])
  BY <1>1 DEF CandidatesInv, OneTerminal
<1>3. QED
  BY <1>1, <1>2 DEF CandidatesInv, CandidatesAt, Over

\* A command goes on without touching the candidates, the steps or the row.
LEMMA CandidatesQuiet ==
  ASSUME OneTerminal, CandidatesInv, PhaseInv, NEW t \in Terminals, NEW label, NEW c,
         Goes(t, label, c), UNCHANGED <<session, steps, candidates, deaths>>,
         pc[t] \notin {"record", "cleanup", "abclean", "restore"},
         label \notin {"cleanup", "abclean", "abort", "restore"},
         pc[t] = "idle" \/ session.status \in {"active", "waiting"}
  PROVE  CandidatesInv'
<1>1. SUFFICES ASSUME deaths = 0
               PROVE  CandidatesAt(candidates', Len(steps'), Over', label, c)
  BY CandidatesAlone DEF CandidatesInv
<1>2. CandidatesAt(candidates, Len(steps), Over, pc[t], cmd[t])
  BY <1>1 DEF CandidatesInv
<1>3. QED
  BY <1>2 DEF CandidatesAt, Over

LEMMA CandidatesLaunch ==
  ASSUME OneTerminal, Tidy, TypeInv, PhaseInv, CandidatesInv, NEW t \in Terminals,
         Run(t) \/ Create(t) \/ Record(t) \/ Wait(t) \/ Retry(t)
  PROVE  CandidatesInv'
<1> USE DEF rowVars, profileVars
<1>1. PhaseAt(session, pc[t], cmd[t].read)
  BY DEF PhaseInv
<1>2. CASE Run(t)
  <2>1. PICK c \in Command :
          /\ pc[t] = "idle" /\ Goes(t, "create", c)
          /\ UNCHANGED <<rowVars, profileVars, gameVars, cause, deaths>>
    BY <1>2, RunDoes
  <2>2. QED
    BY <2>1, CandidatesQuiet
<1>3. CASE Retry(t)
  <2>1. PICK c \in Command :
          /\ pc[t] = "idle" /\ Goes(t, "activate", c)
          /\ UNCHANGED <<rowVars, profileVars, gameVars, cause, deaths>>
    BY <1>3, RetryDoes
  <2>2. QED
    BY <2>1, CandidatesQuiet
<1>4. CASE Create(t)
  <2>1. pc[t] = "create" /\ session' = session /\ steps' = steps /\ deaths' = deaths
    BY <1>4, CreateDoes
  <2>2. session.status = "active"
    BY <1>1, <2>1 DEF PhaseAt
  <2>3. \/ Goes(t, "idle", NoCommand) /\ candidates' = candidates
        \/ /\ Goes(t, "record", cmd[t])
           /\ candidates' = candidates \union {cmd[t].at}
    BY <1>4, CreateDoes DEF Tidy
  <2>4. CASE Goes(t, "idle", NoCommand) /\ candidates' = candidates
    BY <2>1, <2>2, <2>4, CandidatesQuiet
  <2>5. CASE Goes(t, "record", cmd[t]) /\ candidates' = candidates \union {cmd[t].at}
    <3>1. SUFFICES ASSUME deaths = 0
                   PROVE  CandidatesAt(candidates', Len(steps'), Over', "record", cmd[t])
      BY <2>1, <2>5, CandidatesAlone DEF CandidatesInv
    <3>2. CandidatesAt(candidates, Len(steps), Over, "create", cmd[t])
      BY <2>1, <3>1 DEF CandidatesInv
    <3>3. QED
      BY <2>1, <2>5, <3>2 DEF CandidatesAt
  <2>6. QED
    BY <2>3, <2>4, <2>5
<1>5. CASE Record(t)
  <2>1. pc[t] = "record" /\ session' = session /\ UNCHANGED <<candidates, deaths>>
    BY <1>5, RecordDoes
  <2>2. session.status = "active"
    BY <1>1, <2>1 DEF PhaseAt
  <2>3. cmd[t].at \in Steps /\ Len(steps) \in Nat
    BY <2>1, TypeParts DEF AtOf
  <2>4. \/ /\ cmd[t].at <= Len(steps) /\ Goes(t, "idle", NoCommand) /\ steps' = steps
        \/ /\ cmd[t].at = Len(steps) + 1 /\ Goes(t, "wait", cmd[t])
           /\ Len(steps') = Len(steps) + 1
    BY <1>5, RecordDoes
  <2>5. SUFFICES ASSUME deaths = 0, NEW label \in {"idle", "wait"}, NEW c
                 PROVE  CandidatesAt(candidates', Len(steps'), Over', label, c)
    BY <2>1, <2>4, CandidatesAlone DEF CandidatesInv
  <2>6. candidates \subseteq 1..Len(steps) \union {cmd[t].at}
    BY <2>1, <2>5 DEF CandidatesInv, CandidatesAt
  <2>7. candidates \subseteq 1..Len(steps')
    BY <2>3, <2>4, <2>6 DEF Steps
  <2>8. QED
    BY <2>1, <2>2, <2>5, <2>7 DEF CandidatesAt, Over
<1>6. CASE Wait(t)
  <2>1. /\ pc[t] = "wait" /\ session'.status = "waiting"
        /\ Goes(t, "play", cmd[t]) \/ Goes(t, "activate", cmd[t])
        /\ UNCHANGED <<steps, candidates, deaths>>
    BY <1>6, WaitDoes
  <2>2. SUFFICES ASSUME deaths = 0, NEW label \in {"play", "activate"}
                 PROVE  CandidatesAt(candidates', Len(steps'), Over', label, cmd[t])
    BY <2>1, CandidatesAlone DEF CandidatesInv
  <2>3. CandidatesAt(candidates, Len(steps), Over, "wait", cmd[t])
    BY <2>1, <2>2 DEF CandidatesInv
  <2>4. QED
    BY <2>1, <2>2, <2>3 DEF CandidatesAt, Over
<1>7. QED
  BY <1>2, <1>3, <1>4, <1>5, <1>6

LEMMA CandidatesJudge ==
  ASSUME OneTerminal, Tidy, TypeInv, PhaseInv, CandidatesInv, NEW t \in Terminals,
         \/ Activate(t) \/ Deploy(t) \/ Play(t)
         \/ Mark(t) \/ Load(t) \/ Complete(t) \/ Advance(t)
  PROVE  CandidatesInv'
<1> USE DEF rowVars, profileVars
<1>1. /\ PhaseAt(session, pc[t], cmd[t].read) /\ Len(steps) \in Nat
      /\ pc[t] \in {"activate", "deploy", "play"} \union Judging =>
             session.status = "waiting"
  BY TypeParts DEF PhaseInv, PhaseAt
<1>2. CASE Activate(t) \/ Deploy(t) \/ Play(t) \/ Load(t)
  <2>1. PICK label \in {"idle", "deploy", "play", "load", "complete"}, c \in Command :
          /\ pc[t] \in {"activate", "deploy", "play", "load"} /\ Goes(t, label, c)
          /\ UNCHANGED <<session, steps, candidates, deaths>>
    BY <1>2, ActivateDoes, DeployDoes, PlayDoes, LoadDoes, NoCommandType, TypeParts
  <2>2. QED
    BY <1>1, <2>1, CandidatesQuiet DEF Judging
<1>3. CASE Mark(t)
  <2>1. PICK c \in Command :
          /\ pc[t] = "idle" /\ Goes(t, "load", c)
          /\ UNCHANGED <<rowVars, profileVars, gameVars, cause, deaths>>
    BY <1>3, MarkDoes
  <2>2. QED
    BY <2>1, CandidatesQuiet
<1>4. CASE Complete(t)
  <2>1. /\ pc[t] = "complete" /\ Goes(t, "advance", cmd[t])
        /\ Len(steps') = Len(steps) /\ UNCHANGED <<session, candidates, deaths>>
    BY <1>4, CompleteDoes
  <2>2. SUFFICES ASSUME deaths = 0
                 PROVE  CandidatesAt(candidates', Len(steps'), Over', "advance", cmd[t])
    BY <2>1, CandidatesAlone DEF CandidatesInv
  <2>3. CandidatesAt(candidates, Len(steps), Over, "complete", cmd[t])
    BY <2>1, <2>2 DEF CandidatesInv
  <2>4. QED
    BY <2>1, <2>3 DEF CandidatesAt
<1>5. CASE Advance(t)
  <2>1. PICK c \in Command :
          /\ pc[t] = "advance" /\ c.todo = ToDelete
          /\ \/ session'.status = "active" /\ Goes(t, "idle", NoCommand)
             \/ session'.status \in {"inconclusive", "complete"} /\ Goes(t, "cleanup", c)
          /\ UNCHANGED <<steps, candidates, deaths>>
    BY <1>5, AdvanceDoes
  <2>2. deaths = 0 => candidates \subseteq 1..Len(steps)
    BY <2>1 DEF CandidatesInv, CandidatesAt
  <2>3. c.todo = 1..Len(steps)
    BY <2>1 DEF ToDelete, Tidy
  <2>4. deaths = 0 => /\ CandidatesAt(candidates', Len(steps'), Over', "cleanup", c)
                      /\ session'.status = "active" =>
                             CandidatesAt(candidates', Len(steps'), Over', "idle", NoCommand)
    BY <2>1, <2>2, <2>3 DEF CandidatesAt, Over
  <2>5. CASE deaths # 0
    BY <2>1, <2>5 DEF CandidatesInv
  <2>6. CASE deaths = 0
    BY <2>1, <2>4, <2>6, CandidatesAlone
  <2>7. QED
    BY <2>5, <2>6
<1>6. QED
  BY <1>2, <1>3, <1>4, <1>5

LEMMA CandidatesEnd ==
  ASSUME OneTerminal, Tidy, TypeInv, PhaseInv, CandidatesInv, NEW t \in Terminals,
         \/ Cleanup(t) \/ Abort(t) \/ Aborted(t) \/ Restore(t) \/ Die(t)
  PROVE  CandidatesInv'
<1> USE DEF rowVars, profileVars
<1>1. deaths = 0 => CandidatesAt(candidates, Len(steps), Over, pc[t], cmd[t])
  BY DEF CandidatesInv
<1>2. CASE Cleanup(t)
  <2>1. UNCHANGED <<session, steps, deaths>> /\ pc[t] \in {"cleanup", "abclean"}
    BY <1>2, CleanupDoes
  <2>2. PICK label \in {"cleanup", "abclean", "abort", "restore"}, c \in Command :
          /\ Goes(t, label, c)
          /\ \/ /\ label \in {"cleanup", "abclean"}
                /\ \E k \in cmd[t].todo :
                       candidates' = candidates \ {k} /\ c.todo = cmd[t].todo \ {k}
             \/ /\ label \in {"abort", "restore"}
                /\ cmd[t].todo = {} /\ candidates' = candidates
    BY <1>2, <2>1, CleanupDoes
  <2>3. deaths = 0 => CandidatesAt(candidates', Len(steps'), Over', label, c)
    BY <1>1, <2>1, <2>2 DEF CandidatesAt
  <2>4. QED
    BY <2>1, <2>2, <2>3, CandidatesAlone DEF CandidatesInv
<1>3. CASE Abort(t)
  <2>1. PICK c \in Command :
          /\ pc[t] = "idle" /\ Goes(t, "abclean", c) /\ c.todo = ToDelete
          /\ UNCHANGED <<session, steps, candidates, deaths>>
    BY <1>3, AbortDoes
  <2>2. c.todo = 1..Len(steps)
    BY <2>1 DEF ToDelete, Tidy
  <2>3. deaths = 0 => CandidatesAt(candidates', Len(steps'), Over', "abclean", c)
    BY <1>1, <2>1, <2>2 DEF CandidatesAt
  <2>4. QED
    BY <2>1, <2>3, CandidatesAlone DEF CandidatesInv
<1>4. CASE Aborted(t)
  <2>1. /\ pc[t] = "abort" /\ Goes(t, "restore", cmd[t])
        /\ UNCHANGED <<steps, candidates, deaths>>
    BY <1>4, AbortedDoes
  <2>2. deaths = 0 => CandidatesAt(candidates', Len(steps'), Over', "restore", cmd[t])
    BY <1>1, <2>1 DEF CandidatesAt
  <2>3. QED
    BY <2>1, <2>2, CandidatesAlone DEF CandidatesInv
<1>5. CASE Restore(t)
  <2>1. /\ pc[t] = "restore" /\ Goes(t, "idle", NoCommand)
        /\ UNCHANGED <<steps, candidates, deaths>>
    BY <1>5, RestoreDoes
  <2>2. deaths = 0 => CandidatesAt(candidates', Len(steps'), Over', "idle", NoCommand)
    BY <1>1, <2>1 DEF CandidatesAt
  <2>3. QED
    BY <2>1, <2>2, CandidatesAlone DEF CandidatesInv
<1>6. CASE Die(t)
  <2>1. deaths' = deaths + 1 /\ deaths \in Nat
    BY <1>6, DieDoes DEF TypeInv, TypeOK
  <2>2. QED
    BY <2>1 DEF CandidatesInv
<1>7. QED
  BY <1>2, <1>3, <1>4, <1>5, <1>6

LEMMA InitCandidates == Init => CandidatesInv
  BY DEF Init, CandidatesInv, CandidatesAt

LEMMA NextCandidates ==
  ASSUME OneTerminal, Tidy, TypeInv, PhaseInv, CandidatesInv, [Next]_vars
  PROVE  CandidatesInv'
<1>1. CASE UNCHANGED vars
  BY <1>1 DEF CandidatesInv, Over, vars, rowVars, profileVars
<1>2. CASE Next
  <2>1. PICK t \in Terminals :
          \/ Start(t) \/ Run(t) \/ Retry(t) \/ Mark(t) \/ Abort(t) \/ Proceed(t) \/ Die(t)
    BY <1>2 DEF Next
  <2>2. QED
    BY <2>1, CandidatesStart, CandidatesLaunch, CandidatesJudge, CandidatesEnd DEF Proceed
<1>3. QED
  BY <1>1, <1>2

\* The candidates are gone once a session is over (cleanup_candidates), whether
\* it was concluded or aborted, if none of its commands died.
THEOREM NoneLeftBehind ==
  ASSUME OneTerminal, Tidy
  PROVE  Spec => []CandidatesRemoved
<1>1. TypeInv /\ PhaseInv /\ CandidatesInv /\ [Next]_vars => CandidatesInv'
  BY NextCandidates
<1>2. CandidatesInv => CandidatesRemoved
  BY DEF OneTerminal, CandidatesInv, CandidatesAt, CandidatesRemoved, Quiet
<1>3. QED
  BY <1>1, <1>2, InitCandidates, PhasesKept, TypesKept, PTL DEF Spec

-----------------------------------------------------------------------------
(* One terminal: a session gives the source profile back.                  *)

\* With a save directory, the active candidate must not be deleted first:
\* nothing is activated after that while there are saves.
Restorable == SaveDir => Keep

\* Some profile is active from the first deployment on, and the source once
\* a session is over.
ActiveAt(act, out, over, label, c) ==
    /\ SaveDir /\ (label = "deploy" \/ out # 0) => act # None
    /\ Keep /\ label \in {"cleanup", "abclean"} => c.todo = {}
    /\ label = "idle" /\ over /\ out # 0 => act = Source

ActiveInv ==
    deaths = 0 => \A t \in Terminals : ActiveAt(active, deployed, Over, pc[t], cmd[t])

LEMMA ActiveAlone ==
  ASSUME OneTerminal, NEW t \in Terminals, NEW label, NEW c, Goes(t, label, c),
         ActiveAt(active', deployed', Over', label, c)
  PROVE  ActiveInv'
  BY DEF OneTerminal, Goes, ActiveInv

\* A command goes on without touching the profiles, while the session is on.
LEMMA ActiveQuiet ==
  ASSUME OneTerminal, ActiveInv, NEW t \in Terminals, NEW label, NEW c,
         Goes(t, label, c), UNCHANGED <<active, deployed, deaths>>,
         label \notin {"deploy", "cleanup", "abclean"},
         label = "idle" => ~Over'
  PROVE  ActiveInv'
<1>1. SUFFICES ASSUME deaths = 0
               PROVE  ActiveAt(active', deployed', Over', label, c)
  BY ActiveAlone DEF ActiveInv
<1>2. ActiveAt(active, deployed, Over, pc[t], cmd[t])
  BY <1>1 DEF ActiveInv
<1>3. QED
  BY <1>2 DEF ActiveAt

LEMMA ActiveLaunch ==
  ASSUME OneTerminal, TypeInv, PhaseInv, ActiveInv, NEW t \in Terminals,
         Run(t) \/ Create(t) \/ Record(t) \/ Wait(t) \/ Retry(t)
  PROVE  ActiveInv'
<1> USE DEF rowVars, gameVars
<1>1. PhaseAt(session, pc[t], cmd[t].read)
  BY DEF PhaseInv
<1>2. CASE Run(t)
  <2>1. PICK c \in Command :
          /\ Goes(t, "create", c)
          /\ UNCHANGED <<rowVars, profileVars, gameVars, cause, deaths>>
    BY <1>2, RunDoes
  <2>2. QED
    BY <2>1, ActiveQuiet
<1>3. CASE Create(t)
  <2>1. /\ pc[t] = "create" /\ UNCHANGED <<session, active, deployed, deaths>>
        /\ Goes(t, "idle", NoCommand) \/ Goes(t, "record", cmd[t])
    BY <1>3, CreateDoes
  <2>2. ~Over'
    BY <1>1, <2>1 DEF PhaseAt, Over
  <2>3. QED
    BY <2>1, <2>2, ActiveQuiet
<1>4. CASE Record(t)
  <2>1. /\ pc[t] = "record" /\ UNCHANGED <<session, active, deployed, deaths>>
        /\ Goes(t, "idle", NoCommand) \/ Goes(t, "wait", cmd[t])
    BY <1>4, RecordDoes
  <2>2. ~Over'
    BY <1>1, <2>1 DEF PhaseAt, Over
  <2>3. QED
    BY <2>1, <2>2, ActiveQuiet
<1>5. CASE Wait(t)
  <2>1. /\ UNCHANGED <<active, deployed, deaths>>
        /\ Goes(t, "play", cmd[t]) \/ Goes(t, "activate", cmd[t])
    BY <1>5, WaitDoes
  <2>2. QED
    BY <2>1, ActiveQuiet
<1>6. CASE Retry(t)
  <2>1. PICK c \in Command :
          /\ Goes(t, "activate", c)
          /\ UNCHANGED <<rowVars, profileVars, gameVars, cause, deaths>>
    BY <1>6, RetryDoes
  <2>2. QED
    BY <2>1, ActiveQuiet
<1>7. QED
  BY <1>2, <1>3, <1>4, <1>5, <1>6

LEMMA ActiveGame ==
  ASSUME OneTerminal, TypeInv, PhaseInv, ActiveInv, NEW t \in Terminals,
         Activate(t) \/ Deploy(t) \/ Play(t)
  PROVE  ActiveInv'
<1> USE DEF rowVars
<1>1. PhaseAt(session, pc[t], cmd[t].read)
  BY DEF PhaseInv
<1>2. deaths = 0 => ActiveAt(active, deployed, Over, pc[t], cmd[t])
  BY DEF ActiveInv
<1>3. CASE Activate(t)
  <2>1. /\ pc[t] = "activate" /\ UNCHANGED <<session, deployed, deaths>>
        /\ cmd[t].at \in Steps
    BY <1>3, ActivateDoes, TypeParts DEF Steps
  <2>2. ~Over'
    BY <1>1, <2>1 DEF PhaseAt, Over
  <2>3. \/ Goes(t, "idle", NoCommand) /\ active' = active
        \/ Goes(t, "deploy", cmd[t]) /\ active' = cmd[t].at
    BY <1>3, ActivateDoes DEF Activated
  <2>4. active' = cmd[t].at => ActiveAt(active', deployed', Over', "deploy", cmd[t])
    BY <2>1, <2>2, BisectAssumption DEF ActiveAt
  <2>5. QED
    BY <2>1, <2>2, <2>3, <2>4, ActiveQuiet, ActiveAlone
<1>4. CASE Deploy(t)
  <2>1. pc[t] = "deploy" /\ UNCHANGED <<session, active, deaths>>
    BY <1>4, DeployDoes
  <2>2. ~Over'
    BY <1>1, <2>1 DEF PhaseAt, Over
  <2>3. \/ Goes(t, "idle", NoCommand) /\ deployed' = deployed
        \/ Goes(t, "play", cmd[t])
    BY <1>4, DeployDoes
  <2>4. deaths = 0 => ActiveAt(active', deployed', Over', "play", cmd[t])
    BY <1>2, <2>1, <2>2 DEF ActiveAt
  <2>5. CASE deaths # 0
    BY <2>1, <2>5 DEF ActiveInv
  <2>6. CASE deaths = 0
    BY <2>1, <2>2, <2>3, <2>4, <2>6, ActiveQuiet, ActiveAlone
  <2>7. QED
    BY <2>5, <2>6
<1>5. CASE Play(t)
  <2>1. PICK c \in Command :
          /\ pc[t] = "play" /\ UNCHANGED <<session, active, deployed, deaths>>
          /\ Goes(t, "idle", NoCommand) \/ Goes(t, "load", c)
    BY <1>5, PlayDoes
  <2>2. ~Over'
    BY <1>1, <2>1 DEF PhaseAt, Over
  <2>3. QED
    BY <2>1, <2>2, ActiveQuiet
<1>6. QED
  BY <1>3, <1>4, <1>5

LEMMA ActiveJudge ==
  ASSUME OneTerminal, TypeInv, PhaseInv, ActiveInv, NEW t \in Terminals,
         \/ Mark(t) \/ Load(t) \/ Complete(t) \/ Advance(t)
  PROVE  ActiveInv'
<1> USE DEF gameVars
<1>1. CASE Mark(t) \/ Load(t) \/ Complete(t)
  <2>1. PICK label \in {"load", "complete", "advance"}, c \in Command :
          Goes(t, label, c) /\ UNCHANGED <<active, deployed, deaths>>
    BY <1>1, MarkDoes, LoadDoes, CompleteDoes, TypeParts
  <2>2. QED
    BY <2>1, ActiveQuiet
<1>2. CASE Advance(t)
  <2>1. PICK c \in Command :
          /\ c.todo = ToDelete /\ UNCHANGED <<active, deployed, deaths>>
          /\ \/ session'.status = "active" /\ Goes(t, "idle", NoCommand)
             \/ session'.status \in {"inconclusive", "complete"} /\ Goes(t, "cleanup", c)
    BY <1>2, AdvanceDoes
  <2>2. deaths = 0 => ActiveAt(active', deployed', Over', "cleanup", c)
    BY <2>1 DEF ActiveAt, ActiveInv, ToDelete
  <2>3. session'.status = "active" => ~Over'
    BY DEF Over
  <2>4. CASE deaths # 0
    BY <2>1, <2>4 DEF ActiveInv
  <2>5. CASE deaths = 0
    BY <2>1, <2>2, <2>3, <2>5, ActiveQuiet, ActiveAlone
  <2>6. QED
    BY <2>4, <2>5
<1>3. QED
  BY <1>1, <1>2

LEMMA ActiveEnd ==
  ASSUME OneTerminal, Restorable, TypeInv, PhaseInv, ActiveInv, NEW t \in Terminals,
         \/ Cleanup(t) \/ Abort(t) \/ Aborted(t) \/ Restore(t) \/ Die(t)
  PROVE  ActiveInv'
<1> USE DEF gameVars
<1>1. deaths = 0 => ActiveAt(active, deployed, Over, pc[t], cmd[t])
  BY DEF ActiveInv
<1>2. CASE Cleanup(t)
  <2>1. UNCHANGED <<deployed, deaths>> /\ pc[t] \in {"cleanup", "abclean"}
    BY <1>2, CleanupDoes
  <2>2. PICK label \in {"cleanup", "abclean", "abort", "restore"}, c \in Command :
          /\ Goes(t, label, c)
          /\ \/ \E k \in cmd[t].todo :
                    c.todo = cmd[t].todo \ {k} /\ active' \in {active, None}
             \/ c.todo = {} /\ active' = active
    BY <1>2, <2>1, CleanupDoes
  <2>3. deaths = 0 => ActiveAt(active', deployed', Over', label, c)
    BY <1>1, <2>1, <2>2, BisectAssumption DEF ActiveAt, Restorable
  <2>4. QED
    BY <2>1, <2>2, <2>3, ActiveAlone DEF ActiveInv
<1>3. CASE Abort(t)
  <2>1. PICK c \in Command :
          /\ Goes(t, "abclean", c) /\ c.todo = ToDelete
          /\ UNCHANGED <<active, deployed, deaths>>
    BY <1>3, AbortDoes
  <2>2. deaths = 0 => ActiveAt(active', deployed', Over', "abclean", c)
    BY <1>1, <2>1 DEF ActiveAt, ToDelete
  <2>3. QED
    BY <2>1, <2>2, ActiveAlone DEF ActiveInv
<1>4. CASE Aborted(t)
  <2>1. Goes(t, "restore", cmd[t]) /\ UNCHANGED <<active, deployed, deaths>>
    BY <1>4, AbortedDoes
  <2>2. QED
    BY <2>1, ActiveQuiet
<1>5. CASE Restore(t)
  <2>1. /\ Goes(t, "idle", NoCommand) /\ UNCHANGED <<deployed, deaths>>
        /\ \/ Unadopted /\ active' = active
           \/ active' = Source
    BY <1>5, RestoreDoes DEF Activated
  <2>2. deaths = 0 => ActiveAt(active', deployed', Over', "idle", NoCommand)
    BY <1>1, <2>1, BisectAssumption DEF ActiveAt, Unadopted
  <2>3. QED
    BY <2>1, <2>2, ActiveAlone DEF ActiveInv
<1>6. CASE Die(t)
  <2>1. deaths' = deaths + 1 /\ deaths \in Nat
    BY <1>6, DieDoes DEF TypeInv, TypeOK
  <2>2. QED
    BY <2>1 DEF ActiveInv
<1>7. QED
  BY <1>2, <1>3, <1>4, <1>5, <1>6

LEMMA ActiveStart ==
  ASSUME OneTerminal, ActiveInv, NEW t \in Terminals, Start(t)
  PROVE  ActiveInv'
<1>1. pc[t] = "idle" /\ session'.status = "active" /\ UNCHANGED <<gameVars, pc, cmd, deaths>>
  BY DEF Start, NoSession
<1>2. QED
  BY <1>1 DEF ActiveInv, ActiveAt, OneTerminal, Over, gameVars

LEMMA InitActive == Init => ActiveInv
  BY DEF Init, ActiveInv, ActiveAt

LEMMA NextActive ==
  ASSUME OneTerminal, Restorable, TypeInv, PhaseInv, ActiveInv, [Next]_vars
  PROVE  ActiveInv'
<1>1. CASE UNCHANGED vars
  BY <1>1 DEF ActiveInv, Over, vars, rowVars, gameVars
<1>2. CASE Next
  <2>1. PICK t \in Terminals :
          \/ Start(t) \/ Run(t) \/ Retry(t) \/ Mark(t) \/ Abort(t) \/ Proceed(t) \/ Die(t)
    BY <1>2 DEF Next
  <2>2. QED
    BY <2>1, ActiveStart, ActiveLaunch, ActiveGame, ActiveJudge, ActiveEnd DEF Proceed
<1>3. QED
  BY <1>1, <1>2

\* The source profile is active again once a session that deployed a candidate
\* is over (restore_source_profile), if none of its commands died.
THEOREM SourceGivenBack ==
  ASSUME OneTerminal, Restorable
  PROVE  Spec => []SourceRestored
<1>1. TypeInv /\ PhaseInv /\ ActiveInv /\ [Next]_vars => ActiveInv'
  BY NextActive
<1>2. ActiveInv => SourceRestored
  BY DEF OneTerminal, ActiveInv, ActiveAt, SourceRestored, Quiet
<1>3. QED
  BY <1>1, <1>2, InitActive, PhasesKept, TypesKept, PTL DEF Spec

\* So a session in one terminal leaves the profiles as it found them, where
\* candidates are deleted, the game has no save directory and no mod is refused.
THEOREM ProfilesAsFound ==
  ASSUME OneTerminal, Tidy, ~SaveDir
  PROVE  Spec => []ProfilesRestored
<1>1. Restorable
  BY DEF Restorable
<1>2. QED
  BY <1>1, NoneLeftBehind, SourceGivenBack, PTL DEF ProfilesRestored

-----------------------------------------------------------------------------
(* Halves.                                                                 *)

\* There is one set of nothing, and an element more makes twice the sets.
LEMMA PowerZero == 2 ^ 0 = 1
<1>1. Cardinality(SUBSET {}) = 2 ^ 0
  BY FS_EmptySet, FS_SUBSET
<1>2. SUBSET {} = {{}}
  OBVIOUS
<1>3. QED
  BY <1>1, <1>2, FS_Singleton

LEMMA PowerNext ==
  ASSUME NEW k \in Nat
  PROVE  2 ^ k \in Nat /\ 2 ^ (k + 1) = 2 * (2 ^ k)
<1> DEFINE Without == SUBSET (1..k)
           With    == {X \in SUBSET (1..(k + 1)) : k + 1 \in X}
           f       == [X \in Without |-> X \union {k + 1}]
<1>1. /\ IsFiniteSet(1..k) /\ Cardinality(1..k) = k
      /\ IsFiniteSet(1..(k + 1)) /\ Cardinality(1..(k + 1)) = k + 1
  BY FS_Interval
<1>2. /\ IsFiniteSet(Without) /\ Cardinality(Without) = 2 ^ k
      /\ Cardinality(SUBSET (1..(k + 1))) = 2 ^ (k + 1)
  BY <1>1, FS_SUBSET
<1>3. f \in Bijection(Without, With)
  <2>1. ASSUME NEW X \in Without PROVE X \union {k + 1} \in With
    OBVIOUS
  <2>2. ASSUME NEW X \in Without, NEW Y \in Without, X \union {k + 1} = Y \union {k + 1}
        PROVE  X = Y
    <3>1. k + 1 \notin X /\ k + 1 \notin Y
      OBVIOUS
    <3>2. QED
      BY <2>2, <3>1
  <2>3. ASSUME NEW Y \in With PROVE \E X \in Without : X \union {k + 1} = Y
    <3>1. Y \ {k + 1} \in Without /\ (Y \ {k + 1}) \union {k + 1} = Y
      OBVIOUS
    <3>2. QED
      BY <3>1
  <2> HIDE DEF Without, With
  <2>4. QED
    BY <2>1, <2>2, <2>3 DEF Bijection, Injection, Surjection, IsInjective
<1>4. IsFiniteSet(With) /\ Cardinality(With) = 2 ^ k
  <2> HIDE DEF Without, With, f
  <2>1. QED
    BY <1>2, <1>3, FS_Bijection DEF ExistsBijection
<1>5. SUBSET (1..(k + 1)) = Without \union With /\ Without \cap With = {}
  <2>1. ASSUME NEW X \in SUBSET (1..(k + 1)), k + 1 \notin X PROVE X \in Without
    BY <2>1
  <2>2. Without \subseteq SUBSET (1..(k + 1))
    OBVIOUS
  <2>3. ASSUME NEW X \in Without PROVE k + 1 \notin X
    OBVIOUS
  <2> HIDE DEF Without
  <2>4. QED
    BY <2>1, <2>2, <2>3
<1> HIDE DEF Without, With
<1>6. Cardinality(Without \union With)
        = Cardinality(Without) + Cardinality(With) - Cardinality(Without \cap With)
  BY <1>2, <1>4, FS_Union
<1>7. Cardinality(Without \cap With) = 0
  BY <1>5, FS_EmptySet
<1>8. Cardinality(Without) \in Nat
  BY <1>2, FS_CardinalityType
<1> DEFINE p == 2 ^ k
           q == 2 ^ (k + 1)
<1>9. /\ Cardinality(Without \union With) = q /\ Cardinality(Without) = p
      /\ Cardinality(With) = p
  BY <1>2, <1>4, <1>5
<1> HIDE DEF p, q
<1>10. p \in Nat /\ q = p + p - 0
  BY <1>6, <1>7, <1>8, <1>9
<1>11. p \in Nat /\ q = 2 * p
  BY <1>10
<1>12. QED
  BY <1>11 DEF p, q

\* How many of S come before m.
Rank(S, m) == Cardinality({n \in S : n < m})

LEMMA ModsFinite ==
  ASSUME NEW S \in SUBSET Mods
  PROVE  /\ IsFiniteSet(S) /\ Cardinality(S) \in Nat
         /\ IsFiniteSet(Mods) /\ Cardinality(Mods) = N
<1>1. IsFiniteSet(Mods) /\ Cardinality(Mods) = N
  BY BisectAssumption, FS_Interval DEF Mods
<1>2. QED
  BY <1>1, FS_Subset, FS_CardinalityType

LEMMA RankBound ==
  ASSUME NEW S \in SUBSET Mods, NEW m \in S
  PROVE  Rank(S, m) \in Nat /\ Rank(S, m) < Cardinality(S)
<1> DEFINE before == {n \in S : n < m}
<1>1. IsFiniteSet(S) /\ Cardinality(S) \in Nat
  BY ModsFinite
<1>2. IsFiniteSet(S \ {m}) /\ Cardinality(S \ {m}) = Cardinality(S) - 1
  BY <1>1, FS_RemoveElement
<1>3. before \in SUBSET (S \ {m})
  BY BisectAssumption DEF Mods
<1> HIDE DEF before
<1>4. Cardinality(before) <= Cardinality(S) - 1 /\ Cardinality(before) \in Nat
  BY <1>2, <1>3, FS_Subset, FS_CardinalityType
<1>5. QED
  BY <1>1, <1>4 DEF Rank, before

LEMMA RankGrows ==
  ASSUME NEW S \in SUBSET Mods, NEW a \in S, NEW b \in S, a < b
  PROVE  Rank(S, a) < Rank(S, b)
<1> DEFINE before(m) == {n \in S : n < m}
<1>1. before(a) \in SUBSET Mods /\ before(b) \in SUBSET Mods
  OBVIOUS
<1>2. before(a) \union {a} \in SUBSET before(b) /\ a \notin before(a)
  <2>1. a \in Int /\ b \in Int /\ \A n \in S : n \in Int
    BY DEF Mods
  <2>2. \A n \in S : n < a => n < b
    BY <2>1
  <2>3. a \notin before(a)
    BY <2>1
  <2>4. \A n \in before(a) \union {a} : n \in before(b)
    BY <2>2
  <2>5. QED
    BY <2>3, <2>4
<1>3. Rank(S, a) = Cardinality(before(a)) /\ Rank(S, b) = Cardinality(before(b))
  BY DEF Rank
<1> HIDE DEF before
<1>4. /\ IsFiniteSet(before(a)) /\ Cardinality(before(a)) \in Nat
      /\ IsFiniteSet(before(b)) /\ Cardinality(before(b)) \in Nat
  BY <1>1, ModsFinite
<1>5. Cardinality(before(a) \union {a}) = Cardinality(before(a)) + 1
  BY <1>2, <1>4, FS_AddElement
<1>6. Cardinality(before(a) \union {a}) <= Cardinality(before(b))
  BY <1>2, <1>4, FS_Subset
<1>7. QED
  BY <1>3, <1>4, <1>5, <1>6

\* Mods of different ranks, all in an interval, are no more than it has numbers.
LEMMA RankCount ==
  ASSUME NEW S \in SUBSET Mods, NEW T \in SUBSET S, NEW a \in Nat, NEW b \in Nat,
         a <= b, \A m \in T : a <= Rank(S, m) /\ Rank(S, m) < b
  PROVE  Cardinality(T) <= b - a
<1> DEFINE f == [m \in T |-> Rank(S, m)]
<1>1. \A m \in T : Rank(S, m) \in a..(b - 1)
  BY RankBound
<1>2. ASSUME NEW m \in T, NEW n \in T, m # n
      PROVE  Rank(S, m) # Rank(S, n)
  <2>1. m < n \/ n < m
    BY <1>2, BisectAssumption DEF Mods
  <2>2. Rank(S, m) \in Nat /\ Rank(S, n) \in Nat
    BY RankBound
  <2>3. QED
    BY <2>1, <2>2, RankGrows
<1>3. f \in Injection(T, a..(b - 1))
  BY <1>1, <1>2 DEF Injection, IsInjective
<1>4. IsFiniteSet(a..(b - 1)) /\ Cardinality(a..(b - 1)) = b - a
  <2>1. b - 1 \in Int /\ a \in Int
    OBVIOUS
  <2>2. /\ IsFiniteSet(a..(b - 1))
        /\ Cardinality(a..(b - 1)) = IF a > b - 1 THEN 0 ELSE (b - 1) - a + 1
    BY <2>1, FS_Interval
  <2>3. QED
    BY <2>2
<1> HIDE DEF f
<1>5. QED
  BY <1>3, <1>4, FS_Injection

\* Neither half has more than half of the suspects, rounded up.
LEMMA HalfCount ==
  ASSUME NEW S \in SUBSET Mods
  PROVE  /\ 2 * (Cardinality(UpperHalf(S)) - 1) <= Cardinality(S) - 1
         /\ 2 * (Cardinality(S \ UpperHalf(S)) - 1) <= Cardinality(S) - 1
<1> DEFINE s == Cardinality(S)
           U == UpperHalf(S)
           L == S \ UpperHalf(S)
<1>1. s \in Nat /\ s \div 2 \in Nat /\ s \div 2 <= s
  BY ModsFinite
<1>2. U \in SUBSET S /\ L \in SUBSET S
  BY DEF UpperHalf
<1>3. \A m \in U : s \div 2 <= Rank(S, m) /\ Rank(S, m) < s
  BY RankBound DEF UpperHalf, Rank
<1>4. \A m \in L : 0 <= Rank(S, m) /\ Rank(S, m) < s \div 2
  <2>1. \A m \in L : Rank(S, m) \in Nat /\ ~(Rank(S, m) >= s \div 2)
    BY RankBound DEF UpperHalf, Rank
  <2>2. QED
    BY <1>1, <2>1
<1>5. Cardinality(U) \in Nat /\ Cardinality(L) \in Nat
  BY <1>2, ModsFinite
<1> DEFINE h == s \div 2
<1>6. 2 * (s - h - 1) <= s - 1 /\ 2 * (h - 1) <= s - 1
  BY <1>1
<1>7. /\ h \in Nat /\ h <= s
      /\ \A m \in U : h <= Rank(S, m) /\ Rank(S, m) < s
      /\ \A m \in L : 0 <= Rank(S, m) /\ Rank(S, m) < h
  BY <1>1, <1>3, <1>4
<1> HIDE DEF s, U, L, h
<1>8. Cardinality(U) <= s - h
  BY <1>1, <1>2, <1>7, RankCount
<1>9. Cardinality(L) <= h - 0
  BY <1>1, <1>2, <1>7, RankCount
<1>10. QED
  BY <1>1, <1>5, <1>6, <1>7, <1>8, <1>9 DEF s, U, L

\* Where no mod depends on another, a candidate enables the upper half.
NoDependencies == \A m \in Mods : Depends[m] = {}

LEMMA EnabledAlone ==
  ASSUME NoDependencies, NEW S \in SUBSET Mods
  PROVE  Enabled(S) = UpperHalf(S)
<1>1. \A E \in SUBSET S : Closed(E, S)
  BY DEF Closed, NoDependencies
<1>2. UpperHalf(S) \in SUBSET S
  BY DEF UpperHalf
<1>3. QED
  BY <1>1, <1>2 DEF Enabled

-----------------------------------------------------------------------------
(* One terminal: a search takes no more than log2 N steps, and one for each *)
(* command that died.                                                      *)

\* What k halvings leave of the N suspects.
LeftAfter(k, S) == 2 ^ k * (Cardinality(S) - 1) <= N - 1

LEMMA Product ==
  ASSUME NEW p \in Nat, NEW x \in Int, NEW y \in Int, x <= y
  PROVE  p * x <= p * y
  OBVIOUS

LEMMA HalfLeft ==
  ASSUME NEW S \in SUBSET Mods, NEW T \in SUBSET Mods, NEW k \in Nat, LeftAfter(k, S),
         2 * (Cardinality(T) - 1) <= Cardinality(S) - 1
  PROVE  LeftAfter(k + 1, T)
<1> DEFINE p == 2 ^ k
           s == Cardinality(S) - 1
           t == Cardinality(T) - 1
<1>1. p \in Nat /\ 2 ^ (k + 1) = 2 * p
  BY PowerNext
<1>2. s \in Int /\ t \in Int /\ N - 1 \in Int
  BY ModsFinite, BisectAssumption
<1>3. p * s <= N - 1 /\ 2 * t <= s
  BY DEF LeftAfter
<1> HIDE DEF p, s, t
<1>4. p * (2 * t) <= p * s
  BY <1>1, <1>2, <1>3, Product
<1>5. (2 * p) * t = p * (2 * t) /\ p * s \in Int /\ p * (2 * t) \in Int
  BY <1>1, <1>2
<1>6. (2 * p) * t <= N - 1
  BY <1>2, <1>3, <1>4, <1>5
<1>7. QED
  BY <1>1, <1>6 DEF LeftAfter, t

LEMMA FewSteps ==
  ASSUME NEW S \in SUBSET Mods, NEW k \in Nat, LeftAfter(k, S), Cardinality(S) >= 2
  PROVE  2 ^ k < N
<1> DEFINE p == 2 ^ k
           s == Cardinality(S) - 1
<1>1. p \in Nat /\ s \in Int /\ s >= 1 /\ N \in Int
  BY PowerNext, ModsFinite, BisectAssumption
<1>2. p * s <= N - 1
  BY DEF LeftAfter
<1> HIDE DEF p, s
<1>3. p * 1 <= p * s
  BY <1>1, Product
<1>4. p * 1 = p /\ p * s \in Int
  BY <1>1
<1>5. p < N
  BY <1>1, <1>2, <1>3, <1>4
<1>6. QED
  BY <1>5 DEF p

LEMMA FewerLeft ==
  ASSUME NEW S \in SUBSET Mods, NEW k \in Nat, LeftAfter(k + 1, S)
  PROVE  LeftAfter(k, S)
<1> DEFINE p == 2 ^ k
           s == Cardinality(S) - 1
<1>1. p \in Nat /\ 2 ^ (k + 1) = 2 * p /\ s \in Int /\ N - 1 \in Nat
  BY PowerNext, ModsFinite, BisectAssumption
<1>2. (2 * p) * s <= N - 1
  BY <1>1 DEF LeftAfter
<1> HIDE DEF p, s
<1>3. (2 * p) * s = p * s + p * s /\ p * s \in Int /\ p * 0 = 0
  BY <1>1
<1>4. p * s <= N - 1
  <2>1. CASE s <= 0
    BY <1>1, <1>3, <2>1, Product
  <2>2. CASE 0 <= s
    <3>1. 0 <= p * s
      BY <1>1, <1>3, <2>2, Product
    <3>2. QED
      BY <1>1, <1>2, <1>3, <3>1
  <2>3. QED
    BY <1>1, <2>1, <2>2
<1>5. QED
  BY <1>4 DEF LeftAfter, p, s

\* A command that dies may leave a step that nobody judges, so n steps are
\* worth as many fewer as commands died.
Worth(n, died) == IF n > died THEN n - died ELSE 0

LEMMA WorthOfNext ==
  ASSUME NEW n \in Nat, NEW died \in Nat
  PROVE  /\ Worth(n, died) \in Nat
         /\ Worth(n + 1, died) \in {Worth(n, died), Worth(n, died) + 1}
         /\ Worth(n, died + 1) = Worth(n, died) \/ Worth(n, died) = Worth(n, died + 1) + 1
         /\ n > 0 => Worth(n, died + 1) = Worth(n - 1, died)
         /\ n + 1 > died => Worth(n, died) = (n + 1) - 1 - died
  BY DEF Worth

\* An active row has two suspects or more; a step on its way halved those
\* there were; a verdict is on the last step.
LogAt(row, rows, died, label, c) ==
    /\ row.status = "none" => Len(rows) = 0
    /\ row.status = "active" => Cardinality(row.suspects) >= 2
    /\ row.status = "active" /\ label # "wait" =>
           LeftAfter(Worth(Len(rows), died), row.suspects)
    /\ row.status = "active" /\ label = "wait" =>
           LeftAfter(Worth(Len(rows) - 1, died), row.suspects)
    /\ label \in {"create", "record"} => c.plan = Enabled(row.suspects)
    /\ row.status = "waiting" \/ label = "wait" =>
           /\ Len(rows) > 0
           /\ LeftAfter(Worth(Len(rows), died), rows[Len(rows)].enabled)
           /\ LeftAfter(Worth(Len(rows), died), rows[Len(rows)].disabled)
    /\ row.status = "waiting" => row.step = Len(rows)
    /\ label \in {"wait", "activate", "deploy", "play"} \union Judging => c.at = Len(rows)

StepsAreFew == Len(steps) > deaths => 2 ^ (Len(steps) - 1 - deaths) < N

LogInv ==
    /\ StepsAreFew
    /\ \A t \in Terminals : LogAt(session, steps, deaths, pc[t], cmd[t])

LEMMA LogAlone ==
  ASSUME OneTerminal, LogInv, NEW t \in Terminals, NEW label, NEW c, Goes(t, label, c),
         UNCHANGED <<steps, deaths>>, LogAt(session', steps', deaths', label, c)
  PROVE  LogInv'
  BY DEF OneTerminal, Goes, LogInv, StepsAreFew

\* A command goes on without touching the steps or the row.
LEMMA LogQuiet ==
  ASSUME OneTerminal, LogInv, NEW t \in Terminals, NEW label, NEW c, Goes(t, label, c),
         UNCHANGED <<session, steps, deaths>>, pc[t] # "wait", label # "wait",
         label \in {"create", "record"} => c.plan = Enabled(session.suspects),
         label \in {"activate", "deploy", "play"} \union Judging => c.at = Len(steps)
  PROVE  LogInv'
<1>1. LogAt(session, steps, deaths, pc[t], cmd[t])
  BY DEF LogInv
<1>2. LogAt(session', steps', deaths', label, c)
  BY <1>1 DEF LogAt
<1>3. QED
  BY <1>2, LogAlone

LEMMA LogStart ==
  ASSUME OneTerminal, TypeInv, LogInv, NEW t \in Terminals, Start(t)
  PROVE  LogInv'
<1>1. /\ pc[t] = "idle" /\ session.status = "none" /\ UNCHANGED <<steps, deaths, pc, cmd>>
      /\ session'.status = "active" /\ session'.suspects = Mods
  BY DEF Start, NoSession
<1>2. Len(steps) = 0
  BY <1>1 DEF LogInv, LogAt
<1>3. Cardinality(Mods) = N /\ N >= 2 /\ N \in Nat
  BY ModsFinite, BisectAssumption
<1>4. LeftAfter(0, Mods)
  BY <1>3, PowerZero DEF LeftAfter
<1>5. Worth(Len(steps), deaths) = 0
  BY <1>2 DEF Worth, TypeInv, TypeOK
<1>6. LogAt(session', steps', deaths', pc'[t], cmd'[t])
  BY <1>1, <1>2, <1>3, <1>4, <1>5 DEF LogAt, Judging
<1>7. QED
  BY <1>1, <1>6 DEF LogInv, OneTerminal, StepsAreFew

LEMMA LogRecord ==
  ASSUME OneTerminal, NoDependencies, TypeInv, PhaseInv, LogInv,
         NEW t \in Terminals, Record(t)
  PROVE  LogInv'
<1> DEFINE worth == Worth(Len(steps), deaths)
<1>1. /\ PhaseAt(session, pc[t], cmd[t].read)
      /\ LogAt(session, steps, deaths, pc[t], cmd[t])
      /\ Len(steps) \in Nat /\ session.suspects \in SUBSET Mods /\ deaths \in Nat
  BY TypeParts DEF PhaseInv, LogInv, TypeInv, TypeOK
<1>2. PICK step \in Step :
        /\ pc[t] = "record" /\ UNCHANGED <<session, deaths>>
        /\ step.enabled = cmd[t].plan
        /\ step.disabled = cmd[t].read.suspects \ cmd[t].plan
        /\ \/ Goes(t, "idle", NoCommand) /\ steps' = steps
           \/ /\ cmd[t].at = Len(steps) + 1
              /\ Goes(t, "wait", cmd[t])
              /\ Len(steps') = Len(steps) + 1
              /\ steps'[Len(steps) + 1] = step
  BY RecordDoes
<1>3. /\ session.status = "active" /\ cmd[t].read = session
      /\ LeftAfter(worth, session.suspects) /\ Cardinality(session.suspects) >= 2
      /\ cmd[t].plan = UpperHalf(session.suspects)
  BY <1>1, <1>2, EnabledAlone DEF PhaseAt, LogAt
<1>4. CASE Goes(t, "idle", NoCommand) /\ steps' = steps
  BY <1>2, <1>4, LogQuiet DEF Judging
<1>5. CASE /\ cmd[t].at = Len(steps) + 1 /\ Goes(t, "wait", cmd[t])
           /\ Len(steps') = Len(steps) + 1 /\ steps'[Len(steps) + 1] = step
  <2>1. /\ step.enabled \in SUBSET Mods /\ step.disabled \in SUBSET Mods
        /\ worth \in Nat
        /\ Worth(Len(steps) + 1, deaths) \in {worth, worth + 1}
    BY <1>1, WorthOfNext DEF Step
  <2> HIDE DEF worth
  <2>2. LeftAfter(worth + 1, step.enabled) /\ LeftAfter(worth + 1, step.disabled)
    BY <1>1, <1>2, <1>3, <2>1, HalfCount, HalfLeft
  <2>3. LeftAfter(worth, step.enabled) /\ LeftAfter(worth, step.disabled)
    BY <2>1, <2>2, FewerLeft
  <2>4. 2 ^ worth < N
    BY <1>1, <1>3, <2>1, FewSteps
  <2>5. LogAt(session', steps', deaths', "wait", cmd[t])
    <3>1. /\ Len(steps') > 0 /\ cmd[t].at = Len(steps')
          /\ Len(steps') - 1 = Len(steps) /\ steps'[Len(steps')] = step
      BY <1>1, <1>5
    <3>2. /\ LeftAfter(Worth(Len(steps'), deaths'), steps'[Len(steps')].enabled)
          /\ LeftAfter(Worth(Len(steps'), deaths'), steps'[Len(steps')].disabled)
          /\ LeftAfter(Worth(Len(steps') - 1, deaths'), session'.suspects)
      BY <1>2, <1>3, <1>5, <2>1, <2>2, <2>3, <3>1 DEF worth
    <3>3. session'.status = "active" /\ Cardinality(session'.suspects) >= 2
      BY <1>2, <1>3
    <3>4. QED
      BY <3>1, <3>2, <3>3 DEF LogAt, Judging
  <2>6. StepsAreFew'
    <3>1. Len(steps') > deaths => Len(steps') - 1 - deaths = worth
      BY <1>1, <1>5, WorthOfNext DEF worth
    <3>2. QED
      BY <1>2, <2>4, <3>1 DEF StepsAreFew
  <2>7. QED
    BY <1>5, <2>5, <2>6 DEF LogInv, OneTerminal, Goes
<1>6. QED
  BY <1>2, <1>4, <1>5

LEMMA LogWait ==
  ASSUME OneTerminal, TypeInv, LogInv, NEW t \in Terminals, Wait(t)
  PROVE  LogInv'
<1>1. /\ pc[t] = "wait" /\ session'.status = "waiting" /\ session'.step = cmd[t].at
      /\ Goes(t, "play", cmd[t]) \/ Goes(t, "activate", cmd[t])
      /\ UNCHANGED <<steps, deaths>>
  BY WaitDoes
<1>2. LogAt(session, steps, deaths, "wait", cmd[t])
  BY <1>1 DEF LogInv
<1>3. ASSUME NEW label \in {"play", "activate"}
      PROVE  LogAt(session', steps', deaths', label, cmd[t])
  BY <1>1, <1>2 DEF LogAt
<1>4. QED
  BY <1>1, <1>3, LogAlone

LEMMA LogComplete ==
  ASSUME OneTerminal, TypeInv, PhaseInv, LogInv, NEW t \in Terminals, Complete(t)
  PROVE  LogInv'
<1>1. /\ pc[t] = "complete" /\ Goes(t, "advance", cmd[t])
      /\ Len(steps') = Len(steps) /\ UNCHANGED <<session, deaths>> /\ Len(steps) \in Nat
      /\ \A k \in 1..Len(steps) : /\ steps'[k].enabled = steps[k].enabled
                                  /\ steps'[k].disabled = steps[k].disabled
  BY CompleteDoes, TypeParts
<1>2. LogAt(session, steps, deaths, "complete", cmd[t]) /\ session.status = "waiting"
  BY <1>1 DEF LogInv, PhaseInv, PhaseAt, Judging
<1>3. Len(steps) \in 1..Len(steps)
  BY <1>1, <1>2 DEF LogAt
<1>4. /\ steps'[Len(steps)].enabled = steps[Len(steps)].enabled
      /\ steps'[Len(steps)].disabled = steps[Len(steps)].disabled
  BY <1>1, <1>3
<1>5. LogAt(session', steps', deaths', "advance", cmd[t])
  BY <1>1, <1>2, <1>4 DEF LogAt, Judging
<1>6. StepsAreFew'
  BY <1>1 DEF LogInv, StepsAreFew
<1>7. QED
  BY <1>1, <1>5, <1>6 DEF LogInv, OneTerminal, Goes

LEMMA LogAdvance ==
  ASSUME OneTerminal, TypeInv, PhaseInv, LogInv, NEW t \in Terminals, Advance(t)
  PROVE  LogInv'
<1>1. PICK c \in Command, S \in SUBSET Mods :
        /\ pc[t] = "advance"
        /\ S \in {steps[cmd[t].at].enabled, steps[cmd[t].at].disabled}
        /\ session'.suspects = S /\ session'.step = 0
        /\ \/ /\ session'.status = "active" /\ S # {} /\ Cardinality(S) # 1
              /\ Goes(t, "idle", NoCommand)
           \/ session'.status \in {"inconclusive", "complete"} /\ Goes(t, "cleanup", c)
        /\ UNCHANGED <<steps, deaths>>
  BY AdvanceDoes
<1>2. LogAt(session, steps, deaths, "advance", cmd[t]) /\ session.status = "waiting"
  BY <1>1 DEF LogInv, PhaseInv, PhaseAt, Judging
<1>3. LeftAfter(Worth(Len(steps), deaths), S)
  BY <1>1, <1>2 DEF LogAt, Judging
<1>4. session'.status = "active" => Cardinality(S) >= 2
  BY <1>1, ModsFinite, FS_EmptySet
<1>5. CASE session'.status = "active" /\ Goes(t, "idle", NoCommand)
  <2>1. LogAt(session', steps', deaths', "idle", NoCommand)
    BY <1>1, <1>3, <1>4, <1>5 DEF LogAt, Judging
  <2>2. QED
    BY <1>1, <1>5, <2>1, LogAlone
<1>6. CASE session'.status \in {"inconclusive", "complete"} /\ Goes(t, "cleanup", c)
  <2>1. LogAt(session', steps', deaths', "cleanup", c)
    BY <1>6 DEF LogAt, Judging
  <2>2. QED
    BY <1>1, <1>6, <2>1, LogAlone
<1>7. QED
  BY <1>1, <1>5, <1>6

LEMMA LogGame ==
  ASSUME OneTerminal, TypeInv, PhaseInv, LogInv, NEW t \in Terminals,
         \/ Run(t) \/ Create(t) \/ Retry(t) \/ Activate(t) \/ Deploy(t) \/ Play(t)
         \/ Mark(t) \/ Load(t)
  PROVE  LogInv'
<1> USE DEF rowVars
<1>1. PhaseAt(session, pc[t], cmd[t].read) /\ LogAt(session, steps, deaths, pc[t], cmd[t])
  BY DEF PhaseInv, LogInv
<1>2. CASE Run(t)
  <2>1. PICK c \in Command :
          /\ pc[t] = "idle" /\ Goes(t, "create", c)
          /\ c.plan = Enabled(session.suspects) /\ UNCHANGED <<session, steps, deaths>>
    BY <1>2, RunDoes
  <2>2. QED
    BY <2>1, LogQuiet DEF Judging
<1>3. CASE Create(t)
  <2>1. /\ pc[t] = "create" /\ UNCHANGED <<session, steps, deaths>>
        /\ Goes(t, "idle", NoCommand) \/ Goes(t, "record", cmd[t])
    BY <1>3, CreateDoes
  <2>2. cmd[t].plan = Enabled(session.suspects)
    BY <1>1, <2>1 DEF LogAt
  <2>3. QED
    BY <2>1, <2>2, LogQuiet DEF Judging
<1>4. CASE Retry(t) \/ Mark(t)
  <2>1. PICK c \in Command, label \in {"activate", "load"} :
          /\ pc[t] = "idle" /\ Goes(t, label, c) /\ c.at = session.step
          /\ session.step \in 1..Len(steps) /\ UNCHANGED <<session, steps, deaths>>
    BY <1>4, RetryDoes, MarkDoes
  <2>2. session.status = "waiting"
    BY <1>1, <2>1, TypeParts DEF PhaseAt
  <2>3. c.at = Len(steps)
    BY <1>1, <2>1, <2>2 DEF LogAt
  <2>4. QED
    BY <2>1, <2>3, LogQuiet
<1>5. CASE Activate(t) \/ Deploy(t) \/ Play(t) \/ Load(t)
  <2>1. PICK c \in Command, label \in {"idle", "deploy", "play", "load", "complete"} :
          /\ pc[t] \in {"activate", "deploy", "play", "load"} /\ Goes(t, label, c)
          /\ label = "idle" \/ c.at = cmd[t].at
          /\ UNCHANGED <<session, steps, deaths>>
    BY <1>5, ActivateDoes, DeployDoes, PlayDoes, LoadDoes, NoCommandType, TypeParts
  <2>2. cmd[t].at = Len(steps)
    BY <1>1, <2>1 DEF LogAt, Judging
  <2>3. QED
    BY <2>1, <2>2, LogQuiet DEF Judging
<1>6. QED
  BY <1>2, <1>3, <1>4, <1>5

LEMMA LogEnd ==
  ASSUME OneTerminal, TypeInv, LogInv, NEW t \in Terminals,
         Cleanup(t) \/ Abort(t) \/ Aborted(t) \/ Restore(t)
  PROVE  LogInv'
<1> USE DEF rowVars
<1>1. LogAt(session, steps, deaths, pc[t], cmd[t])
  BY DEF LogInv
<1>2. CASE Cleanup(t) \/ Abort(t) \/ Restore(t)
  <2>1. PICK c \in Command, label \in {"cleanup", "abclean", "abort", "restore", "idle"} :
          /\ pc[t] \in {"cleanup", "abclean", "idle", "restore"} /\ Goes(t, label, c)
          /\ UNCHANGED <<session, steps, deaths>>
    BY <1>2, CleanupDoes, AbortDoes, RestoreDoes, NoCommandType
  <2>2. QED
    BY <2>1, LogQuiet DEF Judging
<1>3. CASE Aborted(t)
  <2>1. Goes(t, "restore", cmd[t]) /\ session'.status = "aborted" /\ UNCHANGED <<steps, deaths>>
    BY <1>3, AbortedDoes
  <2>2. LogAt(session', steps', deaths', "restore", cmd[t])
    BY <2>1 DEF LogAt, Judging
  <2>3. QED
    BY <2>1, <2>2, LogAlone
<1>4. QED
  BY <1>2, <1>3

LEMMA LogDie ==
  ASSUME OneTerminal, TypeInv, PhaseInv, LogInv, NEW t \in Terminals, Die(t)
  PROVE  LogInv'
<1> DEFINE n == Len(steps)
<1>1. /\ Goes(t, "idle", NoCommand) /\ deaths' = deaths + 1
      /\ UNCHANGED <<session, steps>>
  BY DieDoes DEF rowVars
<1>2. /\ n \in Nat /\ deaths \in Nat /\ session.suspects \in SUBSET Mods
      /\ LogAt(session, steps, deaths, pc[t], cmd[t])
      /\ PhaseAt(session, pc[t], cmd[t].read) /\ steps \in Seq(Step)
  BY TypeParts DEF TypeInv, TypeOK, LogInv, PhaseInv
<1>3. /\ Worth(n, deaths + 1) \in Nat /\ Worth(n, deaths) \in Nat
      /\ Worth(n, deaths + 1) = Worth(n, deaths) \/ Worth(n, deaths) = Worth(n, deaths + 1) + 1
      /\ n > 0 => Worth(n, deaths + 1) = Worth(n - 1, deaths)
  BY <1>2, WorthOfNext
<1>4. \A S \in SUBSET Mods :
          LeftAfter(Worth(n, deaths), S) => LeftAfter(Worth(n, deaths + 1), S)
  BY <1>3, FewerLeft
<1>5. session.status = "active" => LeftAfter(Worth(n, deaths + 1), session.suspects)
  <2>1. CASE pc[t] = "wait"
    BY <1>2, <1>3, <2>1 DEF LogAt
  <2>2. CASE pc[t] # "wait"
    BY <1>2, <1>4, <2>2 DEF LogAt
  <2>3. QED
    BY <2>1, <2>2
<1>6. session.status = "waiting" =>
        /\ n > 0 /\ session.step = n
        /\ LeftAfter(Worth(n, deaths + 1), steps[n].enabled)
        /\ LeftAfter(Worth(n, deaths + 1), steps[n].disabled)
  <2> SUFFICES ASSUME session.status = "waiting"
               PROVE  /\ n > 0 /\ session.step = n
                      /\ LeftAfter(Worth(n, deaths + 1), steps[n].enabled)
                      /\ LeftAfter(Worth(n, deaths + 1), steps[n].disabled)
    OBVIOUS
  <2>1. /\ n > 0 /\ session.step = n
        /\ LeftAfter(Worth(n, deaths), steps[n].enabled)
        /\ LeftAfter(Worth(n, deaths), steps[n].disabled)
    BY <1>2 DEF LogAt
  <2>2. steps[n] \in Step
    BY <1>2, <2>1
  <2>3. steps[n].enabled \in SUBSET Mods /\ steps[n].disabled \in SUBSET Mods
    BY <2>2 DEF Step
  <2>4. QED
    BY <1>4, <2>1, <2>3
<1>7. LogAt(session', steps', deaths', "idle", NoCommand)
  BY <1>1, <1>2, <1>5, <1>6 DEF LogAt, Judging
<1>8. StepsAreFew'
  <2> SUFFICES ASSUME n > deaths + 1 PROVE 2 ^ (n - 1 - (deaths + 1)) < N
    BY <1>1 DEF StepsAreFew
  <2>1. 2 ^ (n - 1 - deaths) < N
    <3>1. n > deaths
      BY <1>2
    <3>2. QED
      BY <3>1 DEF LogInv, StepsAreFew
  <2> DEFINE k == n - 1 - (deaths + 1)
  <2>2. k \in Nat /\ k + 1 = n - 1 - deaths
    BY <1>2
  <2> HIDE DEF k
  <2>3. 2 ^ k \in Nat /\ 2 ^ (k + 1) = 2 * (2 ^ k)
    BY <2>2, PowerNext
  <2>4. 2 ^ (k + 1) < N
    BY <2>1, <2>2
  <2>5. 2 ^ k < N
    BY <2>3, <2>4, BisectAssumption
  <2>6. QED
    BY <2>5 DEF k
<1>9. QED
  BY <1>1, <1>7, <1>8 DEF LogInv, OneTerminal, Goes

LEMMA InitLog == Init => LogInv
<1> SUFFICES ASSUME Init PROVE LogInv
  OBVIOUS
<1>1. Len(steps) = 0 /\ session.status = "none"
  BY DEF Init, NoSession
<1>2. ASSUME NEW t \in Terminals PROVE LogAt(session, steps, deaths, pc[t], cmd[t])
  BY <1>1 DEF Init, LogAt, Judging
<1>3. QED
  BY <1>1, <1>2 DEF Init, LogInv, StepsAreFew

LEMMA NextLog ==
  ASSUME OneTerminal, NoDependencies, TypeInv, PhaseInv, LogInv, [Next]_vars
  PROVE  LogInv'
<1>1. CASE UNCHANGED vars
  BY <1>1 DEF LogInv, StepsAreFew, vars, rowVars
<1>2. CASE Next
  <2>1. PICK t \in Terminals :
          \/ Start(t) \/ Run(t) \/ Retry(t) \/ Mark(t) \/ Abort(t) \/ Proceed(t) \/ Die(t)
    BY <1>2 DEF Next
  <2>2. CASE \/ Start(t) \/ Record(t) \/ Wait(t) \/ Complete(t) \/ Advance(t)
    BY <2>2, LogStart, LogRecord, LogWait, LogComplete, LogAdvance
  <2>3. CASE ~(Start(t) \/ Record(t) \/ Wait(t) \/ Complete(t) \/ Advance(t))
    BY <2>1, <2>3, LogGame, LogEnd, LogDie DEF Proceed
  <2>4. QED
    BY <2>2, <2>3
<1>3. QED
  BY <1>1, <1>2

\* n suspects none of which depends on another take no more than log2 n steps,
\* rounded up (next_candidate_with_dependencies, apply_result), in one
\* terminal, and one more for each command that died.
THEOREM LogarithmicButForDeaths ==
  ASSUME OneTerminal, NoDependencies
  PROVE  Spec => []StepsAreFew
<1>1. TypeInv /\ PhaseInv /\ LogInv /\ [Next]_vars => LogInv'
  BY NextLog
<1>2. LogInv => StepsAreFew
  BY DEF LogInv
<1>3. QED
  BY <1>1, <1>2, InitLog, PhasesKept, TypesKept, PTL DEF Spec

\* So if none dies they take no more than log2 n.
THEOREM LogarithmicSearch ==
  ASSUME OneTerminal, NoDependencies
  PROVE  Spec => [](deaths = 0 => StepsAreLog)
<1>1. TypeInv /\ StepsAreFew => (deaths = 0 => StepsAreLog)
  BY DEF StepsAreFew, StepsAreLog, TypeInv, TypeOK
<1>2. QED
  BY <1>1, LogarithmicButForDeaths, TypesKept, PTL

==============================================================================
