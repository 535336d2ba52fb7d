------------------------------- MODULE TaskQueue -------------------------------
(***************************************************************************)
(* The task queue of scripts/cron/pipeline.py: research drops task files,  *)
(* step_task claims the oldest one and points it at a plan, step_implement *)
(* takes the oldest planned one and turns it into a pull request.          *)
(*                                                                         *)
(* The queue is a directory of JSON files with no lock of their own.  Each *)
(* run parses a file once, works for minutes and writes the whole parsed   *)
(* object back, so a run holds a copy that may be out of date.  A file     *)
(* written by a run that is killed may be left torn: it parses no more and *)
(* every scan of the queue passes over it.                                 *)
(*                                                                         *)
(* A scan of the directory, the read or the write of one file is one step. *)
(* The result file is read only through a task that points at it, so it is *)
(* kept as what the gates ask of it.  The worktree and the branch belong   *)
(* to one attempt and are left out.                                        *)
(***************************************************************************)
EXTENDS Integers, FiniteSets

CONSTANTS
    TaskIds,    \* task numbers, in the order of their file names
    Planners,   \* runs of step_task the lock lets in together
    NoTask,     \* a run that works on no task
    CanDie,     \* runs can be killed
    Cooldown,   \* IMPLEMENT_COOLDOWN_MIN
    Period,     \* time between two cron fires of implement
    MaxRun      \* bound on an implement run, from its timeouts

ASSUME QueueConstants ==
    /\ TaskIds \subseteq Nat
    /\ NoTask \notin TaskIds
    /\ CanDie \in BOOLEAN
    /\ Cooldown \in Nat
    /\ Period \in Nat \ {0}
    /\ MaxRun \in Nat

(* openclaw_cron_setup.sh: fired every two hours, cooldown one hour        *)
ASSUME CronSlowerThanCooldown == Cooldown <= Period

VARIABLES
    file,       \* the task files
    fit,        \* tasks whose priority, targets and plan pass the gates
    planner,    \* the runs of step_task
    impl,       \* the run of step_implement
    prs,        \* tasks with an open pull request (GitHub)
    testGreen,  \* the test envelope is a pass of the last 24 hours
    cool,       \* minutes until the implement envelope is old enough
    tick,       \* time since cron last fired implement
    due,        \* cron has fired implement and the run has not begun
    broken      \* history: tasks a run died or raised on

vars == <<file, fit, planner, impl, prs, testGreen, cool, tick, due, broken>>
clock == <<cool, tick, due>>

States == {"absent", "torn", "open", "claimed", "planned"}
Marks == {"none", "branch", "failed", "obsolete"}
Files == [state : States, mark : Marks]
AbsentFile == [state |-> "absent", mark |-> "none"]

PlannerPhases == {"off", "claiming", "planning", "pointing"}
ImplPhases == {"off", "working", "opened", "reporting"}
Planning == [at : PlannerPhases, task : TaskIds \cup {NoTask}, copy : Files]
Idle == [at |-> "off", task |-> NoTask, copy |-> AbsentFile]
Implementing ==
    [at : ImplPhases, task : TaskIds \cup {NoTask}, copy : Files, age : Nat]
ImplIdle == [at |-> "off", task |-> NoTask, copy |-> AbsentFile, age |-> 0]

TypeOK ==
    /\ file \in [TaskIds -> Files]
    /\ fit \in SUBSET TaskIds
    /\ planner \in [Planners -> Planning]
    /\ impl \in Implementing
    /\ prs \in SUBSET TaskIds
    /\ testGreen \in BOOLEAN
    /\ cool \in 0..Cooldown
    /\ tick \in 0..(Period - 1)
    /\ due \in BOOLEAN
    /\ broken \in SUBSET TaskIds
    /\ \A p \in Planners :
          planner[p].at # "off" <=> planner[p].task \in TaskIds
    /\ impl.at # "off" <=> impl.task \in TaskIds

Init ==
    /\ file = [t \in TaskIds |-> AbsentFile]
    /\ fit = {}
    /\ planner = [p \in Planners |-> Idle]
    /\ impl = ImplIdle
    /\ prs = {}
    /\ testGreen = FALSE
    /\ cool = 0
    /\ tick = 0
    /\ due = FALSE
    /\ broken = {}

-----------------------------------------------------------------------------

IsOldest(t, S) == t \in S /\ \A u \in S : t <= u

(* research writes the files of one answer one after the other             *)
DropTask(t) ==
    /\ file[t].state = "absent"
    /\ \A u \in TaskIds : u < t => file[u].state # "absent"
    /\ file' = [file EXCEPT ![t] = [state |-> "open", mark |-> "none"]]
    /\ UNCHANGED <<fit, planner, impl, prs, testGreen, clock, broken>>

(* research is killed while it writes the file                             *)
DropTorn(t) ==
    /\ CanDie
    /\ file[t].state = "absent"
    /\ \A u \in TaskIds : u < t => file[u].state # "absent"
    /\ file' = [file EXCEPT ![t] = [state |-> "torn", mark |-> "none"]]
    /\ broken' = broken \cup {t}
    /\ UNCHANGED <<fit, planner, impl, prs, testGreen, clock>>

-----------------------------------------------------------------------------
(* step_task *)

Unclaimed == {t \in TaskIds : file[t].state = "open"}

(* the scan keeps the parsed object of the oldest unclaimed task            *)
PickUnclaimed(p) ==
    /\ planner[p].at = "off"
    /\ \E t \in TaskIds :
          /\ IsOldest(t, Unclaimed)
          /\ planner' = [planner EXCEPT ![p] =
                           [at |-> "claiming", task |-> t, copy |-> file[t]]]
    /\ UNCHANGED <<file, fit, impl, prs, testGreen, clock, broken>>

(* writes the copy back under another state, and keeps it                  *)
WriteBack(p, state, phase) ==
    LET new == [planner[p].copy EXCEPT !.state = state] IN
    /\ file' = [file EXCEPT ![planner[p].task] = new]
    /\ planner' = [planner EXCEPT ![p] =
                     [at |-> phase, task |-> planner[p].task, copy |-> new]]

ClaimTask(p) ==
    /\ planner[p].at = "claiming"
    /\ WriteBack(p, "claimed", "planning")
    /\ UNCHANGED <<fit, impl, prs, testGreen, clock, broken>>

(* a mutated form of DraftPlan: a run without a usable answer just ends    *)
DraftPlanOrLeave(p) ==
    /\ planner[p].at = "planning"
    /\ \/ planner' = [planner EXCEPT ![p].at = "pointing"]
       \/ planner' = [planner EXCEPT ![p] = Idle]
    /\ fit' \in {fit \cup {planner[p].task}, fit \ {planner[p].task}}
    /\ UNCHANGED <<file, impl, prs, testGreen, clock, broken>>

(* ask_agent has answered; whatever it said is written as the result       *)
DraftPlan(p) ==
    /\ planner[p].at = "planning"
    /\ planner' = [planner EXCEPT ![p].at = "pointing"]
    /\ fit' \in {fit \cup {planner[p].task}, fit \ {planner[p].task}}
    /\ UNCHANGED <<file, impl, prs, testGreen, clock, broken>>

(* result_path is set in the object parsed before the claim                *)
PointToResult(p) ==
    /\ planner[p].at = "pointing"
    /\ file' = [file EXCEPT ![planner[p].task] =
                  [planner[p].copy EXCEPT !.state = "planned"]]
    /\ planner' = [planner EXCEPT ![p] = Idle]
    /\ UNCHANGED <<fit, impl, prs, testGreen, clock, broken>>

Tear(t) == file' = [file EXCEPT ![t] = [state |-> "torn", mark |-> "none"]]

(* The run is killed, or raises: the claim stays, nothing takes it back.   *)
PlannerDies(p) ==
    /\ CanDie
    /\ planner[p].at # "off"
    /\ \/ UNCHANGED file
       \/ planner[p].at \in {"claiming", "pointing"} /\ Tear(planner[p].task)
    /\ broken' = broken \cup {planner[p].task}
    /\ planner' = [planner EXCEPT ![p] = Idle]
    /\ UNCHANGED <<fit, impl, prs, testGreen, clock>>

-----------------------------------------------------------------------------
(* step_implement *)

(* a mutated form of Eligible: a claimed task need not have its plan yet   *)
EligibleUnplanned ==
    {t \in TaskIds : /\ file[t].state \in {"claimed", "planned"}
                     /\ file[t].mark = "none"
                     /\ t \in fit}

(* _find_implementable_task                                                *)
Eligible ==
    {t \in TaskIds : /\ file[t].state = "planned"
                     /\ file[t].mark = "none"
                     /\ t \in fit}

(* a mutated form of StartCooldown: elapsed <= IMPLEMENT_COOLDOWN_MIN       *)
StartLongerCooldown == cool' = Cooldown + 1

(* The implement envelope is written: every outcome, "skipped" included,   *)
(* starts the cooldown again.                                              *)
StartCooldown == cool' = Cooldown

(* a cron run finds a gate closed or nothing to do                         *)
SkipImplement ==
    /\ impl.at = "off"
    /\ due
    /\ cool > 0 \/ ~testGreen \/ Eligible = {}
    /\ due' = FALSE
    /\ StartCooldown
    /\ UNCHANGED <<file, fit, planner, impl, prs, testGreen, tick, broken>>

(* A run started by hand, at any time: without --force it meets the gates  *)
(* of the cron run, with it only the last.                                 *)
SkipManual ==
    /\ impl.at = "off"
    /\ cool > 0 \/ ~testGreen \/ Eligible = {}
    /\ StartCooldown
    /\ UNCHANGED <<file, fit, planner, impl, prs, testGreen, tick, due, broken>>

(* the lock turns the cron run away: no envelope                           *)
SkipLocked ==
    /\ impl.at # "off"
    /\ due
    /\ due' = FALSE
    /\ UNCHANGED <<file, fit, planner, impl, prs, testGreen, cool, tick, broken>>

TakeTask ==
    /\ impl.at = "off"
    /\ \E t \in TaskIds :
          /\ IsOldest(t, Eligible)
          /\ impl' = [at |-> "working", task |-> t, copy |-> file[t], age |-> 0]
    /\ UNCHANGED <<file, fit, planner, prs, testGreen, cool, tick, broken>>

CronTakesTask == due /\ cool = 0 /\ testGreen /\ due' = FALSE /\ TakeTask

(* by hand: --force opens the cooldown and the test gate                   *)
ManualTakesTask == UNCHANGED due /\ TakeTask

MarkTask(mark) ==
    /\ file' = [file EXCEPT ![impl.task] = [impl.copy EXCEPT !.mark = mark]]
    /\ impl' = [impl EXCEPT !.at = "reporting"]
    /\ UNCHANGED <<fit, planner, prs, testGreen, clock, broken>>

(* _fail: the agent failed, or a guardrail rejects what it committed       *)
Reject == impl.at = "working" /\ MarkTask("failed")

(* no new commit                                                           *)
NothingToDo == impl.at = "working" /\ MarkTask("obsolete")

(* The branch is pushed and _gh_open_pr called.  It opens a pull request   *)
(* or finds the one an earlier attempt opened; an error may hide either.   *)
OpenPR ==
    /\ impl.at = "working"
    /\ prs' \in {prs, prs \cup {impl.task}}
    /\ impl' = [impl EXCEPT !.at = "opened"]
    /\ UNCHANGED <<file, fit, planner, testGreen, clock, broken>>

(* a mutated form of MarkBranch: records the branch only with its PR's url *)
MarkBranchWithUrl ==
    /\ impl.at = "opened"
    /\ MarkTask("branch") \/ MarkTask("none")

(* the branch is recorded whether or not there is a url                    *)
MarkBranch == impl.at = "opened" /\ MarkTask("branch")

Report ==
    /\ impl.at = "reporting"
    /\ impl' = ImplIdle
    /\ StartCooldown
    /\ UNCHANGED <<file, fit, planner, prs, testGreen, tick, due, broken>>

(* The worktree could not be added, the push was refused, or a call raised *)
(* (a timeout): only the envelope says so, the task stays as it was.       *)
GiveUp ==
    /\ impl.at # "off"
    /\ impl' = ImplIdle
    /\ StartCooldown
    /\ broken' = broken \cup {impl.task}
    /\ UNCHANGED <<file, fit, planner, prs, testGreen, tick, due>>

(* the run is killed; the file it was writing is torn                      *)
ImplementerDies ==
    /\ CanDie
    /\ impl.at # "off"
    /\ \/ UNCHANGED <<file, cool>>
       \/ impl.at \in {"working", "opened"} /\ Tear(impl.task) /\ UNCHANGED cool
       \/ impl.at = "reporting" /\ cool' = 0 /\ UNCHANGED file
    /\ impl' = ImplIdle
    /\ broken' = broken \cup {impl.task}
    /\ UNCHANGED <<fit, planner, prs, testGreen, tick, due>>

-----------------------------------------------------------------------------

(* the test agent reports, or its last pass grows too old                  *)
TestTurns ==
    /\ testGreen' = ~testGreen
    /\ UNCHANGED <<file, fit, planner, impl, prs, clock, broken>>

(* time passes: a cron run begins when it is due, runs end within MaxRun   *)
Tick ==
    /\ ~due
    /\ impl.at # "off" => impl.age < MaxRun
    /\ impl' = IF impl.at = "off" THEN impl ELSE [impl EXCEPT !.age = @ + 1]
    /\ cool' = IF cool = 0 THEN 0 ELSE cool - 1
    /\ tick' = (tick + 1) % Period
    /\ due' = ((tick + 1) % Period = 0)
    /\ UNCHANGED <<file, fit, planner, prs, testGreen, broken>>

Research == \E t \in TaskIds : DropTask(t) \/ DropTorn(t)

Plan(p) ==
    \/ PickUnclaimed(p)
    \/ ClaimTask(p)
    \/ DraftPlan(p)
    \/ PointToResult(p)

Implement ==
    \/ Reject
    \/ NothingToDo
    \/ OpenPR
    \/ MarkBranch
    \/ Report
    \/ GiveUp

StartRun == SkipImplement \/ SkipLocked \/ CronTakesTask

Manual == SkipManual \/ ManualTakesTask

Deaths == ImplementerDies \/ \E p \in Planners : PlannerDies(p)

Next ==
    \/ Research
    \/ \E p \in Planners : Plan(p)
    \/ StartRun
    \/ Manual
    \/ Implement
    \/ Deaths
    \/ TestTurns
    \/ Tick

Spec == Init /\ [][Next]_vars

(* cron fires both jobs for ever, and a run that lives goes on; nothing is *)
(* asked of research, of the tests, of manual runs or of GitHub            *)
Fairness ==
    /\ \A p \in Planners : WF_vars(Plan(p))
    /\ WF_vars(Implement)
    /\ WF_vars(StartRun)
    /\ WF_vars(Tick)

FairSpec == Spec /\ Fairness

-----------------------------------------------------------------------------

Holds(p, t) == planner[p].task = t

(* No lost update: while a run works on a task, nobody else writes its     *)
(* file, so the old copy the run writes back is the file as it is.  This   *)
(* is what lets two jobs under two different locks share the files.        *)
CopiesAreCurrent ==
    /\ \A p \in Planners :
          planner[p].at # "off" => file[planner[p].task] = planner[p].copy
    /\ impl.at \in {"working", "opened"} => file[impl.task] = impl.copy

(* The queue gives every task one life (TaskLife), although each run works *)
(* for minutes on a copy of the file and writes all of it back: no write   *)
(* undoes or repeats a step another run has taken meanwhile.               *)
Lives == INSTANCE TaskLife WITH
    Tasks <- TaskIds,
    life <- [t \in TaskIds |-> IF file[t].mark = "none" THEN file[t].state ELSE file[t].mark]
ImplementsLife == Lives!LifeSpec

(* A claim is never taken back, yet a task is claimed without a plan only  *)
(* while its run is at work, or because a run died on that very task.      *)
LostOnlyByDeath ==
    \A t \in TaskIds :
        file[t].state \in {"torn", "claimed"} /\ t \notin broken
            => \E p \in Planners : Holds(p, t)

(* An open pull request is recorded in its task, unless the attempt that   *)
(* opened it is still on, or an attempt was cut short: nobody retries a    *)
(* task whose pull request is open for any other reason.                   *)
OpenPRsAreRecorded ==
    \A t \in prs \ broken :
        file[t].mark = "branch" \/ (impl.at = "opened" /\ impl.task = t)

(* implementation_branch, _failed and _obsolete are final: an attempted    *)
(* task is never attempted again nor marked otherwise, although planners,  *)
(* research and dying runs write the same files.                           *)
MarksAreFinal ==
    [][\A t \in TaskIds :
          file[t].mark # "none" => file'[t].mark = file[t].mark]_vars

(* Every task gets its plan if runs die only finitely often, except those  *)
(* a dead run has torn or claimed.                                         *)
EveryTaskIsPlanned ==
    <>[][~Deaths]_vars =>
        \A t \in TaskIds :
            file[t].state # "absent"
                ~> file[t].state = "planned" \/ t \in broken

(* a manual run is turned away inside the cooldown, and begins it anew     *)
CooldownProlonged == cool > 0 /\ SkipManual

(* Every eligible task is attempted and settled, or manual runs prolong    *)
(* the cooldown for ever, if the tests stay green and attempts are cut     *)
(* short only finitely often: the cron runs that are skipped begin the     *)
(* cooldown again too, and yet never keep the next one out of it.          *)
EligibleTaskIsSettled ==
    /\ <>[]testGreen
    /\ <>[][~(Deaths \/ GiveUp)]_vars
    /\ <>[][~CooldownProlonged]_vars
    => \A t \in TaskIds :
          t \in Eligible
              ~> file[t].mark # "none" \/ file[t].state = "torn"

=============================================================================
