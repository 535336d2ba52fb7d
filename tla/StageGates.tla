------------------------------ MODULE StageGates ------------------------------
(***************************************************************************)
(* The gating chain of scripts/cron/pipeline.py: test -> code-review -> qc *)
(* -> deploy, and the nightly orchestrator that runs the first three steps *)
(* itself.  Steps talk to each other only through result envelopes         *)
(* (results/<agent>-result.json); a step reads its gate's envelope when it *)
(* starts and overwrites its own when it ends.                             *)
(*                                                                         *)
(* Each cron job has at most one run at a time (its lock, see PidLock for  *)
(* when that is so); the orchestrator takes none of the locks of the steps *)
(* it calls.  Writing or reading one envelope is one step.  The gates only *)
(* ask whether an envelope is a recent pass, so "fail", "skipped" and      *)
(* "error" are one status, red, whose time is not kept; a missing or torn  *)
(* envelope reads as none.                                                 *)
(***************************************************************************)
EXTENDS Integers

CONSTANTS
    Jobs,       \* the jobs in the crontab
    MaxAge,     \* age up to which a pass opens a gate (24 hours)
    MaxRun,     \* bound on a step's duration, from its subprocess timeouts
    MaxTime     \* bound on the clock, for model checking

Steps == {"test", "code-review", "qc", "deploy"}
Serial == {"test", "code-review", "qc"}
Agents == Steps \cup {"orchestrator"}

ASSUME GateConstants ==
    /\ Jobs \subseteq Agents
    /\ MaxAge \in Nat
    /\ MaxRun \in Nat
    /\ MaxTime \in Nat

VARIABLES
    now,        \* the clock
    env,        \* the envelope of each agent
    basis,      \* history: the test pass each agent's pass rests on
    phase,      \* where the run of each job is
    since,      \* when that phase of the run began
    rests,      \* history: the test pass the step in progress rests on
    sub,        \* the step the orchestrator is at
    begun,      \* when the orchestrator began its pass
    broke,      \* the orchestrator left its loop on an exception
    summary     \* the envelopes the orchestrator judges

vars == <<now, env, basis, phase, since, rests, sub, begun, broke, summary>>
orchestration == <<sub, begun, broke, summary>>

Envelopes == [status : {"none", "pass", "red"}, at : Nat]
None == [status |-> "none", at |-> 0]
Phases == {"off", "looping", "working", "summing", "judging"}

TypeOK ==
    /\ now \in Nat
    /\ env \in [Agents -> Envelopes]
    /\ basis \in [Agents -> Nat]
    /\ phase \in [Agents -> Phases]
    /\ since \in [Agents -> Nat]
    /\ rests \in [Agents -> Nat]
    /\ sub \in Serial
    /\ begun \in Nat
    /\ broke \in BOOLEAN
    /\ summary \in [Serial -> Envelopes]

Init ==
    /\ now = 0
    /\ env = [a \in Agents |-> None]
    /\ basis = [a \in Agents |-> 0]
    /\ phase = [a \in Agents |-> "off"]
    /\ since = [a \in Agents |-> 0]
    /\ rests = [a \in Agents |-> 0]
    /\ sub = "test"
    /\ begun = 0
    /\ broke = FALSE
    /\ summary = [s \in Serial |-> None]

-----------------------------------------------------------------------------

(* a mutated form of IsGreenToday: the age of the pass is not looked at    *)
IsGreenEver(a) == env[a].status = "pass"

(* _is_green_today                                                         *)
IsGreenToday(a) == env[a].status = "pass" /\ now - env[a].at <= MaxAge

(* the agent whose envelope each step gates on                             *)
GateOf == [s \in Steps \ {"test"} |->
              CASE s = "code-review" -> "test"
                [] s = "qc" -> "code-review"
                [] s = "deploy" -> "qc"]

(* the step the run of a job executes                                      *)
StepOf(j) == IF j = "orchestrator" THEN sub ELSE j

Move(j, p, testPass) ==
    /\ phase' = [phase EXCEPT ![j] = p]
    /\ since' = [since EXCEPT ![j] = IF p = "off" THEN 0 ELSE now]
    /\ rests' = [rests EXCEPT ![j] = testPass]

(* _write_envelope: overwrites, stamped with the time of writing           *)
WritePass(a, testPass) ==
    /\ env' = [env EXCEPT ![a] = [status |-> "pass", at |-> now]]
    /\ basis' = [basis EXCEPT ![a] = testPass]

WriteOther(a, status) ==
    /\ env' = [env EXCEPT ![a] = [status |-> status, at |-> 0]]
    /\ basis' = [basis EXCEPT ![a] = 0]

(* a mutated form of Return: the orchestrator's loop goes on to deploy     *)
ReturnRunsOn(j) ==
    IF j # "orchestrator"
    THEN Move(j, "off", 0) /\ UNCHANGED orchestration
    ELSE /\ Move(j, IF sub = "deploy" THEN "summing" ELSE "looping", 0)
         /\ sub' = CASE sub = "test" -> "code-review"
                     [] sub = "code-review" -> "qc"
                     [] OTHER -> "deploy"
         /\ UNCHANGED <<begun, broke, summary>>

(* The step has returned: a cron run ends, the orchestrator goes on to the *)
(* next step of its loop and after qc to the summary.                      *)
Return(j) ==
    IF j # "orchestrator"
    THEN Move(j, "off", 0) /\ UNCHANGED orchestration
    ELSE /\ Move(j, IF sub = "qc" THEN "summing" ELSE "looping", 0)
         /\ sub' = IF sub = "test" THEN "code-review" ELSE "qc"
         /\ UNCHANGED <<begun, broke, summary>>

(* a job is about to enter its step: cron fires it, or the orchestrator's  *)
(* loop has come to it                                                     *)
AtStep(j) == phase[j] = IF j = "orchestrator" THEN "looping" ELSE "off"

(* step_test has no gate; the others start when their gate is green        *)
PassGate(j) ==
    LET s == StepOf(j) IN
    /\ AtStep(j)
    /\ s # "test" => IsGreenToday(GateOf[s])
    /\ Move(j, "working", IF s = "test" THEN 0 ELSE basis[GateOf[s]])
    /\ UNCHANGED <<now, env, basis, orchestration>>

(* a mutated form of SkipStep: the previous result is left in place        *)
SkipKeepsResult(j) ==
    LET s == StepOf(j) IN
    /\ AtStep(j)
    /\ s # "test"
    /\ ~IsGreenToday(GateOf[s])
    /\ Return(j)
    /\ UNCHANGED <<now, env, basis>>

(* gate not green: a "skipped" envelope replaces the previous result       *)
SkipStep(j) ==
    LET s == StepOf(j) IN
    /\ AtStep(j)
    /\ s # "test"
    /\ ~IsGreenToday(GateOf[s])
    /\ WriteOther(s, "red")
    /\ Return(j)
    /\ UNCHANGED now

(* pytest or deploy.py returned 0, ask_agent's reply says "pass" or says   *)
(* something that is no status at all (_llm.py)                            *)
FinishPass(j) ==
    LET s == StepOf(j) IN
    /\ phase[j] = "working"
    /\ WritePass(s, IF s = "test" THEN now ELSE rests[j])
    /\ Return(j)
    /\ UNCHANGED now

(* a failure, a pytest timeout, an agent that failed or was not available  *)
FinishRed(j) ==
    /\ phase[j] = "working"
    /\ WriteOther(StepOf(j), "red")
    /\ Return(j)
    /\ UNCHANGED now

(* Another exception (git, ruff or deploy.py timed out) ends the step with *)
(* a "fail" envelope: written by main() for a cron run, which is FinishRed *)
(* again, and by the orchestrator, which then leaves its loop.             *)
BreakLoop ==
    /\ phase["orchestrator"] = "working"
    /\ WriteOther(sub, "red")
    /\ Move("orchestrator", "summing", 0)
    /\ broke' = TRUE
    /\ UNCHANGED <<now, sub, begun, summary>>

BeginLoop ==
    /\ "orchestrator" \in Jobs
    /\ phase["orchestrator"] = "off"
    /\ Move("orchestrator", "looping", 0)
    /\ begun' = now
    /\ UNCHANGED <<now, env, basis, sub, broke, summary>>

(* the run's locals end with it                                            *)
EndLoop ==
    /\ Move("orchestrator", "off", 0)
    /\ sub' = "test"
    /\ begun' = 0
    /\ broke' = FALSE
    /\ summary' = [s \in Serial |-> None]

(* the orchestrator reads the three envelopes, whatever their age, then    *)
(* asks for a recommendation                                               *)
ReadSummary ==
    /\ phase["orchestrator"] = "summing"
    /\ summary' = [s \in Serial |-> env[s]]
    /\ Move("orchestrator", "judging", 0)
    /\ UNCHANGED <<now, env, basis, sub, begun, broke>>

AllGreen == \A s \in Serial : summary[s].status = "pass"

(* an exception on the way to the report makes main() write "fail"         *)
WriteVerdict ==
    /\ phase["orchestrator"] = "judging"
    /\ \/ AllGreen /\ WritePass("orchestrator", 0)
       \/ WriteOther("orchestrator", "red")
    /\ EndLoop
    /\ UNCHANGED now

(* The run is killed; the envelope it may have been writing is torn.       *)
Crash(j) ==
    /\ phase[j] # "off"
    /\ \/ UNCHANGED <<env, basis>>
       \/ phase[j] \in {"looping", "working"} /\ WriteOther(StepOf(j), "none")
       \/ phase[j] = "judging" /\ WriteOther(j, "none")
    /\ IF j = "orchestrator"
       THEN EndLoop
       ELSE Move(j, "off", 0) /\ UNCHANGED orchestration
    /\ UNCHANGED now

Tick ==
    /\ now < MaxTime
    /\ \A j \in Jobs : phase[j] # "off" => now - since[j] < MaxRun
    /\ now' = now + 1
    /\ UNCHANGED <<env, basis, phase, since, rests, orchestration>>

JobNext(j) ==
    \/ PassGate(j)
    \/ SkipStep(j)
    \/ FinishPass(j)
    \/ FinishRed(j)
    \/ Crash(j)

Orchestrate == BeginLoop \/ BreakLoop \/ ReadSummary \/ WriteVerdict

Next == (\E j \in Jobs : JobNext(j)) \/ Orchestrate \/ Tick

Spec == Init /\ [][Next]_vars

-----------------------------------------------------------------------------

(* how many gates lie between a step and the tests                         *)
Depth == [a \in Steps |->
             CASE a = "test" -> 0
               [] a = "code-review" -> 1
               [] a = "qc" -> 2
               [] a = "deploy" -> 3]

Window == MaxAge + MaxRun

(* However cron runs, the orchestrator, crashes and expired envelopes      *)
(* interleave, no pass outlives the tests it rests on by more than one     *)
(* gate window per stage; the test pass behind a deployment in progress is *)
(* at most three windows old.  Each gate looks only one stage back, so     *)
(* this is all the chain gives.                                            *)
PassesAreBacked ==
    /\ \A a \in Steps :
          env[a].status = "pass" => env[a].at - basis[a] <= Depth[a] * Window
    /\ \A j \in Jobs :
          phase[j] = "working" /\ StepOf(j) # "test"
              => now - rests[j] <= Depth[StepOf(j)] * Window

(* A complete orchestrator pass is judged on its own results or newer      *)
(* ones: unless an exception cut its loop short, every pass in its summary *)
(* was written after it began, cron runs of the same steps notwithstanding. *)
CompletePassIsFresh ==
    phase["orchestrator"] = "judging" /\ ~broke
        => \A s \in Serial :
              summary[s].status = "pass" => summary[s].at >= begun

=============================================================================
