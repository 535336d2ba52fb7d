--------------------------- MODULE StageGatesProofs ---------------------------
(***************************************************************************)
(* The age bound of the gating chain and the freshness of a complete       *)
(* orchestrator pass, for every age limit, step duration and crontab.      *)
(***************************************************************************)
EXTENDS StageGates, TLAPS

(* One gate lies between a step and the step it gates on.                  *)
LEMMA OneGateDeeper ==
    ASSUME NEW s \in Steps \ {"test"}
    PROVE  /\ GateOf[s] \in Steps
           /\ Depth[s] * Window = (Depth[GateOf[s]] * Window) + Window
<1>1. Window \in Int
  BY GateConstants DEF Window
<1>2. CASE s = "code-review"
  <2>1. GateOf[s] = "test" /\ Depth[s] = 1 /\ Depth["test"] = 0
    BY <1>2 DEF GateOf, Depth, Steps
  <2> QED
    BY <2>1, <1>1 DEF Steps
<1>3. CASE s = "qc"
  <2>1. GateOf[s] = "code-review" /\ Depth[s] = 2 /\ Depth["code-review"] = 1
    BY <1>3 DEF GateOf, Depth, Steps
  <2> QED
    BY <2>1, <1>1 DEF Steps
<1>4. CASE s = "deploy"
  <2>1. GateOf[s] = "qc" /\ Depth[s] = 3 /\ Depth["qc"] = 2
    BY <1>4 DEF GateOf, Depth, Steps
  <2> QED
    BY <2>1, <1>1 DEF Steps
<1> QED
  BY <1>2, <1>3, <1>4 DEF Steps

LEMMA DepthBound ==
    /\ Depth["test"] * Window = 0
    /\ \A s \in Steps : Depth[s] * Window \in Nat
<1>1. Window \in Nat
  BY GateConstants DEF Window
<1>2. /\ Depth["test"] = 0 /\ Depth["code-review"] = 1
      /\ Depth["qc"] = 2 /\ Depth["deploy"] = 3
  BY DEF Depth, Steps
<1> QED
  BY <1>1, <1>2 DEF Steps

LEMMA StepIsAStep ==
    ASSUME TypeOK, NEW j \in Jobs
    PROVE  /\ j \in Agents
           /\ StepOf(j) \in Steps
           /\ StepOf(j) \in Agents
           /\ j = "orchestrator" => StepOf(j) \in Serial
  BY GateConstants DEF TypeOK, StepOf, Steps, Serial, Agents

-----------------------------------------------------------------------------

(* What the helpers of the actions leave behind is well typed.             *)
LEMMA WriteTypes ==
    ASSUME TypeOK, NEW a \in Agents, NEW t \in Nat
    PROVE  /\ WritePass(a, t) => /\ env' \in [Agents -> Envelopes]
                                 /\ basis' \in [Agents -> Nat]
           /\ \A status \in {"none", "red"} :
                 WriteOther(a, status) => /\ env' \in [Agents -> Envelopes]
                                          /\ basis' \in [Agents -> Nat]
<1>1. /\ [status |-> "pass", at |-> now] \in Envelopes
      /\ \A status \in {"none", "red"} : [status |-> status, at |-> 0] \in Envelopes
  BY DEF TypeOK, Envelopes
<1> QED
  BY <1>1 DEF TypeOK, WritePass, WriteOther

LEMMA MoveTypes ==
    ASSUME TypeOK, NEW j \in Agents, NEW p \in Phases, NEW t \in Nat,
           Move(j, p, t)
    PROVE  /\ phase' \in [Agents -> Phases]
           /\ since' \in [Agents -> Nat]
           /\ rests' \in [Agents -> Nat]
  BY DEF TypeOK, Move

LEMMA LoopTypes ==
    ASSUME TypeOK
    PROVE  /\ \A j \in Agents : Return(j) =>
                 /\ phase' \in [Agents -> Phases]
                 /\ since' \in [Agents -> Nat]
                 /\ rests' \in [Agents -> Nat]
                 /\ sub' \in Serial
                 /\ UNCHANGED <<begun, broke, summary>>
           /\ EndLoop =>
                 /\ phase' \in [Agents -> Phases]
                 /\ since' \in [Agents -> Nat]
                 /\ rests' \in [Agents -> Nat]
                 /\ sub' \in Serial
                 /\ begun' \in Nat
                 /\ broke' \in BOOLEAN
                 /\ summary' \in [Serial -> Envelopes]
<1>1. {"off", "summing", "looping"} \subseteq Phases /\ None \in Envelopes
  BY DEF Phases, None, Envelopes
<1>2. "orchestrator" \in Agents
  BY DEF Agents
<1>3. ASSUME NEW j \in Agents, Return(j)
      PROVE  /\ phase' \in [Agents -> Phases]
             /\ since' \in [Agents -> Nat]
             /\ rests' \in [Agents -> Nat]
             /\ sub' \in Serial
             /\ UNCHANGED <<begun, broke, summary>>
  <2>1. CASE j # "orchestrator"
    BY <1>1, <1>3, <2>1, MoveTypes DEF Return, orchestration, TypeOK
  <2>2. CASE j = "orchestrator"
    BY <1>1, <1>3, <2>2, MoveTypes DEF Return, Serial
  <2> QED
    BY <2>1, <2>2
<1>4. ASSUME EndLoop
      PROVE  /\ phase' \in [Agents -> Phases]
             /\ since' \in [Agents -> Nat]
             /\ rests' \in [Agents -> Nat]
             /\ sub' \in Serial
             /\ begun' \in Nat
             /\ broke' \in BOOLEAN
             /\ summary' \in [Serial -> Envelopes]
  <2>1. /\ phase' \in [Agents -> Phases]
        /\ since' \in [Agents -> Nat]
        /\ rests' \in [Agents -> Nat]
    BY <1>1, <1>2, <1>4, MoveTypes DEF EndLoop
  <2>2. summary' \in [Serial -> Envelopes]
    BY <1>1, <1>4 DEF EndLoop
  <2> QED
    BY <1>4, <2>1, <2>2 DEF EndLoop, Serial
<1> QED
  BY <1>3, <1>4

(* Envelopes, phases and the orchestrator's locals keep their types.       *)
LEMMA TypeInductive == TypeOK /\ [Next]_vars => TypeOK'
<1> SUFFICES ASSUME TypeOK, [Next]_vars
             PROVE  TypeOK'
  OBVIOUS
<1> "orchestrator" \in Agents
  BY DEF Agents
<1>0. {"off", "looping", "working", "summing", "judging"} \subseteq Phases
  BY DEF Phases
<1>1. CASE UNCHANGED vars
  BY <1>1 DEF vars, TypeOK
<1>2. ASSUME NEW j \in Jobs, PassGate(j)
      PROVE  TypeOK'
  <2>1. (IF StepOf(j) = "test" THEN 0 ELSE basis[GateOf[StepOf(j)]]) \in Nat
    BY StepIsAStep, OneGateDeeper DEF Agents, TypeOK
  <2>2. /\ phase' \in [Agents -> Phases]
        /\ since' \in [Agents -> Nat]
        /\ rests' \in [Agents -> Nat]
    BY <1>0, <1>2, <2>1, MoveTypes, StepIsAStep DEF PassGate
  <2> QED
    BY <1>2, <2>2 DEF PassGate, TypeOK, orchestration
<1>3. ASSUME NEW j \in Jobs, SkipStep(j)
      PROVE  TypeOK'
  <2>1. env' \in [Agents -> Envelopes] /\ basis' \in [Agents -> Nat]
    BY <1>3, WriteTypes, StepIsAStep DEF SkipStep
  <2> QED
    BY <1>3, <2>1, LoopTypes, StepIsAStep DEF SkipStep, TypeOK
<1>4. ASSUME NEW j \in Jobs, FinishPass(j)
      PROVE  TypeOK'
  <2>1. (IF StepOf(j) = "test" THEN now ELSE rests[j]) \in Nat
    BY StepIsAStep DEF TypeOK
  <2>2. env' \in [Agents -> Envelopes] /\ basis' \in [Agents -> Nat]
    BY <1>4, <2>1, WriteTypes, StepIsAStep DEF FinishPass
  <2> QED
    BY <1>4, <2>2, LoopTypes, StepIsAStep DEF FinishPass, TypeOK
<1>5. ASSUME NEW j \in Jobs, FinishRed(j)
      PROVE  TypeOK'
  <2>1. env' \in [Agents -> Envelopes] /\ basis' \in [Agents -> Nat]
    BY <1>5, WriteTypes, StepIsAStep DEF FinishRed
  <2> QED
    BY <1>5, <2>1, LoopTypes, StepIsAStep DEF FinishRed, TypeOK
<1>6. ASSUME NEW j \in Jobs, Crash(j)
      PROVE  TypeOK'
  <2>1. env' \in [Agents -> Envelopes] /\ basis' \in [Agents -> Nat]
    BY <1>6, WriteTypes, StepIsAStep DEF Crash, TypeOK
  <2>2. CASE j = "orchestrator"
    BY <1>6, <2>1, <2>2, LoopTypes DEF Crash, TypeOK
  <2>3. CASE j # "orchestrator"
    BY <1>0, <1>6, <2>1, <2>3, MoveTypes, StepIsAStep
       DEF Crash, TypeOK, orchestration
  <2> QED
    BY <2>2, <2>3
<1>7. CASE BreakLoop
  <2>1. sub \in Agents
    BY DEF TypeOK, Serial, Agents, Steps
  <2>2. env' \in [Agents -> Envelopes] /\ basis' \in [Agents -> Nat]
    BY <1>7, <2>1, WriteTypes DEF BreakLoop
  <2> QED
    BY <1>0, <1>7, <2>2, MoveTypes DEF BreakLoop, TypeOK
<1>8. CASE BeginLoop
  BY <1>0, <1>8, MoveTypes DEF BeginLoop, TypeOK
<1>9. CASE ReadSummary
  <2>1. summary' \in [Serial -> Envelopes]
    BY <1>9 DEF ReadSummary, TypeOK, Serial, Agents, Steps
  <2> QED
    BY <1>0, <1>9, <2>1, MoveTypes DEF ReadSummary, TypeOK
<1>10. CASE WriteVerdict
  <2>1. env' \in [Agents -> Envelopes] /\ basis' \in [Agents -> Nat]
    BY <1>10, WriteTypes DEF WriteVerdict
  <2> QED
    BY <1>10, <2>1, LoopTypes DEF WriteVerdict, TypeOK
<1>11. CASE Tick
  BY <1>11 DEF Tick, TypeOK, orchestration
<1> QED
  BY <1>1, <1>2, <1>3, <1>4, <1>5, <1>6, <1>7, <1>8, <1>9, <1>10, <1>11
     DEF Next, JobNext, Orchestrate

(* Every reachable state of the gating chain is well typed.                *)
THEOREM TypeCorrect == Spec => []TypeOK
<1>1. None \in Envelopes /\ "off" \in Phases /\ "test" \in Serial
  BY DEF None, Envelopes, Phases, Serial
<1>2. ASSUME Init
      PROVE  TypeOK
  <2>1. env \in [Agents -> Envelopes] /\ summary \in [Serial -> Envelopes]
    BY <1>1, <1>2 DEF Init
  <2>2. phase \in [Agents -> Phases] /\ sub \in Serial /\ broke \in BOOLEAN
    BY <1>1, <1>2 DEF Init
  <2>3. /\ now \in Nat /\ begun \in Nat
        /\ basis \in [Agents -> Nat]
        /\ since \in [Agents -> Nat]
        /\ rests \in [Agents -> Nat]
    BY <1>2 DEF Init
  <2> QED
    BY <2>1, <2>2, <2>3 DEF TypeOK
<1> QED
  BY <1>2, TypeInductive, PTL DEF Spec

-----------------------------------------------------------------------------

(* What makes PassesAreBacked inductive: a step in progress started while  *)
(* its gate was green, and has not been in progress longer than MaxRun.    *)
EnvBacked ==
    \A a \in Steps :
        env[a].status = "pass" => env[a].at - basis[a] <= Depth[a] * Window

RunsBounded ==
    \A j \in Jobs : phase[j] # "off" => now - since[j] <= MaxRun

RunsBacked ==
    \A j \in Jobs :
        phase[j] = "working" /\ StepOf(j) # "test"
            => (since[j] - rests[j]) + MaxRun <= Depth[StepOf(j)] * Window

Backed == EnvBacked /\ RunsBounded /\ RunsBacked

(* A job that leaves its step or its phase touches no other job.           *)
Leaves(j) ==
    /\ phase'[j] # "working"
    /\ phase'[j] # "off" => since'[j] = now
    /\ \A i \in Jobs \ {j} :
          /\ phase'[i] = phase[i]
          /\ since'[i] = since[i]
          /\ rests'[i] = rests[i]
          /\ StepOf(i)' = StepOf(i)

LEMMA LeavingTheStep ==
    ASSUME TypeOK, NEW j \in Jobs
    PROVE  /\ Return(j) => Leaves(j)
           /\ j = "orchestrator" /\ EndLoop => Leaves(j)
           /\ \A p \in {"off", "looping", "summing", "judging"} :
                 /\ Move(j, p, 0)
                 /\ j = "orchestrator" \/ UNCHANGED sub
                 => Leaves(j)
<1> USE GateConstants DEF TypeOK
<1>1. ASSUME NEW p \in {"off", "looping", "summing", "judging"}, Move(j, p, 0),
             j = "orchestrator" \/ UNCHANGED sub
      PROVE  Leaves(j)
  <2>1. /\ phase'[j] = p
        /\ p # "off" => since'[j] = now
        /\ \A i \in Jobs \ {j} : /\ phase'[i] = phase[i]
                                 /\ since'[i] = since[i]
                                 /\ rests'[i] = rests[i]
    BY <1>1 DEF Move
  <2>2. \A i \in Jobs \ {j} : StepOf(i)' = StepOf(i)
    BY <1>1 DEF StepOf
  <2> QED
    BY <2>1, <2>2 DEF Leaves
<1>2. Return(j) => Leaves(j)
  BY <1>1 DEF Return, orchestration
<1>3. j = "orchestrator" /\ EndLoop => Leaves(j)
  BY <1>1 DEF EndLoop
<1> QED
  BY <1>1, <1>2, <1>3

LEMMA LeavingKeepsRuns ==
    ASSUME TypeOK, Backed, NEW j \in Jobs, Leaves(j), UNCHANGED now
    PROVE  RunsBounded' /\ RunsBacked'
<1>1. ASSUME NEW i \in Jobs, phase'[i] # "off"
      PROVE  now' - since'[i] <= MaxRun
  BY <1>1, GateConstants DEF Leaves, Backed, RunsBounded, TypeOK
<1>2. ASSUME NEW i \in Jobs, phase'[i] = "working", StepOf(i)' # "test"
      PROVE  (since'[i] - rests'[i]) + MaxRun <= Depth[StepOf(i)'] * Window
  BY <1>2 DEF Leaves, Backed, RunsBacked
<1> QED
  BY <1>1, <1>2 DEF RunsBounded, RunsBacked

(* Replacing an envelope by one that is no pass, or by a verdict of the    *)
(* orchestrator, which no gate reads, keeps the envelopes backed.          *)
LEMMA OtherKeepsEnvBacked ==
    ASSUME TypeOK, EnvBacked, NEW a \in Agents,
           \/ \E status \in {"none", "red"} : WriteOther(a, status)
           \/ a = "orchestrator" /\ WritePass(a, 0)
           \/ UNCHANGED <<env, basis>>
    PROVE  EnvBacked'
<1> SUFFICES ASSUME NEW b \in Steps, env'[b].status = "pass"
             PROVE  env'[b].at - basis'[b] <= Depth[b] * Window
  BY DEF EnvBacked
<1>1. b \in Agents /\ b # "orchestrator"
  BY DEF Steps, Agents
<1>2. env'[b] = env[b] /\ basis'[b] = basis[b]
  BY <1>1 DEF TypeOK, WriteOther, WritePass
<1> QED
  BY <1>2 DEF EnvBacked

LEMMA BackedInductive == TypeOK /\ Backed /\ [Next]_vars => Backed'
<1> SUFFICES ASSUME TypeOK, Backed, [Next]_vars
             PROVE  Backed'
  OBVIOUS
<1> "orchestrator" \in Agents
  BY DEF Agents
<1>1. CASE UNCHANGED vars
  <2>1. EnvBacked'
    BY <1>1 DEF vars, Backed, EnvBacked
  <2>2. RunsBounded'
    BY <1>1 DEF vars, Backed, RunsBounded
  <2>3. RunsBacked'
    BY <1>1 DEF vars, Backed, RunsBacked, StepOf
  <2> QED
    BY <2>1, <2>2, <2>3 DEF Backed
<1>2. ASSUME NEW j \in Jobs, PassGate(j)
      PROVE  Backed'
  <2> DEFINE s == StepOf(j)
  <2>1. EnvBacked'
    BY <1>2 DEF PassGate, Backed, EnvBacked
  <2>2. UNCHANGED <<now, sub>> /\ j \in Agents
    BY <1>2, GateConstants DEF PassGate, orchestration
  <2>3. ASSUME NEW i \in Jobs, phase'[i] # "off"
        PROVE  now' - since'[i] <= MaxRun
    BY <1>2, <2>2, <2>3, GateConstants
       DEF PassGate, Move, TypeOK, Backed, RunsBounded
  <2>4. ASSUME NEW i \in Jobs, i # j, phase'[i] = "working",
               StepOf(i)' # "test"
        PROVE  (since'[i] - rests'[i]) + MaxRun <= Depth[StepOf(i)'] * Window
    <3>1. /\ phase'[i] = phase[i] /\ since'[i] = since[i]
          /\ rests'[i] = rests[i] /\ StepOf(i)' = StepOf(i)
      BY <1>2, <2>2, <2>4, GateConstants DEF PassGate, Move, TypeOK, StepOf
    <3> QED
      BY <2>4, <3>1 DEF Backed, RunsBacked
  <2>5. ASSUME StepOf(j)' # "test"
        PROVE  (since'[j] - rests'[j]) + MaxRun <= Depth[StepOf(j)'] * Window
    <3>1. StepOf(j)' = s /\ s \in Steps \ {"test"}
      BY <2>2, <2>5, StepIsAStep DEF StepOf
    <3>2. GateOf[s] \in Steps /\ GateOf[s] \in Agents
      BY <3>1, OneGateDeeper DEF Agents
    <3>3. since'[j] = now /\ rests'[j] = basis[GateOf[s]]
      BY <1>2, <2>2, <3>1 DEF PassGate, Move, TypeOK
    <3>4. /\ now - env[GateOf[s]].at <= MaxAge
          /\ env[GateOf[s]].at - basis[GateOf[s]] <= Depth[GateOf[s]] * Window
      BY <1>2, <3>1, <3>2 DEF PassGate, IsGreenToday, Backed, EnvBacked
    <3>5. /\ now \in Nat /\ basis[GateOf[s]] \in Nat
          /\ env[GateOf[s]].at \in Nat
          /\ Depth[GateOf[s]] * Window \in Nat
      BY <3>2, DepthBound DEF TypeOK, Envelopes
    <3>6. Depth[s] * Window = (Depth[GateOf[s]] * Window) + (MaxAge + MaxRun)
      BY <3>1, OneGateDeeper DEF Window
    <3> HIDE DEF s
    <3> QED
      BY <3>1, <3>3, <3>4, <3>5, <3>6, GateConstants
  <2> QED
    BY <2>1, <2>3, <2>4, <2>5 DEF Backed, RunsBounded, RunsBacked
<1>3. ASSUME NEW j \in Jobs, SkipStep(j) \/ FinishRed(j)
      PROVE  Backed'
  <2>1. WriteOther(StepOf(j), "red") /\ Return(j) /\ UNCHANGED now
    BY <1>3 DEF SkipStep, FinishRed
  <2> QED
    BY <2>1, StepIsAStep, OtherKeepsEnvBacked, LeavingTheStep, LeavingKeepsRuns
       DEF Backed
<1>4. ASSUME NEW j \in Jobs, FinishPass(j)
      PROVE  Backed'
  <2>1. RunsBounded' /\ RunsBacked'
    BY <1>4, LeavingTheStep, LeavingKeepsRuns DEF FinishPass
  <2>2. ASSUME NEW b \in Steps, env'[b].status = "pass"
        PROVE  env'[b].at - basis'[b] <= Depth[b] * Window
    <3>0. b \in Agents /\ StepOf(j) \in Steps /\ StepOf(j) \in Agents /\ j \in Agents
      BY StepIsAStep DEF Agents
    <3>1. CASE b # StepOf(j)
      <4>1. env'[b] = env[b] /\ basis'[b] = basis[b]
        BY <1>4, <3>0, <3>1 DEF FinishPass, WritePass, TypeOK
      <4> QED
        BY <2>2, <4>1 DEF Backed, EnvBacked
    <3>2. CASE b = StepOf(j) /\ b = "test"
      <4>1. env'[b].at = now /\ basis'[b] = now
        BY <1>4, <3>0, <3>2 DEF FinishPass, WritePass, TypeOK
      <4> QED
        BY <3>2, <4>1, DepthBound DEF TypeOK
    <3>3. CASE b = StepOf(j) /\ b # "test"
      <4>1. env'[b].at = now /\ basis'[b] = rests[j]
        BY <1>4, <3>0, <3>3 DEF FinishPass, WritePass, TypeOK
      <4>2. /\ now - since[j] <= MaxRun
            /\ (since[j] - rests[j]) + MaxRun <= Depth[b] * Window
        BY <1>4, <3>3 DEF FinishPass, Backed, RunsBounded, RunsBacked
      <4>3. /\ now \in Nat /\ since[j] \in Nat /\ rests[j] \in Nat
            /\ Depth[b] * Window \in Nat
        BY <3>0, DepthBound DEF TypeOK
      <4> QED
        BY <4>1, <4>2, <4>3, GateConstants
    <3> QED
      BY <3>1, <3>2, <3>3
  <2> QED
    BY <2>1, <2>2 DEF Backed, EnvBacked
<1>5. ASSUME NEW j \in Jobs, Crash(j)
      PROVE  Backed'
  <2>1. EnvBacked'
    BY <1>5, StepIsAStep, OtherKeepsEnvBacked DEF Crash, Backed
  <2>2. Leaves(j) /\ UNCHANGED now
    BY <1>5, LeavingTheStep DEF Crash, orchestration
  <2> QED
    BY <2>1, <2>2, LeavingKeepsRuns DEF Backed
<1>6. CASE Orchestrate
  <2>1. EnvBacked' /\ UNCHANGED now
    <3>1. sub \in Agents
      BY DEF TypeOK, Serial, Agents, Steps
    <3> QED
      BY <1>6, <3>1, OtherKeepsEnvBacked
         DEF Orchestrate, BeginLoop, BreakLoop, ReadSummary, WriteVerdict, Backed
  <2>2. CASE "orchestrator" \in Jobs
    <3>1. Leaves("orchestrator")
      BY <1>6, <2>2, LeavingTheStep
         DEF Orchestrate, BeginLoop, BreakLoop, ReadSummary, WriteVerdict
    <3> QED
      BY <2>1, <2>2, <3>1, LeavingKeepsRuns DEF Backed
  <2>3. CASE "orchestrator" \notin Jobs
    <3>1. \A i \in Jobs : /\ phase'[i] = phase[i] /\ since'[i] = since[i]
                          /\ rests'[i] = rests[i] /\ StepOf(i)' = StepOf(i)
      BY <1>6, <2>3, GateConstants
         DEF Orchestrate, BeginLoop, BreakLoop, ReadSummary, WriteVerdict,
             EndLoop, Move, TypeOK, StepOf
    <3>2. RunsBounded'
      BY <2>1, <3>1 DEF Backed, RunsBounded
    <3>3. RunsBacked'
      BY <2>1, <3>1 DEF Backed, RunsBacked
    <3> QED
      BY <2>1, <3>2, <3>3 DEF Backed
  <2> QED
    BY <2>2, <2>3
<1>7. CASE Tick
  <2>1. EnvBacked'
    BY <1>7 DEF Tick, Backed, EnvBacked
  <2>2. RunsBounded'
    BY <1>7, GateConstants DEF Tick, RunsBounded, TypeOK
  <2>3. RunsBacked'
    BY <1>7 DEF Tick, Backed, RunsBacked, StepOf, orchestration
  <2> QED
    BY <2>1, <2>2, <2>3 DEF Backed
<1> QED
  BY <1>1, <1>2, <1>3, <1>4, <1>5, <1>6, <1>7 DEF Next, JobNext

(* No pass outlives its tests by more than a gate window per stage: in     *)
(* particular a deployment rests on a test pass at most three windows old, *)
(* whatever the crontab, the age limit and the step durations.             *)
THEOREM ChainIsBacked == Spec => []PassesAreBacked
<1>1. Init => Backed
  <2>1. Init => \A a \in Steps : env[a].status = "none"
    BY DEF Init, None, Agents
  <2> QED
    BY <2>1, GateConstants
       DEF Init, Backed, EnvBacked, RunsBounded, RunsBacked
<1>2. TypeOK /\ Backed => PassesAreBacked
  <2> SUFFICES ASSUME TypeOK, Backed, NEW j \in Jobs, phase[j] = "working",
                      StepOf(j) # "test"
               PROVE  now - rests[j] <= Depth[StepOf(j)] * Window
    BY DEF PassesAreBacked, Backed, EnvBacked
  <2>1. /\ now - since[j] <= MaxRun
        /\ (since[j] - rests[j]) + MaxRun <= Depth[StepOf(j)] * Window
    BY DEF Backed, RunsBounded, RunsBacked
  <2>2. /\ now \in Nat /\ since[j] \in Nat /\ rests[j] \in Nat
        /\ Depth[StepOf(j)] * Window \in Nat
    BY StepIsAStep, DepthBound DEF TypeOK
  <2> QED
    BY <2>1, <2>2, GateConstants
<1> QED
  BY <1>1, <1>2, BackedInductive, TypeCorrect, PTL DEF Spec

-----------------------------------------------------------------------------

(* The steps the orchestrator's loop has behind it.                        *)
LoopDone ==
    CASE phase["orchestrator"] = "summing" -> Serial
      [] phase["orchestrator"] \in {"looping", "working"} /\ sub = "qc"
            -> {"test", "code-review"}
      [] phase["orchestrator"] \in {"looping", "working"} /\ sub = "code-review"
            -> {"test"}
      [] OTHER -> {}

DoneStepsFresh ==
    ~broke => \A s \in LoopDone :
                 env[s].status = "pass" => env[s].at >= begun

PassFresh ==
    /\ begun <= now
    /\ phase["orchestrator"] = "off" => sub = "test"
    /\ DoneStepsFresh
    /\ CompletePassIsFresh

(* An envelope is only ever replaced by no pass or by a pass of this very  *)
(* moment.                                                                 *)
LEMMA NewPassIsNow ==
    ASSUME TypeOK, [Next]_vars, NEW s \in Steps, env'[s].status = "pass"
    PROVE  env'[s] = env[s] \/ env'[s].at = now
<1> "orchestrator" \in Agents /\ s \in Agents /\ s # "orchestrator"
  BY DEF Agents, Steps
<1>1. ASSUME NEW a \in Agents, NEW t \in Nat, WritePass(a, t)
      PROVE  env'[s] = env[s] \/ env'[s].at = now
  BY <1>1 DEF WritePass, TypeOK
<1>2. ASSUME NEW a \in Agents, NEW status \in {"none", "red"},
             WriteOther(a, status)
      PROVE  env'[s] = env[s] \/ env'[s].at = now
  BY <1>2 DEF WriteOther, TypeOK
<1>3. ASSUME NEW j \in Jobs, JobNext(j)
      PROVE  env'[s] = env[s] \/ env'[s].at = now
  <2>1. (IF StepOf(j) = "test" THEN now ELSE rests[j]) \in Nat
    BY StepIsAStep DEF TypeOK
  <2> QED
    BY <1>1, <1>2, <1>3, <2>1, StepIsAStep
       DEF JobNext, PassGate, SkipStep, FinishPass, FinishRed, Crash
<1>4. CASE Orchestrate
  <2>1. sub \in Agents
    BY DEF TypeOK, Serial, Agents, Steps
  <2> QED
    BY <1>1, <1>2, <1>4, <2>1
       DEF Orchestrate, BeginLoop, BreakLoop, ReadSummary, WriteVerdict
<1>5. CASE Tick \/ UNCHANGED vars
  BY <1>5 DEF Tick, vars
<1> QED
  BY <1>3, <1>4, <1>5 DEF Next

LEMMA PassFreshInductive == TypeOK /\ PassFresh /\ [Next]_vars => PassFresh'
<1> SUFFICES ASSUME TypeOK, PassFresh, [Next]_vars
             PROVE  PassFresh'
  OBVIOUS
<1> DEFINE O == "orchestrator"
           EnvFresh(s) == env'[s].status = "pass" => env'[s].at >= begun
<1>0. /\ now \in Nat /\ begun \in Nat /\ begun <= now /\ sub \in Serial
      /\ \A s \in Steps : env[s].at \in Nat
      /\ Serial \subseteq Steps
      /\ O \in Agents
  BY DEF TypeOK, PassFresh, Steps, Agents, Serial, Envelopes
(* whatever happens, an envelope that was fresh stays fresh                *)
<1>1. \A s \in Serial :
         (env[s].status = "pass" => env[s].at >= begun) => EnvFresh(s)
  BY <1>0, NewPassIsNow
(* a step that leaves the orchestrator alone keeps its freshness           *)
<1>2. ASSUME phase'[O] = phase[O], UNCHANGED orchestration, now <= now'
      PROVE  PassFresh'
  <2>1. LoopDone' = LoopDone /\ LoopDone \subseteq Serial
    BY <1>2 DEF LoopDone, orchestration, Serial
  <2>2. DoneStepsFresh'
    BY <1>1, <1>2, <2>1 DEF PassFresh, DoneStepsFresh, orchestration
  <2>3. CompletePassIsFresh'
    BY <1>2 DEF PassFresh, CompletePassIsFresh, orchestration
  <2>4. begun' <= now'
    <3>1. now' \in Nat
      BY TypeInductive DEF TypeOK
    <3> QED
      BY <1>0, <1>2, <3>1 DEF orchestration
  <2> QED
    BY <1>2, <2>2, <2>3, <2>4 DEF PassFresh, orchestration
<1>3. ASSUME EndLoop, UNCHANGED now
      PROVE  PassFresh'
  <2>1. phase'[O] = "off" /\ sub' = "test" /\ begun' = 0
    BY <1>0, <1>3 DEF EndLoop, Move, TypeOK
  <2>2. LoopDone' = {}
    BY <2>1 DEF LoopDone
  <2> QED
    BY <1>0, <1>3, <2>1, <2>2 DEF PassFresh, DoneStepsFresh, CompletePassIsFresh
(* the loop goes on: the step it leaves has just written its envelope      *)
<1>4. ASSUME phase[O] \in {"looping", "working"}, Return(O), UNCHANGED now,
             EnvFresh(sub)
      PROVE  PassFresh'
  <2>1. /\ phase'[O] = IF sub = "qc" THEN "summing" ELSE "looping"
        /\ sub' = IF sub = "test" THEN "code-review" ELSE "qc"
        /\ UNCHANGED <<begun, broke, summary>>
    BY <1>0, <1>4 DEF Return, Move, TypeOK
  <2>2. LoopDone' \subseteq LoopDone \cup {sub} /\ LoopDone \subseteq Serial
    <3>1. CASE sub = "test"
      BY <1>4, <2>1, <3>1 DEF LoopDone, Serial
    <3>2. CASE sub = "code-review"
      BY <1>4, <2>1, <3>2 DEF LoopDone, Serial
    <3>3. CASE sub = "qc"
      BY <1>4, <2>1, <3>3 DEF LoopDone, Serial
    <3> QED
      BY <1>0, <3>1, <3>2, <3>3 DEF Serial
  <2>3. DoneStepsFresh'
    BY <1>1, <1>4, <2>1, <2>2 DEF PassFresh, DoneStepsFresh
  <2> QED
    BY <1>0, <1>4, <2>1, <2>3 DEF PassFresh, CompletePassIsFresh
<1>5. CASE UNCHANGED vars
  BY <1>0, <1>2, <1>5 DEF vars, orchestration
<1>6. CASE Tick
  BY <1>0, <1>2, <1>6 DEF Tick
<1>7. ASSUME NEW j \in Jobs, JobNext(j), j # O
      PROVE  PassFresh'
  <2>1. UNCHANGED orchestration /\ UNCHANGED now /\ phase'[O] = phase[O]
    BY <1>0, <1>7, GateConstants
       DEF JobNext, PassGate, SkipStep, FinishPass, FinishRed, Crash, Return,
           Move, TypeOK
  <2> QED
    BY <1>0, <1>2, <2>1
<1>8. ASSUME PassGate(O)
      PROVE  PassFresh'
  <2>1. /\ phase[O] = "looping" /\ phase'[O] = "working"
        /\ UNCHANGED <<now, env, orchestration>>
    BY <1>0, <1>8 DEF PassGate, AtStep, Move, TypeOK
  <2>2. LoopDone' = LoopDone
    BY <2>1 DEF LoopDone, orchestration
  <2> QED
    BY <2>1, <2>2
       DEF PassFresh, DoneStepsFresh, CompletePassIsFresh, orchestration
<1>9. ASSUME SkipStep(O) \/ FinishRed(O)
      PROVE  PassFresh'
  <2>1. /\ phase[O] \in {"looping", "working"} /\ Return(O) /\ UNCHANGED now
        /\ WriteOther(sub, "red")
    BY <1>9 DEF SkipStep, FinishRed, AtStep, StepOf
  <2>2. env'[sub].status = "red"
    BY <1>0, <2>1 DEF WriteOther, TypeOK, Steps, Agents
  <2> QED
    BY <1>4, <2>1, <2>2
<1>10. ASSUME FinishPass(O)
       PROVE  PassFresh'
  <2>1. /\ phase[O] \in {"looping", "working"} /\ Return(O) /\ UNCHANGED now
        /\ WritePass(sub, IF sub = "test" THEN now ELSE rests[O])
    BY <1>10 DEF FinishPass, StepOf
  <2>2. env'[sub].at = now
    BY <1>0, <2>1 DEF WritePass, TypeOK, Steps, Agents
  <2> QED
    BY <1>0, <1>4, <2>1, <2>2
<1>11. ASSUME Crash(O)
       PROVE  PassFresh'
  BY <1>3, <1>11 DEF Crash
<1>12. CASE BeginLoop
  <2>1. /\ phase[O] = "off" /\ phase'[O] = "looping" /\ begun' = now
        /\ UNCHANGED <<now, sub>>
    BY <1>0, <1>12 DEF BeginLoop, Move, TypeOK
  <2>2. LoopDone' = {}
    BY <2>1 DEF LoopDone, PassFresh
  <2> QED
    BY <1>0, <2>1, <2>2 DEF PassFresh, DoneStepsFresh, CompletePassIsFresh
<1>13. CASE BreakLoop
  <2>1. phase'[O] = "summing" /\ broke' /\ UNCHANGED <<now, begun>>
    BY <1>0, <1>13 DEF BreakLoop, Move, TypeOK
  <2> QED
    BY <1>0, <2>1 DEF PassFresh, DoneStepsFresh, CompletePassIsFresh
<1>14. CASE ReadSummary
  <2>1. /\ phase[O] = "summing" /\ phase'[O] = "judging"
        /\ \A s \in Serial : summary'[s] = env[s]
        /\ UNCHANGED <<now, env, sub, begun, broke>>
    BY <1>0, <1>14 DEF ReadSummary, Move, TypeOK
  <2>2. LoopDone = Serial /\ LoopDone' = {}
    BY <2>1 DEF LoopDone
  <2> QED
    BY <1>0, <2>1, <2>2 DEF PassFresh, DoneStepsFresh, CompletePassIsFresh
<1>15. CASE WriteVerdict
  BY <1>3, <1>15 DEF WriteVerdict
<1>16. ASSUME NEW j \in Jobs, JobNext(j)
       PROVE  PassFresh'
  <2>1. CASE j = O
    BY <1>8, <1>9, <1>10, <1>11, <1>16, <2>1 DEF JobNext
  <2> QED
    BY <1>7, <1>16, <2>1
<1> QED
  BY <1>5, <1>6, <1>12, <1>13, <1>14, <1>15, <1>16 DEF Next, Orchestrate

(* A nightly pass that was not cut short judges only results at least as   *)
(* recent as its own beginning, with any number of cron runs interleaved.  *)
THEOREM CompletePassJudgesFresh == Spec => []CompletePassIsFresh
<1>1. Init => PassFresh
  <2>1. Init => phase["orchestrator"] = "off"
    BY DEF Init, Agents
  <2>2. Init => LoopDone = {}
    BY <2>1 DEF LoopDone
  <2> QED
    BY <2>1, <2>2
       DEF Init, PassFresh, DoneStepsFresh, CompletePassIsFresh
<1>2. PassFresh => CompletePassIsFresh
  BY DEF PassFresh
<1> QED
  BY <1>1, <1>2, PassFreshInductive, TypeCorrect, PTL DEF Spec

=============================================================================
