---------------------------- MODULE TaskQueueProofs ----------------------------
(***************************************************************************)
(* Proofs about TaskQueue, for any number of tasks and any run times.  Two *)
(* of the theorems suppose what the lock of step_task is there for, at     *)
(* most one planner at a time.                                             *)
(***************************************************************************)
EXTENDS TaskQueue, TLAPS

AtMostOnePlanner == \A p, q \in Planners : p = q

-----------------------------------------------------------------------------
(* Typing *)

LEMMA WriteBackTypes ==
    ASSUME TypeOK, NEW p \in Planners, planner[p].at # "off",
           NEW s \in States, NEW h \in PlannerPhases \ {"off"}, WriteBack(p, s, h)
    PROVE  /\ file' \in [TaskIds -> Files]
           /\ planner' \in [Planners -> Planning]
           /\ \A q \in Planners :
                 planner'[q].at # "off" <=> planner'[q].task \in TaskIds
<1> DEFINE new == [planner[p].copy EXCEPT !.state = s]
           next == [at |-> h, task |-> planner[p].task, copy |-> new]
<1>1. planner[p] \in Planning /\ planner[p].task \in TaskIds
  BY DEF TypeOK
<1>2. new \in Files
  BY <1>1 DEF Planning, Files
<1>3. next \in Planning
  BY <1>1, <1>2 DEF Planning
<1>4. /\ file' = [file EXCEPT ![planner[p].task] = new]
      /\ planner' = [planner EXCEPT ![p] = next]
  BY DEF WriteBack
<1>5. file' \in [TaskIds -> Files] /\ planner' \in [Planners -> Planning]
  <2> HIDE DEF new, next
  <2> QED BY <1>1, <1>2, <1>3, <1>4 DEF TypeOK
<1>6. \A q \in Planners :
         planner'[q].at # "off" <=> planner'[q].task \in TaskIds
  BY <1>1, <1>4 DEF TypeOK
<1> QED BY <1>5, <1>6

LEMMA IdleTypes ==
    /\ Idle \in Planning
    /\ ImplIdle \in Implementing
    /\ AbsentFile \in Files
BY DEF Idle, ImplIdle, AbsentFile, Planning, Implementing, PlannerPhases,
       ImplPhases, Files, States, Marks

LEMMA IdleHasNoTask == Idle.task \notin TaskIds /\ ImplIdle.task \notin TaskIds
BY QueueConstants DEF Idle, ImplIdle

(* What a planner that gives its task up leaves.                           *)
LEMMA LeavingTypes ==
    ASSUME TypeOK, NEW p \in Planners, planner' = [planner EXCEPT ![p] = Idle]
    PROVE  /\ planner' \in [Planners -> Planning]
           /\ \A q \in Planners :
                 planner'[q].at # "off" <=> planner'[q].task \in TaskIds
<1>1. planner' \in [Planners -> Planning]
  BY IdleTypes DEF TypeOK
<1>2. Idle.at = "off" /\ Idle.task \notin TaskIds
  BY IdleHasNoTask DEF Idle
<1> QED BY <1>1, <1>2 DEF TypeOK

LEMMA TearTypes ==
    ASSUME TypeOK, NEW t \in TaskIds, Tear(t)
    PROVE  file' \in [TaskIds -> Files]
<1>1. [state |-> "torn", mark |-> "none"] \in Files
  BY DEF Files, States, Marks
<1> QED BY <1>1 DEF TypeOK, Tear

LEMMA MarkTypes ==
    ASSUME TypeOK, impl.at # "off", NEW m \in Marks, MarkTask(m)
    PROVE  TypeOK'
<1>1. impl \in Implementing /\ impl.task \in TaskIds
  BY DEF TypeOK
<1>2. [impl.copy EXCEPT !.mark = m] \in Files
  BY <1>1 DEF Implementing, Files
<1>3. file' \in [TaskIds -> Files]
  BY <1>1, <1>2 DEF MarkTask, TypeOK
<1>4. /\ impl' \in Implementing
      /\ impl'.at # "off" <=> impl'.task \in TaskIds
  BY <1>1 DEF MarkTask, Implementing, ImplPhases
<1> QED BY <1>3, <1>4 DEF TypeOK, MarkTask, clock

LEMMA PlannerTypeInductive ==
    ASSUME TypeOK, NEW p \in Planners, Plan(p)
    PROVE  TypeOK'
<1>1. CASE PickUnclaimed(p)
  <2>1. PICK t \in TaskIds :
           /\ IsOldest(t, Unclaimed)
           /\ planner' = [planner EXCEPT ![p] =
                            [at |-> "claiming", task |-> t, copy |-> file[t]]]
    BY <1>1 DEF PickUnclaimed
  <2>2. [at |-> "claiming", task |-> t, copy |-> file[t]] \in Planning
    BY DEF TypeOK, Planning, PlannerPhases
  <2>3. planner' \in [Planners -> Planning]
    BY <2>1, <2>2 DEF TypeOK
  <2>4. \A q \in Planners :
           planner'[q].at # "off" <=> planner'[q].task \in TaskIds
    BY <2>1 DEF TypeOK
  <2> QED BY <1>1, <2>3, <2>4 DEF PickUnclaimed, TypeOK, clock
<1>2. CASE ClaimTask(p)
  <2>1. "claimed" \in States /\ "planning" \in PlannerPhases \ {"off"}
    BY DEF States, PlannerPhases
  <2>2. planner[p].at # "off" /\ WriteBack(p, "claimed", "planning")
    BY <1>2 DEF ClaimTask
  <2>3. /\ file' \in [TaskIds -> Files]
        /\ planner' \in [Planners -> Planning]
        /\ \A q \in Planners :
              planner'[q].at # "off" <=> planner'[q].task \in TaskIds
    BY <2>1, <2>2, WriteBackTypes
  <2> QED BY <1>2, <2>3 DEF ClaimTask, TypeOK, clock
<1>3. CASE DraftPlan(p)
  <2>1. planner[p] \in Planning /\ planner[p].at # "off"
    BY <1>3 DEF DraftPlan, TypeOK
  <2>2. [planner[p] EXCEPT !.at = "pointing"] \in Planning
    BY <2>1 DEF Planning, PlannerPhases
  <2>3. planner' = [planner EXCEPT ![p] = [planner[p] EXCEPT !.at = "pointing"]]
    BY <1>3 DEF DraftPlan
  <2>4. planner' \in [Planners -> Planning]
    BY <2>2, <2>3 DEF TypeOK
  <2>5. \A q \in Planners :
           planner'[q].at # "off" <=> planner'[q].task \in TaskIds
    BY <2>1, <2>3 DEF TypeOK, Planning
  <2>6. fit' \in SUBSET TaskIds
    BY <1>3, <2>1 DEF DraftPlan, TypeOK
  <2> QED BY <1>3, <2>4, <2>5, <2>6 DEF DraftPlan, TypeOK, clock
<1>4. CASE PointToResult(p)
  <2>1. planner[p] \in Planning /\ planner[p].task \in TaskIds
    BY <1>4 DEF PointToResult, TypeOK
  <2>2. [planner[p].copy EXCEPT !.state = "planned"] \in Files
    BY <2>1 DEF Planning, Files, States
  <2>3. file' \in [TaskIds -> Files]
    BY <1>4, <2>1, <2>2 DEF PointToResult, TypeOK
  <2>4. planner' = [planner EXCEPT ![p] = Idle]
    BY <1>4 DEF PointToResult
  <2>5. /\ planner' \in [Planners -> Planning]
        /\ \A q \in Planners :
              planner'[q].at # "off" <=> planner'[q].task \in TaskIds
    BY <2>4, LeavingTypes
  <2> QED BY <1>4, <2>3, <2>5 DEF PointToResult, TypeOK, clock
<1> QED BY <1>1, <1>2, <1>3, <1>4 DEF Plan

LEMMA StartTypeInductive ==
    ASSUME TypeOK, StartRun \/ Manual
    PROVE  TypeOK'
<1>1. ASSUME TakeTask
      PROVE  /\ impl' \in Implementing
             /\ impl'.at # "off" <=> impl'.task \in TaskIds
  <2>1. PICK t \in TaskIds :
           impl' = [at |-> "working", task |-> t, copy |-> file[t], age |-> 0]
    BY <1>1 DEF TakeTask
  <2> QED BY <2>1 DEF TypeOK, Implementing, ImplPhases
<1>2. Cooldown \in 0..Cooldown
  BY QueueConstants
<1>3. CASE SkipImplement
  BY <1>2, <1>3 DEF SkipImplement, StartCooldown, TypeOK
<1>4. CASE SkipManual
  BY <1>2, <1>4 DEF SkipManual, StartCooldown, TypeOK
<1>5. CASE SkipLocked
  BY <1>5 DEF SkipLocked, TypeOK
<1>6. CASE CronTakesTask
  BY <1>1, <1>6 DEF CronTakesTask, TakeTask, TypeOK
<1>7. CASE ManualTakesTask
  BY <1>1, <1>7 DEF ManualTakesTask, TakeTask, TypeOK
<1> QED BY <1>3, <1>4, <1>5, <1>6, <1>7 DEF StartRun, Manual

LEMMA ImplementTypeInductive ==
    ASSUME TypeOK, Implement
    PROVE  TypeOK'
<1>1. Cooldown \in 0..Cooldown
  BY QueueConstants
<1>2. impl \in Implementing
  BY DEF TypeOK
<1>3. CASE Reject \/ NothingToDo \/ MarkBranch
  <2>1. PICK m \in Marks : impl.at # "off" /\ MarkTask(m)
    BY <1>3 DEF Reject, NothingToDo, MarkBranch, Marks
  <2> QED BY <2>1, MarkTypes
<1>4. CASE OpenPR
  <2>1. /\ impl' \in Implementing
        /\ impl'.at # "off" <=> impl'.task \in TaskIds
    BY <1>2, <1>4 DEF OpenPR, TypeOK, Implementing, ImplPhases
  <2>2. prs' \in SUBSET TaskIds
    BY <1>4 DEF OpenPR, TypeOK
  <2> QED BY <1>4, <2>1, <2>2 DEF OpenPR, TypeOK, clock
<1>5. CASE Report \/ GiveUp
  <2>1. impl' = ImplIdle /\ cool' = Cooldown
    BY <1>5 DEF Report, GiveUp, StartCooldown
  <2>2. /\ impl' \in Implementing
        /\ impl'.at # "off" <=> impl'.task \in TaskIds
    BY <2>1, IdleTypes, IdleHasNoTask DEF ImplIdle
  <2>3. broken' \in SUBSET TaskIds
    BY <1>5 DEF Report, GiveUp, TypeOK
  <2> QED BY <1>1, <1>5, <2>1, <2>2, <2>3 DEF Report, GiveUp, TypeOK
<1> QED BY <1>3, <1>4, <1>5 DEF Implement

LEMMA DeathTypeInductive ==
    ASSUME TypeOK, Deaths
    PROVE  TypeOK'
<1>1. CASE ImplementerDies
  <2>1. impl.task \in TaskIds /\ impl' = ImplIdle
    BY <1>1 DEF ImplementerDies, TypeOK
  <2>2. /\ impl' \in Implementing
        /\ impl'.at # "off" <=> impl'.task \in TaskIds
    BY <2>1, IdleTypes, IdleHasNoTask DEF ImplIdle
  <2>3. file' \in [TaskIds -> Files]
    BY <1>1, <2>1, TearTypes DEF ImplementerDies, TypeOK
  <2>4. cool' \in 0..Cooldown
    BY <1>1, QueueConstants DEF ImplementerDies, TypeOK
  <2>5. broken' \in SUBSET TaskIds
    BY <1>1, <2>1 DEF ImplementerDies, TypeOK
  <2> QED BY <1>1, <2>2, <2>3, <2>4, <2>5 DEF ImplementerDies, TypeOK
<1>2. ASSUME NEW p \in Planners, PlannerDies(p)
      PROVE  TypeOK'
  <2>1. planner[p].task \in TaskIds /\ planner' = [planner EXCEPT ![p] = Idle]
    BY <1>2 DEF PlannerDies, TypeOK
  <2>2. /\ planner' \in [Planners -> Planning]
        /\ \A q \in Planners :
              planner'[q].at # "off" <=> planner'[q].task \in TaskIds
    BY <2>1, LeavingTypes
  <2>3. file' \in [TaskIds -> Files]
    BY <1>2, <2>1, TearTypes DEF PlannerDies, TypeOK
  <2>4. broken' \in SUBSET TaskIds
    BY <1>2, <2>1 DEF PlannerDies, TypeOK
  <2> QED BY <1>2, <2>2, <2>3, <2>4 DEF PlannerDies, TypeOK, clock
<1> QED BY <1>1, <1>2 DEF Deaths

LEMMA ResearchTypeInductive ==
    ASSUME TypeOK, Research
    PROVE  TypeOK'
<1>1. /\ [state |-> "open", mark |-> "none"] \in Files
      /\ [state |-> "torn", mark |-> "none"] \in Files
  BY DEF Files, States, Marks
<1> QED BY <1>1 DEF Research, DropTask, DropTorn, TypeOK, clock

LEMMA TimeTypeInductive ==
    ASSUME TypeOK, TestTurns \/ Tick
    PROVE  TypeOK'
<1>1. CASE TestTurns
  BY <1>1 DEF TestTurns, TypeOK, clock
<1>2. CASE Tick
  <2>1. /\ impl' \in Implementing
        /\ impl'.at # "off" <=> impl'.task \in TaskIds
    BY <1>2 DEF Tick, TypeOK, Implementing
  <2>2. cool' \in 0..Cooldown
    BY <1>2, QueueConstants DEF Tick, TypeOK
  <2>3. tick' \in 0..(Period - 1)
    BY <1>2, QueueConstants DEF Tick, TypeOK
  <2>4. due' \in BOOLEAN
    BY <1>2 DEF Tick
  <2> QED BY <1>2, <2>1, <2>2, <2>3, <2>4 DEF Tick, TypeOK
<1> QED BY <1>1, <1>2

LEMMA TypeInductive ==
    /\ Init => TypeOK
    /\ TypeOK /\ [Next]_vars => TypeOK'
<1>1. Init => TypeOK
  <2> SUFFICES ASSUME Init PROVE TypeOK
    OBVIOUS
  <2>1. cool \in 0..Cooldown /\ tick \in 0..(Period - 1)
    BY QueueConstants DEF Init
  <2>2. file \in [TaskIds -> Files] /\ planner \in [Planners -> Planning]
    BY IdleTypes DEF Init
  <2>3. Idle.at = "off" /\ ImplIdle.at = "off"
    BY DEF Idle, ImplIdle
  <2> HIDE DEF Idle, ImplIdle
  <2>4. \A p \in Planners : planner[p] = Idle
    BY DEF Init
  <2> QED BY <2>1, <2>2, <2>3, <2>4, IdleTypes, IdleHasNoTask DEF Init, TypeOK
<1>2. TypeOK /\ UNCHANGED vars => TypeOK'
  BY DEF TypeOK, vars
<1>3. TypeOK /\ Next => TypeOK'
  BY PlannerTypeInductive, StartTypeInductive, ImplementTypeInductive,
     DeathTypeInductive, ResearchTypeInductive, TimeTypeInductive DEF Next
<1> QED BY <1>1, <1>2, <1>3

(* Every state has its type, any number of planners included.              *)
THEOREM TypeCorrect == Spec => []TypeOK
BY TypeInductive, PTL DEF Spec

-----------------------------------------------------------------------------
(* The life of one task file.  A file that is not planned has no mark; a   *)
(* planner has its task in the state its own last write left it in; the    *)
(* implementer works on an unmarked planned task.                          *)

OnlyPlannedAreMarked ==
    \A t \in TaskIds : file[t].state # "planned" => file[t].mark = "none"

PlannersWriteUnplanned ==
    \A p \in Planners :
        planner[p].at # "off" =>
            /\ planner[p].copy.state \in {"open", "claimed"}
            /\ planner[p].copy.mark = "none"

ImplementerTakesPlanned ==
    impl.at \in {"working", "opened"} =>
        impl.copy.state = "planned" /\ impl.copy.mark = "none"

Ownership ==
    /\ CopiesAreCurrent
    /\ OnlyPlannedAreMarked
    /\ PlannersWriteUnplanned
    /\ ImplementerTakesPlanned

LEMMA OwnershipInitially == Init => Ownership
BY DEF Init, Ownership, CopiesAreCurrent, OnlyPlannedAreMarked,
       PlannersWriteUnplanned, ImplementerTakesPlanned, AbsentFile, Idle, ImplIdle

(* A planner and the implementer are never at work on the same file.       *)
LEMMA DifferentFiles ==
    ASSUME TypeOK, Ownership, NEW p \in Planners,
           planner[p].at # "off", impl.at \in {"working", "opened"}
    PROVE  planner[p].task # impl.task
BY DEF Ownership, CopiesAreCurrent, PlannersWriteUnplanned, ImplementerTakesPlanned

LEMMA PlanKeepsOwnership ==
    ASSUME TypeOK, Ownership, AtMostOnePlanner, NEW p \in Planners, Plan(p)
    PROVE  Ownership'
<1> USE DEF Ownership
<1>a. \A q \in Planners : q = p
  BY DEF AtMostOnePlanner
<1>t. planner[p] \in Planning /\ file \in [TaskIds -> Files]
  BY DEF TypeOK
<1>u. planner[p].at # "off" => planner[p].task \in TaskIds
  BY DEF TypeOK
<1>1. CASE PickUnclaimed(p)
  <2>1. PICK t \in TaskIds :
           /\ t \in Unclaimed
           /\ planner' = [planner EXCEPT ![p] =
                            [at |-> "claiming", task |-> t, copy |-> file[t]]]
    BY <1>1 DEF PickUnclaimed, IsOldest
  <2>2. planner'[p] = [at |-> "claiming", task |-> t, copy |-> file[t]]
    BY <2>1 DEF TypeOK
  <2>3. file[t].state = "open" /\ file[t].mark = "none"
    BY <2>1 DEF Unclaimed, OnlyPlannedAreMarked
  <2>4. file' = file /\ impl' = impl
    BY <1>1 DEF PickUnclaimed
  <2> QED BY <1>a, <2>2, <2>3, <2>4
          DEF CopiesAreCurrent, OnlyPlannedAreMarked, PlannersWriteUnplanned,
              ImplementerTakesPlanned
<1>2. CASE ClaimTask(p)
  <2> DEFINE new == [planner[p].copy EXCEPT !.state = "claimed"]
  <2>1. /\ planner[p].at = "claiming"
        /\ file' = [file EXCEPT ![planner[p].task] = new]
        /\ planner' = [planner EXCEPT ![p] =
                         [at |-> "planning", task |-> planner[p].task, copy |-> new]]
        /\ impl' = impl
    BY <1>2 DEF ClaimTask, WriteBack
  <2>2. new.state = "claimed" /\ new.mark = "none"
    BY <1>t, <2>1 DEF PlannersWriteUnplanned, Planning, Files
  <2> HIDE DEF new
  <2>3. planner'[p] = [at |-> "planning", task |-> planner[p].task, copy |-> new]
    BY <2>1 DEF TypeOK
  <2>4. /\ file'[planner[p].task] = new
        /\ \A t \in TaskIds : t # planner[p].task => file'[t] = file[t]
    BY <1>t, <1>u, <2>1
  <2>5. impl.at \in {"working", "opened"} => file'[impl.task] = file[impl.task]
    BY <2>1, <2>4, DifferentFiles DEF TypeOK
  <2>6. CopiesAreCurrent'
    BY <1>a, <2>1, <2>3, <2>4, <2>5 DEF CopiesAreCurrent
  <2>7. OnlyPlannedAreMarked'
    BY <2>2, <2>4 DEF OnlyPlannedAreMarked
  <2>8. PlannersWriteUnplanned' /\ ImplementerTakesPlanned'
    BY <1>a, <2>1, <2>2, <2>3 DEF PlannersWriteUnplanned, ImplementerTakesPlanned
  <2> QED BY <2>6, <2>7, <2>8
<1>3. CASE DraftPlan(p)
  <2>1. planner'[p] = [planner[p] EXCEPT !.at = "pointing"]
    BY <1>3 DEF DraftPlan, TypeOK
  <2>2. planner'[p].task = planner[p].task /\ planner'[p].copy = planner[p].copy
    BY <1>t, <2>1 DEF Planning
  <2>3. planner[p].at # "off" /\ file' = file /\ impl' = impl
    BY <1>3 DEF DraftPlan
  <2>4. CopiesAreCurrent'
    BY <1>a, <2>2, <2>3 DEF CopiesAreCurrent
  <2>5. OnlyPlannedAreMarked' /\ ImplementerTakesPlanned'
    BY <2>3 DEF OnlyPlannedAreMarked, ImplementerTakesPlanned
  <2>6. PlannersWriteUnplanned'
    BY <1>a, <2>2, <2>3 DEF PlannersWriteUnplanned
  <2> QED BY <2>4, <2>5, <2>6
<1>4. CASE PointToResult(p)
  <2>1. /\ planner[p].at = "pointing"
        /\ file' = [file EXCEPT ![planner[p].task] =
                      [planner[p].copy EXCEPT !.state = "planned"]]
        /\ planner'[p] = Idle
        /\ impl' = impl
    BY <1>4 DEF PointToResult, TypeOK
  <2>2. /\ file'[planner[p].task].state = "planned"
        /\ \A t \in TaskIds : t # planner[p].task => file'[t] = file[t]
    BY <1>t, <1>u, <2>1 DEF Planning, Files
  <2>3. impl.at \in {"working", "opened"} => file'[impl.task] = file[impl.task]
    BY <2>1, <2>2, DifferentFiles DEF TypeOK
  <2>4. Idle.at = "off"
    BY DEF Idle
  <2>5. CopiesAreCurrent'
    BY <1>a, <2>1, <2>3, <2>4 DEF CopiesAreCurrent
  <2>6. OnlyPlannedAreMarked'
    BY <2>2 DEF OnlyPlannedAreMarked
  <2>7. PlannersWriteUnplanned' /\ ImplementerTakesPlanned'
    BY <1>a, <2>1, <2>4 DEF PlannersWriteUnplanned, ImplementerTakesPlanned
  <2> QED BY <2>5, <2>6, <2>7
<1> QED BY <1>1, <1>2, <1>3, <1>4 DEF Plan

(* The implementer writes only the file of the unmarked task it took.      *)
LEMMA MarkKeepsOwnership ==
    ASSUME TypeOK, Ownership, impl.at \in {"working", "opened"},
           NEW m \in Marks, MarkTask(m)
    PROVE  Ownership'
<1> USE DEF Ownership
<1>1. impl \in Implementing /\ impl.task \in TaskIds
  BY DEF TypeOK
<1>2. /\ file' = [file EXCEPT ![impl.task] = [impl.copy EXCEPT !.mark = m]]
      /\ impl'.at = "reporting"
      /\ planner' = planner
  BY <1>1 DEF MarkTask, Implementing
<1>3. /\ file'[impl.task].state = "planned"
      /\ \A t \in TaskIds : t # impl.task => file'[t] = file[t]
  BY <1>1, <1>2 DEF ImplementerTakesPlanned, Implementing, Files, TypeOK
<1>4. \A p \in Planners :
         planner[p].at # "off" => file'[planner[p].task] = file[planner[p].task]
  BY <1>3, DifferentFiles DEF TypeOK
<1>5. CopiesAreCurrent'
  BY <1>2, <1>4 DEF CopiesAreCurrent
<1>6. OnlyPlannedAreMarked'
  BY <1>1, <1>3 DEF OnlyPlannedAreMarked
<1>7. PlannersWriteUnplanned' /\ ImplementerTakesPlanned'
  BY <1>2 DEF PlannersWriteUnplanned, ImplementerTakesPlanned
<1> QED BY <1>5, <1>6, <1>7

LEMMA ImplementKeepsOwnership ==
    ASSUME TypeOK, Ownership, Implement
    PROVE  Ownership'
<1>1. CASE Reject \/ NothingToDo \/ MarkBranch
  <2>1. PICK m \in Marks : impl.at \in {"working", "opened"} /\ MarkTask(m)
    BY <1>1 DEF Reject, NothingToDo, MarkBranch, Marks
  <2> QED BY <2>1, MarkKeepsOwnership
<1>2. CASE OpenPR
  <2>1. impl.at = "working" /\ impl'.task = impl.task /\ impl'.copy = impl.copy
    BY <1>2 DEF OpenPR, TypeOK, Implementing
  <2>2. file' = file /\ planner' = planner
    BY <1>2 DEF OpenPR
  <2> QED BY <2>1, <2>2
          DEF Ownership, CopiesAreCurrent, OnlyPlannedAreMarked,
              PlannersWriteUnplanned, ImplementerTakesPlanned
<1>3. CASE Report \/ GiveUp
  <2>1. impl'.at = "off" /\ file' = file /\ planner' = planner
    BY <1>3 DEF Report, GiveUp, ImplIdle
  <2> QED BY <2>1
          DEF Ownership, CopiesAreCurrent, OnlyPlannedAreMarked,
              PlannersWriteUnplanned, ImplementerTakesPlanned
<1> QED BY <1>1, <1>2, <1>3 DEF Implement

LEMMA StartKeepsOwnership ==
    ASSUME TypeOK, Ownership, StartRun \/ Manual
    PROVE  Ownership'
<1>1. CASE TakeTask
  <2>1. PICK t \in Eligible :
           impl' = [at |-> "working", task |-> t, copy |-> file[t], age |-> 0]
    BY <1>1 DEF TakeTask, IsOldest
  <2>2. file[t].state = "planned" /\ file[t].mark = "none"
    BY DEF Eligible
  <2>3. file' = file /\ planner' = planner
    BY <1>1 DEF TakeTask
  <2> QED BY <2>1, <2>2, <2>3
          DEF Ownership, CopiesAreCurrent, OnlyPlannedAreMarked,
              PlannersWriteUnplanned, ImplementerTakesPlanned
<1>2. CASE UNCHANGED <<file, planner, impl>>
  BY <1>2 DEF Ownership, CopiesAreCurrent, OnlyPlannedAreMarked,
              PlannersWriteUnplanned, ImplementerTakesPlanned
<1> QED BY <1>1, <1>2 DEF StartRun, Manual, SkipImplement, SkipLocked,
              SkipManual, CronTakesTask, ManualTakesTask

(* A torn file belongs to a run that no longer works on it.                *)
LEMMA DeathKeepsOwnership ==
    ASSUME TypeOK, Ownership, AtMostOnePlanner, Deaths
    PROVE  Ownership'
<1> USE DEF Ownership
<1>1. CASE ImplementerDies
  <2>1. impl'.at = "off" /\ planner' = planner /\ impl.task \in TaskIds
    BY <1>1 DEF ImplementerDies, ImplIdle, TypeOK
  <2>2. CASE file' = file
    BY <2>1, <2>2 DEF CopiesAreCurrent, OnlyPlannedAreMarked,
                      PlannersWriteUnplanned, ImplementerTakesPlanned
  <2>3. CASE impl.at \in {"working", "opened"} /\ Tear(impl.task)
    <3>1. /\ file'[impl.task].mark = "none"
          /\ \A t \in TaskIds : t # impl.task => file'[t] = file[t]
      BY <2>1, <2>3 DEF Tear, TypeOK
    <3>2. \A p \in Planners : planner[p].at # "off" =>
             file'[planner[p].task] = file[planner[p].task]
      BY <2>3, <3>1, DifferentFiles DEF TypeOK
    <3> QED BY <2>1, <3>1, <3>2
            DEF CopiesAreCurrent, OnlyPlannedAreMarked,
                PlannersWriteUnplanned, ImplementerTakesPlanned
  <2> QED BY <1>1, <2>2, <2>3 DEF ImplementerDies
<1>2. ASSUME NEW p \in Planners, PlannerDies(p)
      PROVE  Ownership'
  <2>1. /\ planner'[p].at = "off" /\ impl' = impl
        /\ planner[p].at # "off" /\ planner[p].task \in TaskIds
    BY <1>2 DEF PlannerDies, Idle, TypeOK
  <2>2. \A q \in Planners : planner'[q].at = "off"
    BY <2>1 DEF AtMostOnePlanner
  <2>3. CASE file' = file
    BY <2>1, <2>2, <2>3 DEF CopiesAreCurrent, OnlyPlannedAreMarked,
                            PlannersWriteUnplanned, ImplementerTakesPlanned
  <2>4. CASE Tear(planner[p].task)
    <3>1. /\ file'[planner[p].task].mark = "none"
          /\ \A t \in TaskIds : t # planner[p].task => file'[t] = file[t]
      BY <2>1, <2>4 DEF Tear, TypeOK
    <3>2. impl.at \in {"working", "opened"} => file'[impl.task] = file[impl.task]
      BY <2>1, <3>1, DifferentFiles DEF TypeOK
    <3> QED BY <2>1, <2>2, <3>1, <3>2
            DEF CopiesAreCurrent, OnlyPlannedAreMarked,
                PlannersWriteUnplanned, ImplementerTakesPlanned
  <2> QED BY <1>2, <2>3, <2>4 DEF PlannerDies
<1> QED BY <1>1, <1>2 DEF Deaths

LEMMA ResearchKeepsOwnership ==
    ASSUME TypeOK, Ownership, Research
    PROVE  Ownership'
<1>1. PICK t \in TaskIds : DropTask(t) \/ DropTorn(t)
  BY DEF Research
<1>2. /\ file[t].state = "absent"
      /\ file'[t].mark = "none"
      /\ \A u \in TaskIds : u # t => file'[u] = file[u]
      /\ planner' = planner /\ impl' = impl
  BY <1>1 DEF DropTask, DropTorn, TypeOK
<1>3. \A p \in Planners : planner[p].at # "off" =>
         planner[p].task \in TaskIds /\ planner[p].task # t
  BY <1>2 DEF Ownership, CopiesAreCurrent, PlannersWriteUnplanned, TypeOK
<1>4. impl.at \in {"working", "opened"} => impl.task \in TaskIds /\ impl.task # t
  BY <1>2 DEF Ownership, CopiesAreCurrent, ImplementerTakesPlanned, TypeOK
<1> QED BY <1>2, <1>3, <1>4
        DEF Ownership, CopiesAreCurrent, OnlyPlannedAreMarked,
            PlannersWriteUnplanned, ImplementerTakesPlanned

LEMMA OwnershipInductive ==
    ASSUME TypeOK, Ownership, AtMostOnePlanner, [Next]_vars
    PROVE  Ownership'
<1>1. CASE TestTurns \/ UNCHANGED vars
  BY <1>1 DEF TestTurns, vars, Ownership, CopiesAreCurrent,
        OnlyPlannedAreMarked, PlannersWriteUnplanned, ImplementerTakesPlanned
<1>2. CASE Tick
  <2>1. /\ file' = file /\ planner' = planner
        /\ impl'.at = impl.at /\ impl'.task = impl.task /\ impl'.copy = impl.copy
    BY <1>2 DEF Tick, TypeOK, Implementing
  <2> QED BY <2>1 DEF Ownership, CopiesAreCurrent,
        OnlyPlannedAreMarked, PlannersWriteUnplanned, ImplementerTakesPlanned
<1> QED BY <1>1, <1>2, PlanKeepsOwnership, ImplementKeepsOwnership,
           StartKeepsOwnership, DeathKeepsOwnership, ResearchKeepsOwnership
        DEF Next

(* No lost update: with one planner at a time, the copies runs write back  *)
(* are current.                                                            *)
THEOREM NoLostUpdate ==
    ASSUME AtMostOnePlanner
    PROVE  Spec => []CopiesAreCurrent
<1>1. TypeOK /\ Ownership /\ [Next]_vars => TypeOK' /\ Ownership'
  BY TypeInductive, OwnershipInductive
<1>2. Init => TypeOK /\ Ownership
  BY TypeInductive, OwnershipInitially
<1>3. Ownership => CopiesAreCurrent
  BY DEF Ownership
<1> QED BY <1>1, <1>2, <1>3, PTL DEF Spec

-----------------------------------------------------------------------------
(* Claims without a plan.  Nothing here needs the lock: the argument is    *)
(* that a planner leaves a task only planned or broken, and that the       *)
(* implementer writes back planned files only.                             *)

LEMMA ImplementerTakesPlannedInductive ==
    /\ Init => ImplementerTakesPlanned
    /\ TypeOK /\ ImplementerTakesPlanned /\ [Next]_vars => ImplementerTakesPlanned'
<1>1. Init => ImplementerTakesPlanned
  BY DEF Init, ImplIdle, ImplementerTakesPlanned
<1>2. ASSUME TypeOK, ImplementerTakesPlanned, [Next]_vars
      PROVE  ImplementerTakesPlanned'
  <2>1. CASE UNCHANGED impl
    BY <1>2, <2>1 DEF ImplementerTakesPlanned
  <2>2. CASE impl'.at \in {"off", "reporting"}
    BY <2>2 DEF ImplementerTakesPlanned
  <2>3. CASE TakeTask
    BY <2>3 DEF TakeTask, IsOldest, Eligible, ImplementerTakesPlanned
  <2>4. CASE OpenPR \/ Tick
    <3>1. impl.at = "working" \/ impl'.at = impl.at
      BY <1>2, <2>4 DEF OpenPR, Tick, TypeOK, Implementing
    <3>2. impl'.copy = impl.copy
      BY <1>2, <2>4 DEF OpenPR, Tick, TypeOK, Implementing
    <3> QED BY <1>2, <2>4, <3>1, <3>2 DEF ImplementerTakesPlanned
  <2>5. CASE Reject \/ NothingToDo \/ MarkBranch
    <3>1. impl'.at = "reporting"
      BY <1>2, <2>5 DEF Reject, NothingToDo, MarkBranch, MarkTask, TypeOK,
            Implementing
    <3> QED BY <2>2, <3>1
  <2>6. CASE Report \/ GiveUp \/ ImplementerDies
    BY <2>2, <2>6 DEF Report, GiveUp, ImplementerDies, ImplIdle
  <2> QED BY <1>2, <2>1, <2>3, <2>4, <2>5, <2>6
          DEF Next, Research, DropTask, DropTorn, Plan, PickUnclaimed, ClaimTask,
              DraftPlan, PointToResult, StartRun, SkipImplement, SkipLocked,
              CronTakesTask, Manual, SkipManual, ManualTakesTask, Implement,
              Deaths, PlannerDies, TestTurns, vars
<1> QED BY <1>1, <1>2

LEMMA PlanLosesNothing ==
    ASSUME TypeOK, LostOnlyByDeath, NEW p \in Planners, Plan(p)
    PROVE  LostOnlyByDeath'
<1>t. planner[p] \in Planning /\ (planner[p].at # "off" => planner[p].task \in TaskIds)
  BY DEF TypeOK
<1>1. CASE PickUnclaimed(p)
  <2>1. planner[p].task \notin TaskIds
    BY <1>1 DEF PickUnclaimed, TypeOK
  <2>2. \A q \in Planners : q # p => planner'[q] = planner[q]
    BY <1>1 DEF PickUnclaimed, TypeOK
  <2>3. file' = file /\ broken' = broken
    BY <1>1 DEF PickUnclaimed
  <2> QED BY <2>1, <2>2, <2>3 DEF LostOnlyByDeath, Holds
<1>2. CASE ClaimTask(p) \/ DraftPlan(p)
  <2>1. \A q \in Planners : planner'[q].task = planner[q].task
    BY <1>2, <1>t DEF ClaimTask, DraftPlan, WriteBack, TypeOK, Planning
  <2>2. \A t \in TaskIds : t # planner[p].task => file'[t] = file[t]
    BY <1>2, <1>t DEF ClaimTask, DraftPlan, WriteBack, TypeOK
  <2>3. broken' = broken
    BY <1>2 DEF ClaimTask, DraftPlan
  <2> QED BY <2>1, <2>2, <2>3 DEF LostOnlyByDeath, Holds
<1>3. CASE PointToResult(p)
  <2>1. /\ file'[planner[p].task].state = "planned"
        /\ \A t \in TaskIds : t # planner[p].task => file'[t] = file[t]
    BY <1>3, <1>t DEF PointToResult, TypeOK, Planning, Files
  <2>2. \A q \in Planners : q # p => planner'[q] = planner[q]
    BY <1>3 DEF PointToResult, TypeOK
  <2>3. broken' = broken
    BY <1>3 DEF PointToResult
  <2> QED BY <2>1, <2>2, <2>3 DEF LostOnlyByDeath, Holds
<1> QED BY <1>1, <1>2, <1>3 DEF Plan

LEMMA DeathsAreNoted ==
    ASSUME TypeOK, LostOnlyByDeath, Deaths
    PROVE  LostOnlyByDeath'
<1>1. CASE ImplementerDies
  <2>1. impl.task \in TaskIds /\ broken' = broken \cup {impl.task}
    BY <1>1 DEF ImplementerDies, TypeOK
  <2>2. \A t \in TaskIds : t # impl.task => file'[t] = file[t]
    BY <1>1, <2>1 DEF ImplementerDies, Tear, TypeOK
  <2>3. planner' = planner
    BY <1>1 DEF ImplementerDies
  <2> QED BY <2>1, <2>2, <2>3 DEF LostOnlyByDeath, Holds
<1>2. ASSUME NEW p \in Planners, PlannerDies(p)
      PROVE  LostOnlyByDeath'
  <2>1. planner[p].task \in TaskIds /\ broken' = broken \cup {planner[p].task}
    BY <1>2 DEF PlannerDies, TypeOK
  <2>2. \A t \in TaskIds : t # planner[p].task => file'[t] = file[t]
    BY <1>2, <2>1 DEF PlannerDies, Tear, TypeOK
  <2>3. \A q \in Planners : q # p => planner'[q] = planner[q]
    BY <1>2 DEF PlannerDies, TypeOK
  <2> QED BY <2>1, <2>2, <2>3 DEF LostOnlyByDeath, Holds
<1> QED BY <1>1, <1>2 DEF Deaths

LEMMA LostInductive ==
    ASSUME TypeOK, ImplementerTakesPlanned, LostOnlyByDeath, [Next]_vars
    PROVE  LostOnlyByDeath'
<1>1. CASE Research
  <2>1. PICK t \in TaskIds : DropTask(t) \/ DropTorn(t)
    BY <1>1 DEF Research
  <2>2. /\ file'[t].state = "open" \/ t \in broken'
        /\ \A u \in TaskIds : u # t => file'[u] = file[u]
        /\ broken \subseteq broken'
        /\ planner' = planner
    BY <2>1 DEF DropTask, DropTorn, TypeOK
  <2> QED BY <2>2 DEF LostOnlyByDeath, Holds
<1>2. CASE Reject \/ NothingToDo \/ MarkBranch
  <2>1. PICK m \in Marks : impl.at \in {"working", "opened"} /\ MarkTask(m)
    BY <1>2 DEF Reject, NothingToDo, MarkBranch, Marks
  <2>2. impl \in Implementing /\ impl.task \in TaskIds
    BY <2>1 DEF TypeOK
  <2>3. /\ file'[impl.task].state = "planned"
        /\ \A t \in TaskIds : t # impl.task => file'[t] = file[t]
        /\ planner' = planner /\ broken' = broken
    BY <2>1, <2>2 DEF MarkTask, TypeOK, Implementing, Files, ImplementerTakesPlanned
  <2> QED BY <2>3 DEF LostOnlyByDeath, Holds
<1>3. CASE UNCHANGED <<file, planner>> /\ broken \subseteq broken'
  BY <1>3 DEF LostOnlyByDeath, Holds
<1>4. CASE \/ StartRun \/ Manual \/ TestTurns \/ Tick \/ UNCHANGED vars
           \/ OpenPR \/ Report \/ GiveUp
  BY <1>3, <1>4 DEF StartRun, SkipImplement, SkipLocked, CronTakesTask, Manual,
        SkipManual, ManualTakesTask, TakeTask, TestTurns, Tick, vars, OpenPR,
        Report, GiveUp
<1> QED BY <1>1, <1>2, <1>4, PlanLosesNothing, DeathsAreNoted DEF Next, Implement

(* A task loses its claim to nothing but a death on that very task, however *)
(* many planners the lock lets in.                                         *)
THEOREM ClaimsAreNotLost == Spec => []LostOnlyByDeath
<1>1. Init => LostOnlyByDeath
  BY DEF Init, LostOnlyByDeath, AbsentFile
<1> QED BY <1>1, TypeInductive, ImplementerTakesPlannedInductive, LostInductive,
           PTL DEF Spec

-----------------------------------------------------------------------------
(* Marks and pull requests *)

(* No step but MarkTask, on an unmarked file, changes a mark.              *)
LEMMA StepKeepsMarks ==
    ASSUME TypeOK, Ownership, [Next]_vars, NEW t \in TaskIds,
           file[t].mark # "none"
    PROVE  file'[t].mark = file[t].mark
<1> USE DEF Ownership
<1>1. file[t].state = "planned"
  BY DEF OnlyPlannedAreMarked
<1>2. CASE UNCHANGED file
  BY <1>2
<1>3. CASE Research
  BY <1>1, <1>3 DEF Research, DropTask, DropTorn, TypeOK
<1>4. ASSUME NEW p \in Planners, planner[p].at # "off",
             planner[p].task # t => file'[t] = file[t]
      PROVE  file'[t].mark = file[t].mark
  BY <1>1, <1>4 DEF CopiesAreCurrent, PlannersWriteUnplanned
<1>5. ASSUME NEW p \in Planners, Plan(p)
      PROVE  file'[t].mark = file[t].mark
  BY <1>4, <1>5 DEF Plan, PickUnclaimed, ClaimTask, WriteBack, DraftPlan,
        PointToResult, TypeOK
<1>6. ASSUME impl.at \in {"working", "opened"},
             impl.task # t => file'[t] = file[t]
      PROVE  file'[t].mark = file[t].mark
  BY <1>6 DEF CopiesAreCurrent, ImplementerTakesPlanned
<1>7. CASE Reject \/ NothingToDo \/ MarkBranch
  BY <1>6, <1>7 DEF Reject, NothingToDo, MarkBranch, MarkTask, TypeOK
<1>8. CASE Deaths
  <2>1. CASE ImplementerDies
    BY <1>2, <1>6, <2>1 DEF ImplementerDies, Tear, TypeOK
  <2>2. ASSUME NEW p \in Planners, PlannerDies(p)
        PROVE  file'[t].mark = file[t].mark
    BY <1>2, <1>4, <2>2 DEF PlannerDies, Tear, TypeOK
  <2> QED BY <1>8, <2>1, <2>2 DEF Deaths
<1> QED BY <1>2, <1>3, <1>5, <1>7, <1>8
        DEF Next, StartRun, SkipImplement, SkipLocked, CronTakesTask, Manual,
            SkipManual, ManualTakesTask, TakeTask, TestTurns, Tick, vars,
            Implement, OpenPR, Report, GiveUp

(* With one planner at a time, a task is settled once and for all.         *)
THEOREM SettledOnce ==
    ASSUME AtMostOnePlanner
    PROVE  Spec => MarksAreFinal
<1>1. TypeOK /\ Ownership /\ [Next]_vars => TypeOK' /\ Ownership'
  BY TypeInductive, OwnershipInductive
<1>2. Init => TypeOK /\ Ownership
  BY TypeInductive, OwnershipInitially
<1>3. TypeOK /\ Ownership /\ [Next]_vars
         => [\A t \in TaskIds :
                file[t].mark # "none" => file'[t].mark = file[t].mark]_vars
  BY StepKeepsMarks
<1> QED BY <1>1, <1>2, <1>3, PTL DEF Spec, MarksAreFinal

LEMMA RecordedInductive ==
    ASSUME TypeOK, Ownership, OpenPRsAreRecorded, [Next]_vars
    PROVE  OpenPRsAreRecorded'
<1>1. \A t \in TaskIds : file[t].mark = "branch" => file'[t].mark = "branch"
  BY StepKeepsMarks
<1>2. CASE OpenPR
  <2>1. impl'.at = "opened" /\ impl'.task = impl.task /\ impl.at = "working"
    BY <1>2 DEF OpenPR, TypeOK, Implementing
  <2>2. broken' = broken /\ \A t \in prs' : t \in prs \/ t = impl.task
    BY <1>2 DEF OpenPR
  <2> QED BY <1>1, <2>1, <2>2 DEF OpenPRsAreRecorded, TypeOK
<1>3. CASE MarkBranch
  <2>1. impl.at = "opened" /\ impl.task \in TaskIds /\ impl \in Implementing
    BY <1>3 DEF MarkBranch, TypeOK
  <2>2. file'[impl.task].mark = "branch" /\ prs' = prs /\ broken' = broken
    BY <1>3, <2>1 DEF MarkBranch, MarkTask, TypeOK, Implementing, Files
  <2> QED BY <1>1, <2>2 DEF OpenPRsAreRecorded, TypeOK
<1>4. CASE GiveUp \/ ImplementerDies
  <2>1. prs' = prs /\ broken' = broken \cup {impl.task}
    BY <1>4 DEF GiveUp, ImplementerDies
  <2> QED BY <1>1, <2>1 DEF OpenPRsAreRecorded, TypeOK
<1>5. CASE /\ prs' = prs /\ broken \subseteq broken'
           /\ impl.at = "opened" => impl'.at = "opened" /\ impl'.task = impl.task
  BY <1>1, <1>5 DEF OpenPRsAreRecorded, TypeOK
<1>6. CASE UNCHANGED <<prs, impl>> /\ broken \subseteq broken'
  BY <1>5, <1>6
<1>7. CASE Tick
  BY <1>5, <1>7 DEF Tick, TypeOK, Implementing
<1>8. CASE TakeTask /\ UNCHANGED <<prs, broken>>
  BY <1>5, <1>8 DEF TakeTask
<1>9. CASE Reject \/ NothingToDo \/ Report
  BY <1>5, <1>9 DEF Reject, NothingToDo, MarkTask, Report
<1>10. CASE Research \/ (\E p \in Planners : Plan(p) \/ PlannerDies(p))
             \/ SkipImplement \/ SkipLocked \/ SkipManual \/ TestTurns
             \/ UNCHANGED vars
  BY <1>6, <1>10 DEF Research, DropTask, DropTorn, Plan, PickUnclaimed,
        ClaimTask, WriteBack, DraftPlan, PointToResult, PlannerDies,
        SkipImplement, SkipLocked, SkipManual, TestTurns, vars
<1>11. CASE CronTakesTask \/ ManualTakesTask
  BY <1>8, <1>11 DEF CronTakesTask, ManualTakesTask, TakeTask
<1> QED BY <1>2, <1>3, <1>4, <1>7, <1>9, <1>10, <1>11
        DEF Next, StartRun, Manual, Implement, Deaths

(* With one planner at a time, a pull request opened by an attempt that was *)
(* not cut short is recorded in its task.                                  *)
THEOREM PullRequestsAreRecorded ==
    ASSUME AtMostOnePlanner
    PROVE  Spec => []OpenPRsAreRecorded
<1>1. /\ TypeOK /\ Ownership /\ OpenPRsAreRecorded /\ [Next]_vars
            => TypeOK' /\ Ownership' /\ OpenPRsAreRecorded'
  BY TypeInductive, OwnershipInductive, RecordedInductive
<1>2. Init => TypeOK /\ Ownership /\ OpenPRsAreRecorded
  BY TypeInductive, OwnershipInitially DEF Init, OpenPRsAreRecorded
<1> QED BY <1>1, <1>2, PTL DEF Spec

-----------------------------------------------------------------------------
(* The abstract life of a task *)

Life(t) == IF file[t].mark = "none" THEN file[t].state ELSE file[t].mark

(* The copy of a planner is in the state its phase says.                   *)
PhaseOfCopy ==
    \A p \in Planners :
        /\ planner[p].at = "claiming" => planner[p].copy.state = "open"
        /\ planner[p].at \in {"planning", "pointing"} =>
              planner[p].copy.state = "claimed"

LEMMA PhaseOfCopyInductive ==
    ASSUME TypeOK, PhaseOfCopy, [Next]_vars
    PROVE  PhaseOfCopy'
<1>1. CASE UNCHANGED planner
  BY <1>1 DEF PhaseOfCopy
<1>2. ASSUME NEW p \in Planners, Plan(p) \/ PlannerDies(p)
      PROVE  PhaseOfCopy'
  <2>0. /\ planner[p] \in Planning
        /\ \A q \in Planners : q # p => planner'[q] = planner[q]
    BY <1>2 DEF Plan, PickUnclaimed, ClaimTask, WriteBack, DraftPlan, PointToResult,
                PlannerDies, TypeOK
  <2>1. CASE PickUnclaimed(p)
    <3>1. planner'[p].at = "claiming" /\ planner'[p].copy.state = "open"
      BY <2>1 DEF PickUnclaimed, IsOldest, Unclaimed, TypeOK
    <3> QED BY <2>0, <3>1 DEF PhaseOfCopy
  <2>2. CASE ClaimTask(p)
    <3>1. planner'[p].at = "planning" /\ planner'[p].copy.state = "claimed"
      BY <2>0, <2>2 DEF ClaimTask, WriteBack, TypeOK, Planning, Files
    <3> QED BY <2>0, <3>1 DEF PhaseOfCopy
  <2>3. CASE DraftPlan(p)
    <3>1. planner[p].copy.state = "claimed"
      BY <2>3 DEF DraftPlan, PhaseOfCopy
    <3>2. planner'[p] = Idle \/ (planner'[p].at = "pointing" /\ planner'[p].copy = planner[p].copy)
      BY <2>0, <2>3 DEF DraftPlan, TypeOK, Planning
    <3> QED BY <2>0, <3>1, <3>2 DEF PhaseOfCopy, Idle
  <2>4. CASE PointToResult(p) \/ PlannerDies(p)
    <3>1. planner'[p].at = "off"
      BY <2>4 DEF PointToResult, PlannerDies, Idle, TypeOK
    <3> QED BY <2>0, <3>1 DEF PhaseOfCopy
  <2> QED BY <1>2, <2>1, <2>2, <2>3, <2>4 DEF Plan
<1> QED BY <1>1, <1>2
        DEF Next, Research, DropTask, DropTorn, StartRun, SkipImplement, SkipLocked,
            CronTakesTask, Manual, SkipManual, ManualTakesTask, TakeTask, Implement,
            Reject, NothingToDo, OpenPR, MarkBranch, MarkTask, Report, GiveUp, Deaths,
            ImplementerDies, TestTurns, Tick, vars

(* A step that writes one task file moves the life of that task only.      *)
LEMMA OneLifeMoves ==
    ASSUME NEW t \in TaskIds, \A u \in TaskIds : u # t => file'[u] = file[u],
           NEW from, Life(t) \in from, NEW to, Life(t)' = to
    PROVE  Lives!Becomes(t, from, to)
BY DEF Life, Lives!Becomes

LEMMA NoLifeMoves ==
    ASSUME UNCHANGED file
    PROVE  [Lives!LifeNext]_(Lives!vars)
BY DEF Lives!vars

LEMMA PlanIsALife ==
    ASSUME TypeOK, Ownership, PhaseOfCopy, NEW p \in Planners, Plan(p) \/ PlannerDies(p)
    PROVE  Lives!LifeNext \/ UNCHANGED file
<1>1. CASE UNCHANGED file
  BY <1>1
<1>2. CASE file' # file
  <2>0. PICK t \in TaskIds : t = planner[p].task
    BY <1>2 DEF Plan, PickUnclaimed, ClaimTask, WriteBack, DraftPlan, PointToResult,
                PlannerDies, TypeOK
  <2>1. /\ planner[p] \in Planning /\ planner[p].at # "off" /\ t = planner[p].task
        /\ \A u \in TaskIds : u # t => file'[u] = file[u]
    BY <1>2, <2>0 DEF Plan, PickUnclaimed, ClaimTask, WriteBack, DraftPlan, PointToResult,
                PlannerDies, Tear, TypeOK
  <2>2. file[t] = planner[p].copy /\ file[t].mark = "none"
    BY <2>1 DEF Ownership, CopiesAreCurrent, PlannersWriteUnplanned
  <2>3. CASE ClaimTask(p)
    <3>1. Life(t) = "open" /\ Life(t)' = "claimed"
      BY <2>1, <2>2, <2>3 DEF ClaimTask, WriteBack, PhaseOfCopy, Life, TypeOK, Files
    <3> QED BY <2>1, <3>1, OneLifeMoves DEF Lives!LifeNext, Lives!Claim
  <2>4. CASE PointToResult(p)
    <3>1. Life(t) = "claimed" /\ Life(t)' = "planned"
      BY <2>1, <2>2, <2>4 DEF PointToResult, PhaseOfCopy, Life, TypeOK, Files
    <3> QED BY <2>1, <3>1, OneLifeMoves DEF Lives!LifeNext, Lives!GetPlan
  <2>5. CASE PlannerDies(p)
    <3>1. Life(t) \in {"open", "claimed"} /\ Life(t)' = "torn"
      BY <1>2, <2>1, <2>2, <2>5
         DEF PlannerDies, Tear, Ownership, PlannersWriteUnplanned, Life, TypeOK
    <3>2. Life(t) \in {"absent", "open", "claimed", "planned"}
      BY <3>1
    <3> QED BY <2>1, <3>1, <3>2, OneLifeMoves DEF Lives!LifeNext, Lives!LoseFile
  <2> QED BY <1>2, <2>3, <2>4, <2>5 DEF Plan, PickUnclaimed, DraftPlan
<1> QED BY <1>1, <1>2

LEMMA ImplementIsALife ==
    ASSUME TypeOK, Ownership, Implement \/ ImplementerDies
    PROVE  Lives!LifeNext \/ UNCHANGED file
<1>1. CASE UNCHANGED file
  BY <1>1
<1>2. CASE file' # file
  <2>0. PICK t \in TaskIds : t = impl.task
    BY <1>2 DEF Implement, Reject, NothingToDo, OpenPR, MarkBranch, MarkTask, Report,
                GiveUp, ImplementerDies, TypeOK
  <2>1. /\ impl \in Implementing /\ impl.at \in {"working", "opened"} /\ t = impl.task
        /\ \A u \in TaskIds : u # t => file'[u] = file[u]
    BY <1>2, <2>0 DEF Implement, Reject, NothingToDo, OpenPR, MarkBranch, MarkTask, Report,
                GiveUp, ImplementerDies, Tear, TypeOK
  <2>2. file[t] = impl.copy /\ Life(t) = "planned"
    BY <2>1 DEF Ownership, CopiesAreCurrent, ImplementerTakesPlanned, Life
  <2>3. CASE ImplementerDies
    <3>1. Life(t)' = "torn"
      BY <1>2, <2>1, <2>3 DEF ImplementerDies, Tear, Life, TypeOK
    <3>2. Life(t) \in {"absent", "open", "claimed", "planned"}
      BY <2>2
    <3> QED BY <2>1, <3>1, <3>2, OneLifeMoves DEF Lives!LifeNext, Lives!LoseFile
  <2>4. ASSUME NEW m \in {"branch", "failed", "obsolete"}, MarkTask(m)
        PROVE  Lives!LifeNext
    <3>1. Life(t)' = m
      BY <2>1, <2>2, <2>4 DEF MarkTask, Life, TypeOK, Files
    <3>2. Lives!Becomes(t, {"planned"}, m)
      BY <2>1, <2>2, <3>1, OneLifeMoves
    <3> QED BY <2>1, <2>4, <3>2 DEF Lives!LifeNext, Lives!Settle, Lives!Outcomes
  <2> QED BY <1>2, <2>3, <2>4
          DEF Implement, Reject, NothingToDo, OpenPR, MarkBranch, Report, GiveUp
<1> QED BY <1>1, <1>2

LEMMA ResearchIsALife ==
    ASSUME TypeOK, Ownership, Research
    PROVE  Lives!LifeNext
<1>1. PICK t \in TaskIds : DropTask(t) \/ DropTorn(t)
  BY DEF Research
<1>2. Life(t) = "absent" /\ \A u \in TaskIds : u # t => file'[u] = file[u]
  BY <1>1 DEF DropTask, DropTorn, Ownership, OnlyPlannedAreMarked, Life, TypeOK
<1>3. CASE DropTask(t)
  <2>1. Life(t)' = "open"
    BY <1>3 DEF DropTask, Life, TypeOK
  <2> QED BY <1>2, <2>1, OneLifeMoves DEF Lives!LifeNext, Lives!Appear
<1>4. CASE DropTorn(t)
  <2>1. Life(t)' = "torn" /\ Life(t) \in {"absent", "open", "claimed", "planned"}
    BY <1>2, <1>4 DEF DropTorn, Life, TypeOK
  <2> QED BY <1>2, <2>1, OneLifeMoves DEF Lives!LifeNext, Lives!LoseFile
<1> QED BY <1>1, <1>3, <1>4

LEMMA LifeStep ==
    ASSUME TypeOK, Ownership, PhaseOfCopy, [Next]_vars
    PROVE  [Lives!LifeNext]_(Lives!vars)
<1>1. Lives!LifeNext \/ UNCHANGED file
  BY PlanIsALife, ImplementIsALife, ResearchIsALife
     DEF Next, StartRun, SkipImplement, SkipLocked, CronTakesTask, Manual, SkipManual,
         ManualTakesTask, TakeTask, Deaths, TestTurns, Tick, vars
<1> QED BY <1>1, NoLifeMoves

(* With one planner at a time, the files of the queue implement TaskLife:  *)
(* every write, of whatever copy, is one step of one task's life.          *)
THEOREM QueueImplementsLife ==
    ASSUME AtMostOnePlanner
    PROVE  Spec => ImplementsLife
<1>1. Init => TypeOK /\ Ownership /\ PhaseOfCopy /\ Lives!LifeInit
  BY TypeInductive, OwnershipInitially
     DEF Init, PhaseOfCopy, Idle, AbsentFile, Lives!LifeInit
<1>2. TypeOK /\ Ownership /\ PhaseOfCopy /\ [Next]_vars
         => TypeOK' /\ Ownership' /\ PhaseOfCopy'
  BY TypeInductive, OwnershipInductive, PhaseOfCopyInductive
<1>3. TypeOK /\ Ownership /\ PhaseOfCopy /\ [Next]_vars
         => [Lives!LifeNext]_(Lives!vars)
  BY LifeStep
<1> QED BY <1>1, <1>2, <1>3, PTL DEF Spec, ImplementsLife, Lives!LifeSpec

=============================================================================
