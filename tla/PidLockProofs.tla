---------------------------- MODULE PidLockProofs ----------------------------
(***************************************************************************)
(* What holds of the lock file for every set of process ids.  The mutual   *)
(* exclusion that _Lock is meant to give does not; these theorems delimit  *)
(* what is left of it.                                                     *)
(***************************************************************************)
EXTENDS PidLock, TLAPS

(* Every step is one of the named operations of one run.                   *)
LEMMA StepCases ==
    ASSUME [Next]_vars
    PROVE  \/ UNCHANGED vars
           \/ \E p \in Pids :
                 \/ Fire(p) \/ CreateLock(p) \/ WritePid(p) \/ FindExisting(p)
                 \/ ReadHolder(p) \/ SkipRun(p) \/ JudgeStale(p)
                 \/ OpenTmp(p) \/ WriteTmp(p) \/ RenameTmp(p) \/ RenameFails(p)
                 \/ Release(p) \/ Crash(p) \/ ForeignStart(p) \/ ForeignEnd(p)
           \/ QuietenDown
  BY DEF Next, Enter

(* The variables of _Lock keep their types, in particular the lock and the *)
(* temporary file only ever hold a pid of a run of this agent.             *)
THEOREM TypeCorrect == Spec => []TypeOK
<1>1. Init => TypeOK
  BY MarkersAreNotPids DEF Init, TypeOK, Locations
<1>2. TypeOK /\ [Next]_vars => TypeOK'
  <2> SUFFICES ASSUME TypeOK, [Next]_vars
               PROVE  TypeOK'
    OBVIOUS
  <2> USE DEF TypeOK, Locations, Goto, temporary
  <2>1. CASE UNCHANGED vars
    BY <2>1 DEF vars
  <2>2. ASSUME NEW p \in Pids,
               Fire(p) \/ FindExisting(p) \/ ReadHolder(p) \/ SkipRun(p)
                 \/ JudgeStale(p)
        PROVE  TypeOK'
    BY <2>2 DEF Fire, FindExisting, ReadHolder, SkipRun, JudgeStale
  <2>3. ASSUME NEW p \in Pids,
               CreateLock(p) \/ WritePid(p) \/ OpenTmp(p) \/ RenameTmp(p)
                 \/ RenameFails(p)
        PROVE  TypeOK'
    BY <2>3, MarkersAreNotPids
       DEF CreateLock, WritePid, OpenTmp, RenameTmp, RenameFails
  <2>6. ASSUME NEW p \in Pids, WriteTmp(p)
        PROVE  TypeOK'
    <3>1. Written(p, tmp) \subseteq Pids /\ Written(p, lock) \subseteq Pids
      BY DEF Written
    <3>2. tmp' \in Pids \cup {tmp} /\ lock' \in Pids \cup {lock}
      BY <2>6, <3>1 DEF WriteTmp
    <3> QED
      BY <2>6, <3>2 DEF WriteTmp
  <2>4. ASSUME NEW p \in Pids,
               Release(p) \/ Crash(p) \/ ForeignStart(p) \/ ForeignEnd(p)
        PROVE  TypeOK'
    BY <2>4 DEF Release, Crash, ForeignStart, ForeignEnd
  <2>5. CASE QuietenDown
    BY <2>5 DEF QuietenDown
  <2> QED
    BY <2>1, <2>2, <2>3, <2>4, <2>5, <2>6, StepCases
<1> QED
  BY <1>1, <1>2, PTL DEF Spec

-----------------------------------------------------------------------------

(* Until the first takeover the file says who is inside: a run that has    *)
(* created the file still has it, empty, at the path, a run that is inside *)
(* is the one the file names, and nobody else has that file open.          *)
OwnsFile ==
    ~reclaimed =>
        \A p \in Pids :
            /\ pc[p] = "created" => lock = Empty /\ openBy = {p}
            /\ Holding(p) => lock = p
            /\ p \in openBy => pc[p] = "created"

LEMMA OwnsFileInductive == TypeOK /\ OwnsFile /\ [Next]_vars => OwnsFile'
<1> SUFFICES ASSUME TypeOK, OwnsFile, [Next]_vars, ~reclaimed',
                    NEW q \in Pids
             PROVE  /\ pc'[q] = "created" => lock' = Empty /\ openBy' = {q}
                    /\ pc'[q] = "holding" => lock' = q
                    /\ q \in openBy' => pc'[q] = "created"
  BY DEF OwnsFile, Holding
<1> DEFINE Goal == /\ pc'[q] = "created" => lock' = Empty /\ openBy' = {q}
                   /\ pc'[q] = "holding" => lock' = q
                   /\ q \in openBy' => pc'[q] = "created"
<1> USE MarkersAreNotPids DEF TypeOK, OwnsFile, Holding, Goto, Locations, temporary
<1>1. CASE UNCHANGED vars
  BY <1>1 DEF vars
<1>2. ASSUME NEW p \in Pids,
             Fire(p) \/ FindExisting(p) \/ ReadHolder(p) \/ SkipRun(p)
               \/ JudgeStale(p)
      PROVE  Goal
  BY <1>2 DEF Fire, FindExisting, ReadHolder, SkipRun, JudgeStale
<1>3. ASSUME NEW p \in Pids, CreateLock(p)
      PROVE  Goal
  BY <1>3 DEF CreateLock
<1>4. ASSUME NEW p \in Pids, WritePid(p)
      PROVE  Goal
  BY <1>4 DEF WritePid
<1>5. ASSUME NEW p \in Pids, OpenTmp(p) \/ WriteTmp(p) \/ RenameTmp(p) \/ RenameFails(p)
      PROVE  Goal
  <2>1. CASE OpenTmp(p) \/ RenameTmp(p) \/ RenameFails(p)
    BY <2>1 DEF OpenTmp, RenameTmp, RenameFails
  <2>2. CASE WriteTmp(p)
    <3>1. p \notin openBy /\ ~reclaimed
      BY <2>2 DEF WriteTmp
    <3>2. lock' = lock /\ openBy' = openBy
      BY <2>2, <3>1 DEF WriteTmp
    <3> QED
      BY <2>2, <3>1, <3>2 DEF WriteTmp
  <2> QED
    BY <1>5, <2>1, <2>2
<1>6. ASSUME NEW p \in Pids, Release(p)
      PROVE  Goal
  BY <1>6 DEF Release
<1>7. ASSUME NEW p \in Pids, Crash(p)
      PROVE  Goal
  BY <1>7 DEF Crash
<1>8. ASSUME NEW p \in Pids, ForeignStart(p) \/ ForeignEnd(p)
      PROVE  Goal
  BY <1>8 DEF ForeignStart, ForeignEnd
<1>9. CASE QuietenDown
  BY <1>9 DEF QuietenDown
<1> QED
  BY <1>1, <1>2, <1>3, <1>4, <1>5, <1>6, <1>7, <1>8, <1>9, StepCases

(* Exclusive create alone keeps two runs of an agent apart: as long as no  *)
(* run takes a lock over as stale, at most one is inside, whatever crashes *)
(* and however pids are reused.                                            *)
THEOREM ExclusiveCreate == Spec => []ExclusiveUntilReclaim
<1>1. Init => OwnsFile
  BY DEF Init, OwnsFile, Holding
<1>2. OwnsFile => ExclusiveUntilReclaim
  BY DEF OwnsFile, ExclusiveUntilReclaim, OneHolder, Holding
<1> QED
  BY <1>1, <1>2, OwnsFileInductive, TypeCorrect, PTL DEF Spec

-----------------------------------------------------------------------------

(* While no run has been killed, a lock file at the path means that some   *)
(* run will still unlink it, and a temporary file that some run will still *)
(* try to rename it.                                                       *)
SomeoneCleansUp ==
    ~crashed =>
        /\ lock # Absent => \E p \in Pids : pc[p] \in {"created", "holding"}
        /\ tmp # Absent => \E p \in Pids : pc[p] \in {"opened", "rename"}
        /\ \A p \in openBy : lock # Absent

LEMMA SomeoneCleansUpInductive ==
    TypeOK /\ SomeoneCleansUp /\ [Next]_vars => SomeoneCleansUp'
<1> SUFFICES ASSUME TypeOK, SomeoneCleansUp, [Next]_vars, ~crashed'
             PROVE  /\ lock' # Absent =>
                        \E p \in Pids : pc'[p] \in {"created", "holding"}
                    /\ tmp' # Absent =>
                        \E p \in Pids : pc'[p] \in {"opened", "rename"}
                    /\ \A p \in openBy' : lock' # Absent
  BY DEF SomeoneCleansUp
<1> DEFINE Goal == /\ lock' # Absent =>
                        \E p \in Pids : pc'[p] \in {"created", "holding"}
                   /\ tmp' # Absent =>
                        \E p \in Pids : pc'[p] \in {"opened", "rename"}
                   /\ \A p \in openBy' : lock' # Absent
<1> USE MarkersAreNotPids DEF TypeOK, SomeoneCleansUp, Goto, Locations, temporary
<1>1. CASE UNCHANGED vars
  BY <1>1 DEF vars
<1>2. ASSUME NEW p \in Pids,
             Fire(p) \/ FindExisting(p) \/ ReadHolder(p) \/ SkipRun(p)
               \/ JudgeStale(p)
      PROVE  Goal
  <2>1. /\ UNCHANGED <<lock, openBy, tmp, crashed>>
        /\ \A q \in Pids : pc[q] \in {"created", "holding", "opened", "rename"}
                             => pc'[q] = pc[q]
    BY <1>2 DEF Fire, FindExisting, ReadHolder, SkipRun, JudgeStale
  <2> QED
    BY <2>1
<1>3. ASSUME NEW p \in Pids, CreateLock(p) \/ WritePid(p)
      PROVE  Goal
  <2>1. /\ UNCHANGED <<tmp, crashed>>
        /\ pc'[p] \in {"created", "holding"}
        /\ \A q \in Pids : pc[q] \in {"opened", "rename"} => pc'[q] = pc[q]
    BY <1>3 DEF CreateLock, WritePid
  <2>2. \A q \in openBy' : lock' # Absent
    BY <1>3 DEF CreateLock, WritePid
  <2> QED
    BY <2>1, <2>2
<1>4. ASSUME NEW p \in Pids, OpenTmp(p)
      PROVE  Goal
  <2>1. /\ UNCHANGED <<lock, openBy, crashed>>
        /\ pc'[p] = "opened"
        /\ \A q \in Pids : pc[q] \in {"created", "holding"}
                             => pc'[q] = pc[q]
    BY <1>4 DEF OpenTmp
  <2> QED
    BY <2>1
<1>5. ASSUME NEW p \in Pids, WriteTmp(p)
      PROVE  Goal
  <2>1. /\ UNCHANGED crashed /\ openBy' \subseteq openBy
        /\ pc'[p] = "rename"
        /\ \A q \in Pids : pc[q] \in {"created", "holding"}
                             => pc'[q] = pc[q]
    BY <1>5 DEF WriteTmp
  <2>2. Absent \notin Written(p, lock)
    BY DEF Written
  <2>3. lock' # Absent <=> lock # Absent
    BY <1>5, <2>2 DEF WriteTmp
  <2> QED
    BY <2>1, <2>3
<1>6. ASSUME NEW p \in Pids, RenameTmp(p) \/ RenameFails(p)
      PROVE  Goal
  BY <1>6 DEF RenameTmp, RenameFails
<1>7. ASSUME NEW p \in Pids, Release(p)
      PROVE  Goal
  <2>1. /\ UNCHANGED <<tmp, crashed>> /\ lock' = Absent /\ openBy' = {}
        /\ \A q \in Pids : pc[q] \in {"opened", "rename"} => pc'[q] = pc[q]
    BY <1>7 DEF Release
  <2> QED
    BY <2>1
<1>8. ASSUME NEW p \in Pids, Crash(p) \/ ForeignStart(p) \/ ForeignEnd(p)
      PROVE  Goal
  BY <1>8 DEF Crash, ForeignStart, ForeignEnd
<1>9. CASE QuietenDown
  BY <1>9 DEF QuietenDown
<1> QED
  BY <1>1, <1>2, <1>3, <1>4, <1>5, <1>6, <1>7, <1>8, <1>9, StepCases

(* A leftover lock or temporary file proves that a run was killed: runs    *)
(* that unwind normally leave neither, whichever files they unlink.        *)
THEOREM CleanShutdown == Spec => []NothingLeftBehind
<1>1. Init => SomeoneCleansUp
  BY DEF Init, SomeoneCleansUp
<1>2. SomeoneCleansUp => NothingLeftBehind
  BY DEF SomeoneCleansUp, NothingLeftBehind
<1> QED
  BY <1>1, <1>2, SomeoneCleansUpInductive, TypeCorrect, PTL DEF Spec

-----------------------------------------------------------------------------

Inside == {p \in Pids : pc[p] \in {"created", "holding"}}

(* Until the first takeover the file is there while a run is inside, and   *)
(* that run is the only one.                                               *)
LEMMA InsideIsAlone ==
    ASSUME TypeOK, OwnsFile, ~reclaimed, NEW p \in Inside
    PROVE  lock # Absent /\ Inside = {p}
<1>1. \A q \in Inside : lock # Absent /\ q = p
  BY MarkersAreNotPids DEF OwnsFile, Inside, Holding, TypeOK
<1> QED
  BY <1>1

(* Every step of the lock file before a takeover is a step of the lock it  *)
(* is meant to be, or none; after one, the lock promises nothing.          *)
LEMMA LockStep ==
    TypeOK /\ OwnsFile /\ [Next]_vars => [TheLock!LockNext]_(TheLock!lockVars)
<1> SUFFICES ASSUME TypeOK, OwnsFile, [Next]_vars
             PROVE  [TheLock!LockNext]_(TheLock!lockVars)
  OBVIOUS
<1> USE DEF TheLock!LockNext, TheLock!lockVars
<1>a. CASE reclaimed'
  BY <1>a DEF TheLock!NoPromise
<1>b. CASE ~reclaimed'
  <2>0. ~reclaimed
    BY <1>b, StepCases
       DEF TypeOK, vars, Fire, CreateLock, WritePid, FindExisting, ReadHolder, SkipRun,
           JudgeStale, OpenTmp, WriteTmp, RenameTmp, RenameFails, Release, Crash, ForeignStart,
           ForeignEnd, QuietenDown
  <2>1. CASE UNCHANGED vars \/ QuietenDown
    BY <2>1 DEF vars, QuietenDown
  <2>2. ASSUME NEW p \in Pids,
               Fire(p) \/ FindExisting(p) \/ ReadHolder(p) \/ SkipRun(p) \/ JudgeStale(p)
                 \/ OpenTmp(p) \/ RenameFails(p) \/ ForeignStart(p) \/ ForeignEnd(p)
        PROVE  UNCHANGED <<lock, Inside, reclaimed>>
    BY <2>2 DEF Fire, FindExisting, ReadHolder, SkipRun, JudgeStale, OpenTmp, RenameFails,
                ForeignStart, ForeignEnd, Goto, Inside, TypeOK, Locations
  <2>8. ASSUME NEW p \in Pids, WriteTmp(p)
        PROVE  UNCHANGED <<lock, Inside, reclaimed>>
    <3>1. p \notin openBy
      BY <2>0, <2>8 DEF WriteTmp, OwnsFile
    <3> QED
      BY <2>8, <3>1 DEF WriteTmp, Goto, Inside, TypeOK, Locations
  <2>3. ASSUME NEW p \in Pids, CreateLock(p)
        PROVE  TheLock!Acquire(p)
    <3>1. lock = Absent /\ lock' # Absent /\ reclaimed' = reclaimed
      BY <2>3, MarkersAreNotPids DEF CreateLock
    <3>2. Inside = {}
      BY <2>0, <3>1, InsideIsAlone
    <3>3. Inside' = {p}
      BY <2>3, <3>2 DEF CreateLock, Goto, Inside, TypeOK
    <3> QED
      BY <3>1, <3>2, <3>3 DEF TheLock!Acquire, Inside
  <2>4. ASSUME NEW p \in Pids, WritePid(p)
        PROVE  UNCHANGED <<lock # Absent, Inside, reclaimed>>
    <3>1. p \in Inside
      BY <2>4 DEF WritePid, Inside
    <3>2. lock # Absent /\ lock' # Absent
      BY <2>0, <2>4, <3>1, InsideIsAlone, MarkersAreNotPids DEF WritePid
    <3> QED
      BY <2>4, <3>1, <3>2 DEF WritePid, Goto, Inside, TypeOK
  <2>5. ASSUME NEW p \in Pids, Release(p)
        PROVE  TheLock!GiveBack(p)
    <3>1. p \in Inside
      BY <2>5 DEF Release, Inside
    <3>2. lock # Absent /\ Inside = {p}
      BY <2>0, <3>1, InsideIsAlone
    <3>3. lock' = Absent /\ Inside' = {} /\ reclaimed' = reclaimed
      BY <2>5, <3>2 DEF Release, Goto, Inside, TypeOK
    <3> QED
      BY <3>2, <3>3 DEF TheLock!GiveBack, Inside
  <2>6. ASSUME NEW p \in Pids, Crash(p)
        PROVE  TheLock!Die(p) \/ UNCHANGED <<lock, Inside, reclaimed>>
    <3>1. lock' = lock /\ reclaimed' = reclaimed /\ Inside' = Inside \ {p}
      BY <2>6 DEF Crash, Goto, Inside, TypeOK
    <3>2. CASE p \in Inside
      BY <2>0, <3>1, <3>2, InsideIsAlone DEF TheLock!Die, Inside
    <3>3. CASE p \notin Inside
      BY <3>1, <3>3
    <3> QED
      BY <3>2, <3>3
  <2>7. ASSUME NEW p \in Pids, RenameTmp(p)
        PROVE  FALSE
    BY <1>b, <2>7 DEF RenameTmp
  <2> QED
    BY <2>1, <2>2, <2>3, <2>4, <2>5, <2>6, <2>7, <2>8, StepCases DEF Inside
<1> QED
  BY <1>a, <1>b

(* The lock file implements the lock: exclusive until a lock is taken over *)
(* as stale, and kept by a killed run.                                     *)
THEOREM LockIsImplemented == Spec => ImplementsLock
<1>1. Init => TheLock!LockInit /\ OwnsFile
  BY DEF Init, TheLock!LockInit, OwnsFile, Holding
<1> QED
  BY <1>1, LockStep, OwnsFileInductive, TypeCorrect, PTL
     DEF Spec, ImplementsLock, TheLock!LockSpec
=============================================================================
