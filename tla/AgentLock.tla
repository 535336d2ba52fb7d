------------------------------- MODULE AgentLock -------------------------------
(***************************************************************************)
(* What the lock of a cron job (scripts/cron/pipeline.py, _Lock) is to be: *)
(* a run gets in only if the lock is free and nobody is inside, and gives  *)
(* it back; the lock of a killed run stays taken.  Taking a lock over is   *)
(* the one way round this, and after it the lock promises nothing more.    *)
(***************************************************************************)
CONSTANT Runs

VARIABLES
    taken,      \* some run has got the lock and not given it back
    inside,     \* runs at work under the lock
    usurped     \* a lock has been taken over

lockVars == <<taken, inside, usurped>>

Acquire(p) ==
    /\ ~taken
    /\ inside = {}
    /\ taken' = TRUE
    /\ inside' = {p}
    /\ UNCHANGED usurped

GiveBack(p) ==
    /\ taken
    /\ inside = {p}
    /\ taken' = FALSE
    /\ inside' = {}
    /\ UNCHANGED usurped

Die(p) ==
    /\ inside = {p}
    /\ inside' = {}
    /\ UNCHANGED <<taken, usurped>>

(* whatever the state is, before and after                                 *)
NoPromise == usurped' = TRUE

LockInit ==
    /\ taken = FALSE
    /\ inside = {}
    /\ usurped = FALSE

LockNext ==
    \/ \E p \in Runs : Acquire(p) \/ GiveBack(p) \/ Die(p)
    \/ NoPromise

LockSpec == LockInit /\ [][LockNext]_lockVars
=============================================================================
