------------------------------- MODULE TaskLife -------------------------------
(***************************************************************************)
(* What the task queue of scripts/cron/pipeline.py promises of a task:     *)
(* one life, each step of it taken once, whoever takes it and however old  *)
(* the copy is that a run works on.  A task is settled for good, and a     *)
(* file is lost only while it is being written.                            *)
(***************************************************************************)
CONSTANT Tasks

VARIABLE life       \* for each task

vars == <<life>>

Outcomes == {"branch", "failed", "obsolete"}

Becomes(t, from, to) == life[t] \in from /\ life' = [life EXCEPT ![t] = to]

Appear(t) == Becomes(t, {"absent"}, "open")
Claim(t) == Becomes(t, {"open"}, "claimed")
GetPlan(t) == Becomes(t, {"claimed"}, "planned")
Settle(t) == \E outcome \in Outcomes : Becomes(t, {"planned"}, outcome)
LoseFile(t) == Becomes(t, {"absent", "open", "claimed", "planned"}, "torn")

LifeInit == life = [t \in Tasks |-> "absent"]

LifeNext ==
    \E t \in Tasks :
        \/ Appear(t)
        \/ Claim(t)
        \/ GetPlan(t)
        \/ Settle(t)
        \/ LoseFile(t)

LifeSpec == LifeInit /\ [][LifeNext]_vars
=============================================================================
