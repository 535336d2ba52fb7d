------------------------------- MODULE PidLock -------------------------------
(***************************************************************************)
(* The per-agent lock file of scripts/cron/pipeline.py (class _Lock): one  *)
(* lock name, any number of cron runs of that agent.  A run is identified  *)
(* by its process id; a process id can be used again by a later run.       *)
(*                                                                         *)
(* One action per system call that another run can observe: the exclusive  *)
(* create, the write of the pid, the read of an existing file, the         *)
(* liveness probe, the opening of the temporary file (which empties it),   *)
(* the write into it, its rename, the unlink.                              *)
(***************************************************************************)
CONSTANTS
    Pids,       \* process ids the runs of this agent can have
    Absent,     \* no file at the path
    Empty,      \* a file that holds no pid yet (reads as 0)
    NoPid       \* "no process": int(text or 0), int("garbage"), OSError

ASSUME MarkersAreNotPids ==
    /\ Absent \notin Pids
    /\ Empty \notin Pids
    /\ NoPid \notin Pids
    /\ Absent # Empty

VARIABLES
    lock,       \* what is at LOCK_DIR/<name>.lock
    openBy,     \* the runs whose descriptors are open on the file at that path
    tmp,        \* what is at LOCK_DIR/<name>.tmp
    tmpOpenBy,  \* the runs whose descriptors are open on that file
    pc,         \* where each run is
    holder,     \* the pid each run read from the lock file
    foreign,    \* pids the system has given to unrelated processes
    reclaimed,  \* history: some run has taken the lock over as stale
    crashed,    \* history: some run has died without unwinding
    quiet       \* from now on no run is killed, no pid in the file is reused

vars == <<lock, openBy, tmp, tmpOpenBy, pc, holder, foreign, reclaimed, crashed,
          quiet>>
temporary == <<tmp, tmpOpenBy>>

Locations ==
    {"off", "enter", "created", "found", "probe", "stale", "opened", "rename",
     "holding"}

TypeOK ==
    /\ lock \in Pids \cup {Absent, Empty}
    /\ openBy \in SUBSET Pids
    /\ tmp \in Pids \cup {Absent, Empty}
    /\ tmpOpenBy \in SUBSET Pids
    /\ pc \in [Pids -> Locations]
    /\ holder \in [Pids -> Pids \cup {NoPid}]
    /\ foreign \in SUBSET Pids
    /\ reclaimed \in BOOLEAN
    /\ crashed \in BOOLEAN
    /\ quiet \in BOOLEAN

Init ==
    /\ lock = Absent
    /\ openBy = {}
    /\ tmp = Absent
    /\ tmpOpenBy = {}
    /\ pc = [p \in Pids |-> "off"]
    /\ holder = [p \in Pids |-> NoPid]
    /\ foreign = {}
    /\ reclaimed = FALSE
    /\ crashed = FALSE
    /\ quiet = FALSE

-----------------------------------------------------------------------------

Goto(p, location) == pc' = [pc EXCEPT ![p] = location]

(* a mutated form of PidAlive: every failure of os.kill counts as alive    *)
AnyPidAlive(p) == p \in Pids

(* os.kill(pid, 0) succeeds exactly for a process that exists, a run of    *)
(* this agent or any other process that was given the pid later on         *)
PidAlive(p) == p \in Pids /\ (pc[p] # "off" \/ p \in foreign)

(* the system gives the pid of an ended run to an unrelated process        *)
ForeignStart(p) ==
    /\ ~quiet
    /\ pc[p] = "off"
    /\ p \notin foreign
    /\ foreign' = foreign \cup {p}
    /\ UNCHANGED <<lock, openBy, temporary, pc, holder, reclaimed, crashed, quiet>>

ForeignEnd(p) ==
    /\ p \in foreign
    /\ foreign' = foreign \ {p}
    /\ UNCHANGED <<lock, openBy, temporary, pc, holder, reclaimed, crashed, quiet>>

(* cron starts a run of the agent, possibly under the pid of a dead one    *)
Fire(p) ==
    /\ quiet => lock # p
    /\ pc[p] = "off"
    /\ p \notin foreign
    /\ Goto(p, "enter")
    /\ UNCHANGED <<lock, openBy, temporary, holder, foreign, reclaimed, crashed,
                   quiet>>

(* a mutated form of CreateLock: O_CREAT without O_EXCL                     *)
CreateShared(p) ==
    /\ pc[p] = "enter"
    /\ lock' = Empty
    /\ openBy' = {p}
    /\ Goto(p, "created")
    /\ UNCHANGED <<temporary, holder, foreign, reclaimed, crashed, quiet>>

(* os.open(path, O_CREAT | O_EXCL | O_WRONLY) succeeds                     *)
CreateLock(p) ==
    /\ pc[p] = "enter"
    /\ lock = Absent
    /\ lock' = Empty
    /\ openBy' = {p}
    /\ Goto(p, "created")
    /\ UNCHANGED <<temporary, holder, foreign, reclaimed, crashed, quiet>>

(* os.write and os.close: the pid lands in the file this run created, which *)
(* need no longer be the file at the path                                  *)
WritePid(p) ==
    /\ pc[p] = "created"
    /\ lock' = IF p \in openBy THEN p ELSE lock
    /\ openBy' = openBy \ {p}
    /\ Goto(p, "holding")
    /\ UNCHANGED <<temporary, holder, foreign, reclaimed, crashed, quiet>>

(* os.open raised FileExistsError                                          *)
FindExisting(p) ==
    /\ pc[p] = "enter"
    /\ lock # Absent
    /\ Goto(p, "found")
    /\ UNCHANGED <<lock, openBy, temporary, holder, foreign, reclaimed, crashed,
                   quiet>>

(* a mutated form of ReadHolder: without the fallback to 0                 *)
ReadHolderRaw(p) ==
    /\ pc[p] = "found"
    /\ holder' = [holder EXCEPT ![p] = lock]
    /\ Goto(p, "probe")
    /\ UNCHANGED <<lock, openBy, temporary, foreign, reclaimed, crashed, quiet>>

(* int(read_text().strip() or 0): an empty or vanished file reads as no pid *)
ReadHolder(p) ==
    /\ pc[p] = "found"
    /\ holder' = [holder EXCEPT ![p] = IF lock \in Pids THEN lock ELSE NoPid]
    /\ Goto(p, "probe")
    /\ UNCHANGED <<lock, openBy, temporary, foreign, reclaimed, crashed, quiet>>

(* the holder is alive: log and sys.exit(0)                                *)
SkipRun(p) ==
    /\ pc[p] = "probe"
    /\ PidAlive(holder[p])
    /\ holder' = [holder EXCEPT ![p] = NoPid]
    /\ Goto(p, "off")
    /\ UNCHANGED <<lock, openBy, temporary, foreign, reclaimed, crashed, quiet>>

JudgeStale(p) ==
    /\ pc[p] = "probe"
    /\ ~PidAlive(holder[p])
    /\ holder' = [holder EXCEPT ![p] = NoPid]
    /\ Goto(p, "stale")
    /\ UNCHANGED <<lock, openBy, temporary, foreign, reclaimed, crashed, quiet>>

(* Path.write_text opens the temporary path, the same for every run of the *)
(* agent, and empties the file it finds there                              *)
OpenTmp(p) ==
    /\ pc[p] = "stale"
    /\ tmp' = Empty
    /\ tmpOpenBy' = tmpOpenBy \cup {p}
    /\ Goto(p, "opened")
    /\ UNCHANGED <<lock, openBy, holder, foreign, reclaimed, crashed, quiet>>

(* what a file holds once p has written its pid at the start of it: digits *)
(* of a longer pid written there meanwhile are left over behind it         *)
Written(p, file) == IF file = Empty THEN {p} ELSE {p} \cup Pids

(* The pid lands in the file this run opened, which another run may have   *)
(* renamed over the lock by now, or which may be gone from both paths.     *)
WriteTmp(p) ==
    /\ pc[p] = "opened"
    /\ tmp' \in IF p \in tmpOpenBy THEN Written(p, tmp) ELSE {tmp}
    /\ lock' \in IF p \in openBy THEN Written(p, lock) ELSE {lock}
    /\ tmpOpenBy' = tmpOpenBy \ {p}
    /\ openBy' = openBy \ {p}
    /\ Goto(p, "rename")
    /\ UNCHANGED <<holder, foreign, reclaimed, crashed, quiet>>

(* tmp.replace(path) moves whatever the temporary file holds by now        *)
RenameTmp(p) ==
    /\ pc[p] = "rename"
    /\ tmp # Absent
    /\ lock' = tmp
    /\ tmp' = Absent
    /\ openBy' = tmpOpenBy
    /\ tmpOpenBy' = {}
    /\ reclaimed' = TRUE
    /\ Goto(p, "holding")
    /\ UNCHANGED <<holder, foreign, crashed, quiet>>

(* the temporary file was renamed by another run: FileNotFoundError leaves  *)
(* __enter__ and ends the run                                              *)
RenameFails(p) ==
    /\ pc[p] = "rename"
    /\ tmp = Absent
    /\ Goto(p, "off")
    /\ UNCHANGED <<lock, openBy, temporary, holder, foreign, reclaimed, crashed,
                   quiet>>

(* a mutated form of Release: unlink only a file that names this run       *)
ReleaseOwnFile(p) ==
    /\ pc[p] = "holding"
    /\ lock' = IF lock = p THEN Absent ELSE lock
    /\ openBy' = {}
    /\ Goto(p, "off")
    /\ UNCHANGED <<temporary, holder, foreign, reclaimed, crashed, quiet>>

(* __exit__: path.unlink(missing_ok=True), whoever the file belongs to     *)
Release(p) ==
    /\ pc[p] = "holding"
    /\ lock' = Absent
    /\ openBy' = {}
    /\ Goto(p, "off")
    /\ UNCHANGED <<temporary, holder, foreign, reclaimed, crashed, quiet>>

(* the process is killed (pod restart, OOM): no __exit__                   *)
Crash(p) ==
    /\ ~quiet
    /\ pc[p] # "off"
    /\ Goto(p, "off")
    /\ openBy' = openBy \ {p}
    /\ tmpOpenBy' = tmpOpenBy \ {p}
    /\ holder' = [holder EXCEPT ![p] = NoPid]
    /\ crashed' = TRUE
    /\ UNCHANGED <<lock, tmp, foreign, reclaimed, quiet>>

(* the environment settles down: what it did so far is all it will do      *)
QuietenDown ==
    /\ quiet' = TRUE
    /\ UNCHANGED <<lock, openBy, temporary, pc, holder, foreign, reclaimed,
                   crashed>>

Enter(p) ==
    \/ CreateLock(p)
    \/ WritePid(p)
    \/ FindExisting(p)
    \/ ReadHolder(p)
    \/ SkipRun(p)
    \/ JudgeStale(p)
    \/ OpenTmp(p)
    \/ WriteTmp(p)
    \/ RenameTmp(p)
    \/ RenameFails(p)

Next ==
    \/ \E p \in Pids :
          \/ Fire(p)
          \/ Enter(p)
          \/ Release(p)
          \/ Crash(p)
          \/ ForeignStart(p)
          \/ ForeignEnd(p)
    \/ QuietenDown

Spec == Init /\ [][Next]_vars

(* cron keeps firing; a run that is not killed keeps executing; a process   *)
(* that happens to get an old pid ends some day                            *)
Fairness ==
    /\ WF_vars(\E p \in Pids : Fire(p))
    /\ \A p \in Pids :
        WF_vars(Enter(p)) /\ WF_vars(Release(p)) /\ WF_vars(ForeignEnd(p))

FairSpec == Spec /\ Fairness

-----------------------------------------------------------------------------

Holding(p) == pc[p] = "holding"

(* "Try atomic exclusive create first. If that succeeds we own the lock"   *)
(* (pipeline.py, _Lock.__enter__): at most one run is inside the lock.     *)
(* Refuted: a reader that falls between create and write, or two runs that *)
(* both judged the same file stale, break it.                              *)
OneHolder == \A p, q \in Pids : Holding(p) /\ Holding(q) => p = q

(* Exclusive create alone is sound: until the first stale-lock takeover,   *)
(* crashes and reused pids included, at most one run is inside the lock.   *)
(* So every double entry goes through the reclaim path of __enter__.       *)
ExclusiveUntilReclaim == ~reclaimed => OneHolder

(* The file is the lock it is meant to be (AgentLock) until the first      *)
(* takeover, although creating it and writing the pid are two system calls *)
(* and a killed run leaves it in either state: the exclusive create is the *)
(* moment a run gets the lock (pipeline.py:231).                           *)
TheLock == INSTANCE AgentLock WITH
    Runs <- Pids,
    taken <- lock # Absent,
    inside <- {p \in Pids : pc[p] \in {"created", "holding"}},
    usurped <- reclaimed
ImplementsLock == TheLock!LockSpec

(* Runs that unwind normally leave nothing behind, whatever the interleaving *)
(* of takeovers, failed renames and unlinks of each other's files: a       *)
(* leftover lock or temporary file is the trace of a killed run.           *)
NothingLeftBehind ==
    ~crashed /\ (\A p \in Pids : pc[p] = "off")
        => lock = Absent /\ tmp = Absent

(* A stale lock does not stop the agent for good: once no more runs are     *)
(* killed and the pid it names is not used again, some run gets inside the  *)
(* lock again and again, although the file may name a dead run, a run that  *)
(* never entered or an unrelated process.  (A new run that is given the pid *)
(* in the file takes itself for the holder and skips.)                     *)
LockNeverStuck ==
    <>quiet => []<>(\E p \in Pids : Holding(p))

=============================================================================
