----------------------------- MODULE SharedMemory -----------------------------
(***************************************************************************)
(* The results the pipeline's jobs leave in a git repository               *)
(* (scripts/cron/pipeline.py, _sync_shared_memory_pull and _push).         *)
(*                                                                         *)
(* Every run pulls when the script is imported, before any lock, and       *)
(* commits and pushes when its step is done; the runs of a host share one  *)
(* working copy.  What git answers is never looked at.  A branch is a      *)
(* sequence of patches; a patch gives files new versions, and versions are *)
(* numbered in the order in which they are written.                        *)
(***************************************************************************)
EXTENDS Integers, Sequences, SequencesExt, FiniteSetsExt

CONSTANTS
    Hosts,
    Syncs,          \* runs of the script
    HostOf,         \* where each runs
    Results,        \* the files of shared-memory/
    MaxVersion      \* bound: writes of files

Unwritten == 0
Markers == -1       \* a file with conflict markers

ASSUME SharedMemoryAssumption ==
    /\ HostOf \in [Syncs -> Hosts]
    /\ MaxVersion \in Nat

VARIABLES
    remote,     \* the branch as published
    copies,     \* for each host: its directory shared-memory/
    backups,    \* for each host: the directory shared-memory-backup/
    syncs,      \* how far each run has got
    version     \* the last version written

memoryVars == <<remote, copies, backups, syncs, version>>

Empty == [f \in Results |-> Unwritten]
NoCopy == [kind |-> "absent", base |-> 0, mine |-> <<>>, tree |-> Empty, stopped |-> FALSE]
Plain(tree) == [NoCopy EXCEPT !.kind = "plain", !.tree = tree]

TreeOf(branch) ==
    [f \in Results |->
        LET touching == {i \in DOMAIN branch : f \in DOMAIN branch[i]}
        IN IF touching = {} THEN Unwritten ELSE branch[Max(touching)][f]]

(* the branch that is checked out: what the remote had, and commits of ours *)
CheckedOut(c) == SubSeq(remote, 1, c.base) \o c.mine
Changed(c) == {f \in Results : c.tree[f] # TreeOf(CheckedOut(c))[f]}
Upstream(c) == UNION {DOMAIN remote[i] : i \in c.base + 1 .. Len(remote)}

Clone == [NoCopy EXCEPT !.kind = "clone", !.base = Len(remote), !.tree = TreeOf(remote)]

(* git pull --rebase.  It is refused when a tracked file is changed, or an *)
(* untracked one would be overwritten; it stops at the first of our        *)
(* commits that changes a file the others have changed.                    *)
PullRefused(c) ==
    \/ c.stopped
    \/ \E f \in Changed(c) : TreeOf(CheckedOut(c))[f] # Unwritten \/ f \in Upstream(c)

Conflicts(c) == {i \in DOMAIN c.mine : DOMAIN c.mine[i] \cap Upstream(c) # {}}

Rebased(c) ==
    LET applied == IF Conflicts(c) = {} THEN c.mine ELSE SubSeq(c.mine, 1, Min(Conflicts(c)))
        onto == TreeOf(remote \o applied)
        disputed == IF Conflicts(c) = {} THEN {} ELSE DOMAIN Last(applied) \cap Upstream(c)
        tree == [f \in Results |->
                    IF f \in disputed THEN Markers
                    ELSE IF f \in Changed(c) THEN c.tree[f]
                    ELSE onto[f]]
    IN
    IF Conflicts(c) = {}
    THEN [c EXCEPT !.base = Len(remote), !.tree = tree]
    ELSE [c EXCEPT !.stopped = TRUE, !.tree = tree]

-----------------------------------------------------------------------------

Proceed(p, at) == syncs' = [syncs EXCEPT ![p] = at]
Becomes(h, c) == copies' = [copies EXCEPT ![h] = c]

(* a pull, or one that fails; either way the run goes on                   *)
PullMemory(p) ==
    LET h == HostOf[p] IN
    /\ syncs[p] = "off"
    /\ copies[h].kind = "clone"
    /\ \/ ~PullRefused(copies[h]) /\ Becomes(h, Rebased(copies[h]))
       \/ UNCHANGED copies
    /\ Proceed(p, "inside")
    /\ UNCHANGED <<remote, backups, version>>

(* no directory: clone, and make what is not there                         *)
CloneMemory(p) ==
    LET h == HostOf[p] IN
    /\ syncs[p] = "off"
    /\ copies[h].kind = "absent"
    /\ \/ Becomes(h, Clone)
       \/ Becomes(h, Plain(Empty))
    /\ Proceed(p, "inside")
    /\ UNCHANGED <<remote, backups, version>>

(* a directory that is no repository                                       *)
FindPlain(p) ==
    /\ syncs[p] = "off"
    /\ copies[HostOf[p]].kind = "plain"
    /\ Proceed(p, "found")
    /\ UNCHANGED <<remote, copies, backups, version>>

(* ... is moved away, over an older backup.  By then another run may have  *)
(* moved it, and this one deletes the backup and stops; or cloned anew.    *)
BackUpMemory(p) ==
    LET h == HostOf[p] IN
    /\ syncs[p] = "found"
    /\ backups' = [backups EXCEPT ![h] = copies[h]]
    /\ Becomes(h, NoCopy)
    /\ Proceed(p, IF copies[h].kind = "absent" THEN "off" ELSE "backed up")
    /\ UNCHANGED <<remote, version>>

CloneBeside(p) ==
    LET h == HostOf[p] IN
    /\ syncs[p] = "backed up"
    /\ \/ copies[h].kind = "absent" /\ Becomes(h, Clone)
       \/ UNCHANGED copies
    /\ Proceed(p, "cloned")
    /\ UNCHANGED <<remote, backups, version>>

(* a mutated form of Merged: the backup's files replace those of the clone *)
MergedOver(tree, saved) == [f \in Results |-> IF saved[f] # Unwritten THEN saved[f] ELSE tree[f]]

Merged(tree, saved) == [f \in Results |-> IF tree[f] = Unwritten THEN saved[f] ELSE tree[f]]

(* The files the clone lacks come back, a .git that is lacking among them. *)
(* Without a backup, because another run has removed it, rmtree raises and *)
(* the run is over.                                                        *)
MergeBackup(p) ==
    LET h == HostOf[p]
        repository == IF copies[h].kind = "clone" THEN copies[h] ELSE backups[h]
        tree == Merged(copies[h].tree, backups[h].tree)
    IN
    /\ syncs[p] = "cloned"
    /\ IF backups[h] = NoCopy
       THEN Proceed(p, "off") /\ UNCHANGED copies
       ELSE Proceed(p, "inside") /\ Becomes(h, [repository EXCEPT !.tree = tree])
    /\ backups' = [backups EXCEPT ![h] = NoCopy]
    /\ UNCHANGED <<remote, version>>

(* _write_envelope and the like; it raises when the directory is gone      *)
WriteResult(p, f) ==
    LET h == HostOf[p] IN
    /\ syncs[p] = "inside"
    /\ copies[h].kind # "absent"
    /\ version < MaxVersion
    /\ version' = version + 1
    /\ copies' = [copies EXCEPT ![h].tree[f] = version']
    /\ UNCHANGED <<remote, backups, syncs>>

(* add -A and commit, if it succeeds; in a rebase that stopped, main does  *)
(* not move                                                                *)
CommitResults(p) ==
    LET h == HostOf[p]
        c == copies[h]
        patch == [f \in Changed(c) |-> c.tree[f]]
    IN
    /\ syncs[p] = "inside"
    /\ c.kind = "clone"
    /\ c.stopped \/ Changed(c) # {}
    /\ \/ ~c.stopped /\ Becomes(h, [c EXCEPT !.mine = Append(@, patch)])
       \/ UNCHANGED copies
    /\ Proceed(p, "committed")
    /\ UNCHANGED <<remote, backups, version>>

(* no repository, or nothing to commit: no push, whatever is unpublished   *)
NothingToCommit(p) ==
    LET c == copies[HostOf[p]] IN
    /\ syncs[p] = "inside"
    /\ c.kind # "clone" \/ c.stopped \/ Changed(c) = {}
    /\ Proceed(p, "off")
    /\ UNCHANGED <<remote, copies, backups, version>>

(* a push that is no fast-forward is rejected                              *)
PushMemory(p) ==
    LET h == HostOf[p]
        c == copies[h]
    IN
    /\ syncs[p] = "committed"
    /\ IF c.kind = "clone" /\ c.base = Len(remote) /\ ~c.stopped
       THEN /\ remote' = remote \o c.mine
            /\ Becomes(h, [c EXCEPT !.base = Len(remote'), !.mine = <<>>])
       ELSE UNCHANGED <<remote, copies>>
    /\ Proceed(p, "off")
    /\ UNCHANGED <<backups, version>>

(* the run is killed, or a git command times out                           *)
SyncDies(p) ==
    /\ syncs[p] # "off"
    /\ Proceed(p, "off")
    /\ UNCHANGED <<remote, copies, backups, version>>

MemoryInit ==
    /\ remote = <<>>
    /\ copies = [h \in Hosts |-> NoCopy]
    /\ backups = [h \in Hosts |-> NoCopy]
    /\ syncs = [p \in Syncs |-> "off"]
    /\ version = 0

MemoryNext ==
    \E p \in Syncs :
       \/ PullMemory(p) \/ CloneMemory(p)
       \/ FindPlain(p) \/ BackUpMemory(p) \/ CloneBeside(p)
       \/ MergeBackup(p)
       \/ \E f \in Results : WriteResult(p, f)
       \/ CommitResults(p) \/ NothingToCommit(p) \/ PushMemory(p)
       \/ SyncDies(p)

MemorySpec == MemoryInit /\ [][MemoryNext]_memoryVars

-----------------------------------------------------------------------------

Versions == Markers..MaxVersion
Patches == UNION {[S -> 1..MaxVersion] : S \in SUBSET Results}

MemoryTypeOK ==
    /\ \A i \in DOMAIN remote : remote[i] \in Patches
    /\ \A h \in Hosts : \A c \in {copies[h], backups[h]} :
          /\ c.kind \in {"absent", "plain", "clone"}
          /\ c.base \in 0..Len(remote)
          /\ \A i \in DOMAIN c.mine : c.mine[i] \in Patches
          /\ c.tree \in [Results -> Versions]
    /\ syncs \in [Syncs -> {"off", "found", "backed up", "cloned", "inside", "committed"}]
    /\ version \in 0..MaxVersion

(* A result that is published is never followed by an older one of the     *)
(* same job, though failed pulls, rejected pushes and directories that are *)
(* no repository leave hosts with old files (pipeline.py:134, 150).        *)
PublishedNeverGoesBack ==
    [][\A f \in Results : TreeOf(remote)[f] <= TreeOf(remote')[f]]_remote
=============================================================================
