--------------------------- MODULE ProvisionLock ---------------------------
(***************************************************************************)
(* The lock platformctl provision and platformctl install take             *)
(* (platformctl/internal/state/lock_unix.go and the lock metadata of       *)
(* state.go).  It is an flock(2) on the file the path                      *)
(* /etc/platform/.provision.lock names at the moment it is opened: the     *)
(* path can be unlinked and name another inode later, the flock stays with *)
(* the inode.  Each member of Procs is one command and its pid; every      *)
(* system call is a step.                                                  *)
(***************************************************************************)
EXTENDS FiniteSets, Naturals

CONSTANTS
    Procs,   \* platformctl commands; a command is also its pid (pids are not reused)
    Inodes,  \* inodes the lock file can be; a free one exists for every open
    None     \* no inode, no pid

ASSUME LockAssumption ==
    /\ None \notin Procs \cup Inodes
    /\ IsFiniteSet(Procs) /\ IsFiniteSet(Inodes)
    /\ Cardinality(Inodes) > Cardinality(Procs)

VARIABLES
    pc,     \* where each command is
    path,   \* the inode the lock path names
    fd,     \* the inode each command has open
    locked, \* the commands whose open file holds the flock
    meta,   \* the pid written in each inode
    seen    \* the pid each command read from a lock it could not take

vars == <<pc, path, fd, locked, meta, seen>>

Ended == {"refused", "done", "dead"}
Stages == {"start", "flock", "check", "alive", "remove", "reopen", "reflock",
           "truncate", "write", "held", "unlink"} \cup Ended

TypeOK ==
    /\ pc \in [Procs -> Stages]
    /\ path \in Inodes \cup {None}
    /\ fd \in [Procs -> Inodes \cup {None}]
    /\ locked \subseteq Procs
    /\ meta \in [Inodes -> Procs \cup {None}]
    /\ seen \in [Procs -> Procs \cup {None}]

Init ==
    /\ pc = [p \in Procs |-> "start"]
    /\ path = None
    /\ fd = [p \in Procs |-> None]
    /\ locked = {}
    /\ meta = [i \in Inodes |-> None]
    /\ seen = [p \in Procs |-> None]

Go(p, st) == pc' = [pc EXCEPT ![p] = st]

\* kill(pid, 0) succeeds: the command has not ended.
AlivePID(p) == pc[p] \notin Ended

Unused(i) == i # path /\ \A p \in Procs : fd[p] # i

\* os.OpenFile(lockPath, O_CREATE|O_RDWR)
Open(p, from, to) ==
    /\ pc[p] = from
    /\ \/ /\ path # None
          /\ fd' = [fd EXCEPT ![p] = path]
          /\ UNCHANGED <<path, meta>>
       \/ /\ path = None
          /\ \E i \in Inodes :
                /\ Unused(i)
                /\ path' = i
                /\ fd' = [fd EXCEPT ![p] = i]
                /\ meta' = [meta EXCEPT ![i] = None]
    /\ Go(p, to)
    /\ UNCHANGED <<locked, seen>>

\* flock is exclusive per inode.
Free(i) == \A q \in locked : fd[q] # i

\* Mutant: a lock file that records a pid is a lock, as with O_EXCL.
FlockUnrecorded(p) ==
    /\ pc[p] = "flock"
    /\ \/ /\ Free(fd[p]) /\ meta[fd[p]] = None
          /\ locked' = locked \cup {p}
          /\ Go(p, "truncate")
       \/ /\ ~(Free(fd[p]) /\ meta[fd[p]] = None)
          /\ Go(p, "refused")
          /\ UNCHANGED locked
    /\ UNCHANGED <<path, fd, meta, seen>>

\* flock(LOCK_EX|LOCK_NB) on the first open; if it fails the metadata is consulted.
Flock(p) ==
    /\ pc[p] = "flock"
    /\ \/ /\ Free(fd[p])
          /\ locked' = locked \cup {p}
          /\ Go(p, "truncate")
       \/ /\ ~Free(fd[p])
          /\ Go(p, "check")
          /\ UNCHANGED locked
    /\ UNCHANGED <<path, fd, meta, seen>>

\* readLockMeta, ParsePIDFromLock, Close
Check(p) ==
    /\ pc[p] = "check"
    /\ seen' = [seen EXCEPT ![p] = meta[fd[p]]]
    /\ fd' = [fd EXCEPT ![p] = None]
    /\ Go(p, "alive")
    /\ UNCHANGED <<path, locked, meta>>

\* Mutant: the take-over does not ask whether the recorded pid is dead.
CheckAliveSkipped(p) ==
    /\ pc[p] = "alive"
    /\ Go(p, IF seen[p] # None THEN "remove" ELSE "refused")
    /\ UNCHANGED <<path, fd, locked, meta, seen>>

\* Only a recorded pid that is dead allows the lock to be taken over.
CheckAlive(p) ==
    /\ pc[p] = "alive"
    /\ Go(p, IF seen[p] # None /\ ~AlivePID(seen[p]) THEN "remove" ELSE "refused")
    /\ UNCHANGED <<path, fd, locked, meta, seen>>

RemoveStale(p) ==
    /\ pc[p] = "remove"
    /\ path' = None
    /\ Go(p, "reopen")
    /\ UNCHANGED <<fd, locked, meta, seen>>

FlockAgain(p) ==
    /\ pc[p] = "reflock"
    /\ \/ /\ Free(fd[p])
          /\ locked' = locked \cup {p}
          /\ Go(p, "truncate")
          /\ UNCHANGED fd
       \/ /\ ~Free(fd[p])
          /\ fd' = [fd EXCEPT ![p] = None]
          /\ Go(p, "refused")
          /\ UNCHANGED locked
    /\ UNCHANGED <<path, meta, seen>>

\* writeLockMeta: Truncate, then WriteString; AcquireLock returns.
TruncateMeta(p) ==
    /\ pc[p] = "truncate"
    /\ meta' = [meta EXCEPT ![fd[p]] = None]
    /\ Go(p, "write")
    /\ UNCHANGED <<path, fd, locked, seen>>

WriteMeta(p) ==
    /\ pc[p] = "write"
    /\ meta' = [meta EXCEPT ![fd[p]] = p]
    /\ Go(p, "held")
    /\ UNCHANGED <<path, fd, locked, seen>>

\* unlock(): flock(LOCK_UN) and Close ...
Unlock(p) ==
    /\ pc[p] = "held"
    /\ locked' = locked \ {p}
    /\ fd' = [fd EXCEPT ![p] = None]
    /\ Go(p, "unlink")
    /\ UNCHANGED <<path, meta, seen>>

\* ... then os.Remove(lockPath), whatever the path names by now.
Unlink(p) ==
    /\ pc[p] = "unlink"
    /\ path' = None
    /\ Go(p, "done")
    /\ UNCHANGED <<fd, locked, meta, seen>>

\* The command is killed: the kernel closes its files, which frees the flock; the lock file
\* and the pid in it stay.
Crash(p) ==
    /\ pc[p] \notin Ended \cup {"start"}
    /\ Go(p, "dead")
    /\ locked' = locked \ {p}
    /\ fd' = [fd EXCEPT ![p] = None]
    /\ UNCHANGED <<path, meta, seen>>

AcquireLock(p) ==
    \/ Open(p, "start", "flock") \/ Flock(p) \/ Check(p) \/ CheckAlive(p)
    \/ RemoveStale(p) \/ Open(p, "reopen", "reflock") \/ FlockAgain(p)
    \/ TruncateMeta(p) \/ WriteMeta(p)

Next == \E p \in Procs : AcquireLock(p) \/ Unlock(p) \/ Unlink(p) \/ Crash(p)

Spec == Init /\ [][Next]_vars

\* Once a command has been started, it keeps running: none of its system calls blocks.
FairSpec == Spec /\ \A p \in Procs : WF_vars(AcquireLock(p)) /\ WF_vars(Unlock(p) \/ Unlink(p))

-----------------------------------------------------------------------------
(* Properties *)

\* "AcquireLock prevents concurrent provision/install runs using flock(2)."
MutualExclusion ==
    \A p, q \in Procs : pc[p] = "held" /\ pc[q] = "held" => p = q

\* However many commands race, one gets in or dies trying: they never all turn each other away.
NotAllRefused == Procs # {} => \E p \in Procs : pc[p] # "refused"

\* A lock file left by a command that was killed blocks nobody: a command that starts when
\* all others have ended gets in.
StaleLockFreed ==
    \A p \in Procs :
        (pc[p] = "start" /\ \A q \in Procs \ {p} : pc[q] \in Ended)
            ~> pc[p] \in {"held", "unlink", "done", "dead"}

\* The abstract mutex this lock implements as long as at most two commands ever run.
Status(p) ==
    CASE pc[p] = "held" -> "in"
      [] pc[p] \in {"unlink"} \cup Ended -> "gone"
      [] OTHER -> "out"

Mutex == INSTANCE ProvisionMutex WITH status <- [p \in Procs |-> Status(p)]
ImplementsMutex == Mutex!Spec
=============================================================================
