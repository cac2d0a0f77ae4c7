--------------------------- MODULE LockedReplace ----------------------------
(***************************************************************************)
(* The locked read-modify-replace protocol of osbuild/util/fscache.py.     *)
(*                                                                         *)
(* FsCache never writes to cache.size or cache.info in place.  A process   *)
(* opens the file, waits for a write lock on the inode it opened, compares *)
(* that inode with the one the path names now and starts over when they    *)
(* differ (_atomic_open); it then reads the value, writes the new one to a *)
(* temporary file that it also holds locked, and renames that file over    *)
(* the path (_atomic_file with replace=True).  The lock is on an inode,    *)
(* the data is found through a path, and every update changes the inode:   *)
(* the comparison after locking is what makes the lock mean anything.      *)
(*                                                                         *)
(* One action per system call whose order with those of other processes    *)
(* matters.  An inode number is free again once no path and no open        *)
(* descriptor refers to it, as on a real file system.                      *)
(***************************************************************************)
CONSTANTS
    Proc,          \* the processes that share the cache
    NoProc,        \* not a process: nobody holds the lock
    Inode,         \* inode numbers
    NoInode,       \* not an inode: descriptor is closed
    Value,         \* values the file can have
    Arg,           \* arguments of an update
    NoArg,         \* no update is in progress
    InitValue,     \* value written by FsCache._create_scaffolding
    Accept(_, _),  \* Accept(v, a): update a is carried out on value v
    Apply(_, _),   \* Apply(v, a): the value after update a
    MayCrash       \* whether processes may die

ASSUME ProcAssumption == NoProc \notin Proc
ASSUME InodeAssumption == NoInode \notin Inode
ASSUME ValueAssumption ==
    /\ InitValue \in Value
    /\ \A v \in Value, a \in Arg :
           /\ Accept(v, a) \in BOOLEAN
           /\ Accept(v, a) => Apply(v, a) \in Value
ASSUME CrashAssumption == MayCrash \in BOOLEAN

VARIABLES
    path,      \* the inode the path names
    content,   \* the value stored in each inode
    lock,      \* the process that holds the write lock of each inode
    pc,        \* where each process is in its update
    fd,        \* the inode each process has open and (from "verify" on) locked
    tmp,       \* the inode of the temporary file each process has open
    arg,       \* the argument of the update in progress
    val        \* the value the process computed from what it read

vars == <<path, content, lock, pc, fd, tmp, arg, val>>

Label == {"idle", "open", "lock", "verify", "read", "create", "replace",
          "releaseNew", "release", "refused", "failed", "peek"}

TypeOK ==
    /\ path \in Inode
    /\ content \in [Inode -> Value]
    /\ lock \in [Inode -> Proc \cup {NoProc}]
    /\ pc \in [Proc -> Label]
    /\ fd \in [Proc -> Inode \cup {NoInode}]
    /\ tmp \in [Proc -> Inode \cup {NoInode}]
    /\ arg \in [Proc -> Arg \cup {NoArg}]
    /\ val \in [Proc -> Value]

Init ==
    /\ path \in Inode
    /\ content = [i \in Inode |-> InitValue]
    /\ lock = [i \in Inode |-> NoProc]
    /\ pc = [p \in Proc |-> "idle"]
    /\ fd = [p \in Proc |-> NoInode]
    /\ tmp = [p \in Proc |-> NoInode]
    /\ arg = [p \in Proc |-> NoArg]
    /\ val = [p \in Proc |-> InitValue]

\* An inode number the file system may hand out for a new file.
Free(i) == i # path /\ \A p \in Proc : fd[p] # i /\ tmp[p] # i

Goto(p, l) == pc' = [pc EXCEPT ![p] = l]

\* The call is over and its local variables with it.
Return(p) ==
    /\ Goto(p, "idle")
    /\ arg' = [arg EXCEPT ![p] = NoArg]
    /\ val' = [val EXCEPT ![p] = InitValue]

\* Mutation of SameFile: the inode is not compared again after locking.
SameFileUnchecked(p) == TRUE

\* The inode the path names is the one the descriptor refers to.
SameFile(p) == fd[p] = path

-----------------------------------------------------------------------------
Begin(p, a) ==
    /\ pc[p] = "idle"
    /\ Goto(p, "open")
    /\ arg' = [arg EXCEPT ![p] = a]
    /\ UNCHANGED <<path, content, lock, fd, tmp, val>>

\* fd = os.open(path, O_RDWR)
Open(p) ==
    /\ pc[p] = "open"
    /\ Goto(p, "lock")
    /\ fd' = [fd EXCEPT ![p] = path]
    /\ UNCHANGED <<path, content, lock, tmp, arg, val>>

\* linux.fcntl_flock(fd, F_WRLCK, wait=True)
Lock(p) ==
    /\ pc[p] = "lock"
    /\ lock[fd[p]] = NoProc
    /\ Goto(p, "verify")
    /\ lock' = [lock EXCEPT ![fd[p]] = p]
    /\ UNCHANGED <<path, content, fd, tmp, arg, val>>

\* os.stat(fd) and os.stat(path) agree: yield the descriptor
Verified(p) ==
    /\ pc[p] = "verify"
    /\ SameFile(p)
    /\ Goto(p, "read")
    /\ UNCHANGED <<path, content, lock, fd, tmp, arg, val>>

\* A mutation of Retry: the file is not opened again.
RetrySameFile(p) ==
    /\ pc[p] = "verify"
    /\ ~SameFile(p)
    /\ Goto(p, "lock")
    /\ lock' = [lock EXCEPT ![fd[p]] = NoProc]
    /\ UNCHANGED <<path, content, fd, tmp, arg, val>>
\* they differ: unlock, close and start over
Retry(p) ==
    /\ pc[p] = "verify"
    /\ ~SameFile(p)
    /\ Goto(p, "open")
    /\ lock' = [lock EXCEPT ![fd[p]] = NoProc]
    /\ fd' = [fd EXCEPT ![p] = NoInode]
    /\ UNCHANGED <<path, content, tmp, arg, val>>

\* json.load(fd), then compute the new value or give up
Read(p) ==
    /\ pc[p] = "read"
    /\ LET v == content[fd[p]] IN
       \/ /\ Accept(v, arg[p])
          /\ val' = [val EXCEPT ![p] = Apply(v, arg[p])]
          /\ Goto(p, "create")
       \/ /\ ~Accept(v, arg[p])
          /\ Goto(p, "refused")
          /\ UNCHANGED val
    /\ UNCHANGED <<path, content, lock, fd, tmp, arg>>

\* create "uuid-..." with O_CREAT|O_EXCL, lock it, write the new value to it
CreateTmp(p) ==
    /\ pc[p] = "create"
    /\ \E i \in Inode :
        /\ Free(i)
        /\ content' = [content EXCEPT ![i] = val[p]]
        /\ lock' = [lock EXCEPT ![i] = p]
        /\ tmp' = [tmp EXCEPT ![p] = i]
    /\ Goto(p, "replace")
    /\ UNCHANGED <<path, fd, arg, val>>

\* A mutation of Replace: the value is written to the file itself.
ReplaceInPlace(p) ==
    /\ pc[p] = "replace"
    /\ content' = [content EXCEPT ![path] = val[p]]
    /\ Goto(p, "releaseNew")
    /\ UNCHANGED <<path, lock, fd, tmp, arg, val>>
\* os.rename(tmp, path)
Replace(p) ==
    /\ pc[p] = "replace"
    /\ path' = tmp[p]
    /\ Goto(p, "releaseNew")
    /\ UNCHANGED <<content, lock, fd, tmp, arg, val>>

\* writing or renaming the temporary file raises: close it and unlink it
WriteFails(p) ==
    /\ pc[p] = "replace"
    /\ lock' = [lock EXCEPT ![tmp[p]] = NoProc]
    /\ tmp' = [tmp EXCEPT ![p] = NoInode]
    /\ Goto(p, "failed")
    /\ UNCHANGED <<path, content, fd, arg, val>>

\* leaving the inner _atomic_open: unlock and close the new file
ReleaseNew(p) ==
    /\ pc[p] = "releaseNew"
    /\ lock' = [lock EXCEPT ![tmp[p]] = NoProc]
    /\ tmp' = [tmp EXCEPT ![p] = NoInode]
    /\ Goto(p, "release")
    /\ UNCHANGED <<path, content, fd, arg, val>>

\* leaving the outer _atomic_open: unlock and close the file that was read
Release(p) ==
    /\ pc[p] \in {"release", "refused", "failed"}
    /\ lock' = [lock EXCEPT ![fd[p]] = NoProc]
    /\ fd' = [fd EXCEPT ![p] = NoInode]
    /\ Return(p)
    /\ UNCHANGED <<path, content, tmp>>

\* _load_cache_info opens cache.info and reads it later, without any lock
OpenUnlocked(p) ==
    /\ pc[p] = "idle"
    /\ Goto(p, "peek")
    /\ fd' = [fd EXCEPT ![p] = path]
    /\ UNCHANGED <<path, content, lock, tmp, arg, val>>

\* the value read is content[fd[p]] as it is now
ReadUnlocked(p) ==
    /\ pc[p] = "peek"
    /\ Goto(p, "idle")
    /\ fd' = [fd EXCEPT ![p] = NoInode]
    /\ UNCHANGED <<path, content, lock, tmp, arg, val>>

\* The process dies: the kernel closes its descriptors, which drops its locks.
\* A temporary file it leaves behind is never opened by anyone again.
Crash(p) ==
    /\ MayCrash
    /\ pc[p] # "idle"
    /\ lock' = [i \in Inode |-> IF lock[i] = p THEN NoProc ELSE lock[i]]
    /\ fd' = [fd EXCEPT ![p] = NoInode]
    /\ tmp' = [tmp EXCEPT ![p] = NoInode]
    /\ Return(p)
    /\ UNCHANGED <<path, content>>

Step(p) ==
    \/ Open(p) \/ Lock(p) \/ Verified(p) \/ Retry(p) \/ Read(p)
    \/ CreateTmp(p) \/ Replace(p) \/ WriteFails(p) \/ ReleaseNew(p)
    \/ Release(p) \/ ReadUnlocked(p)

Next ==
    \E p \in Proc :
        \/ \E a \in Arg : Begin(p, a)
        \/ OpenUnlocked(p)
        \/ Step(p)
        \/ Crash(p)

Spec == Init /\ [][Next]_vars

\* A process inside a call keeps running: the calls are straight-line code and
\* the kernel grants a free lock to a waiter.
FairSpec == Spec /\ \A p \in Proc : WF_vars(Step(p))

-----------------------------------------------------------------------------
(***************************************************************************)
(* Properties                                                              *)
(***************************************************************************)

\* Between the comparison of the inodes and the rename, at most one process is
\* inside the protected region of _atomic_open, it holds the lock of the inode
\* it has open, and that inode is still the one the path names: nobody
\* replaced the file under it.
Inside(p) == pc[p] \in {"read", "create", "replace"}
ProtectedRegion ==
    \A p \in Proc : Inside(p) =>
        /\ fd[p] = path
        /\ lock[path] = p
        /\ \A q \in Proc \ {p} : ~Inside(q)

\* The protocol implements the atomic register: no update of cache.size or
\* cache.info is lost, applied twice, applied to a stale value or left half done
\* by a crash.  The update happens when the file is renamed over the path.
AbsCall(p) ==
    CASE pc[p] \in {"idle", "peek"} -> [st |-> "none"]
      [] pc[p] \in {"releaseNew", "release"} ->
            [st |-> "returned", res |-> "done"]
      [] pc[p] = "refused" -> [st |-> "returned", res |-> "refused"]
      [] pc[p] = "failed" -> [st |-> "returned", res |-> "error"]
      [] OTHER -> [st |-> "pending", arg |-> arg[p]]

Register == INSTANCE AtomicRegister WITH
    reg <- content[path], call <- [p \in Proc |-> AbsCall(p)]
Linearizable == Register!ASpec

\* A file somebody has open or the path names is never written to: a reader
\* that takes no lock (_load_cache_info) sees one whole value, the one the file
\* had when it was opened, however many replacements happen meanwhile.
NeverInPlace ==
    [][\A i \in Inode :
          (i = path \/ \E p \in Proc : fd[p] = i /\ fd'[p] = i)
              => content'[i] = content[i]]_vars

\* The retry loop of _atomic_open cannot keep everyone busy for ever: once
\* processes have stopped dying, updates complete as long as there are any.
SomeCallReturns ==
    /\ <>[][\A p \in Proc : ~Crash(p)]_vars
    /\ []<>(\E p \in Proc : pc[p] \notin {"idle", "peek"})
    => []<>(\E p \in Proc : pc[p] \in {"release", "refused", "failed"})
=============================================================================
