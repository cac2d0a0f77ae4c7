------------------------------ MODULE FsCache -------------------------------
(***************************************************************************)
(* The objects of the cache of osbuild/util/fscache.py, shared by several  *)
(* processes: store(), load(), stage() and the eviction of _remove_lru().  *)
(*                                                                         *)
(* An entry is a directory with a lock file, an info file and data.  It is *)
(* born under a name of its own (objects/uuid-...) and renamed to the name *)
(* it is stored under; the directory and its lock file keep their inodes,  *)
(* so an entry stands for both.  Access is granted by non-blocking locks   *)
(* on the lock file, and by checking afterwards that the path still leads  *)
(* to the file that was locked.                                            *)
(*                                                                         *)
(* Steps are the system calls that other processes can tell apart.         *)
(* cache.size is one atomic value here: LockedReplace implements that.     *)
(***************************************************************************)
EXTENDS CacheOps, FiniteSetsExt

CONSTANTS
    Proc,          \* processes that use the cache
    NoProc,
    Entry,         \* directories that can be created; bounds the calls of store
    NoEntry,
    Name,          \* names that entries are stored under
    EntrySize,     \* sizes of the data of an entry
    Overhead,      \* space of the directory and metadata of an entry
    MaxClock,      \* bound on the clock that access times are taken from
    MayCrash,      \* whether processes may die
    Compatible     \* processes that support the version in cache.info

ASSUME CacheAssumption ==
    /\ NoProc \notin Proc /\ NoEntry \notin Entry
    /\ Name \cap (Entry \cup {"", "unborn", "anon", "stage", "gone"}) = {}
    /\ EntrySize \subseteq Nat /\ Overhead \in Nat /\ MaxClock \in Nat
    /\ MaxSize \in Nat \cup {-1}
    /\ MayCrash \in BOOLEAN /\ Compatible \subseteq Proc

VARIABLES
    ent,       \* per entry: where its directory is (loc), which of the lock,
               \* info and data it contains, the size of the complete data,
               \* the access time and the lock holders of its lock file
    clock,     \* the clock of the file system
    csize,     \* the number in cache.size
    proc       \* per process: where it is (pc) and its local variables

vars == <<ent, clock, csize, proc>>

Unborn == [loc |-> "unborn", lock |-> FALSE, info |-> FALSE, data |-> "none",
           size |-> 0, atime |-> 0, writer |-> NoProc, readers |-> {}]

Idle == [pc |-> "idle",
         name |-> "",            \* name to store or to load
         own |-> NoEntry,        \* entry being created; its lock is held
         fd |-> NoEntry,         \* entry whose lock file is open
         todo |-> {},            \* rest of the list of _remove_lru
         path |-> "",            \* element of that list being looked at
         last |-> 0,             \* ... and its access time in the list
         space |-> 0,            \* what _calculate_space returned for it
         freed |-> 0,            \* freed_so_far
         tried |-> FALSE,        \* _remove_lru ran already
         keep |-> FALSE,         \* uuidname was set to None
         err |-> "none"]         \* exception raised in the call

Init ==
    /\ ent = [e \in Entry |-> Unborn]
    /\ clock = 0
    /\ csize = 0
    /\ proc = [p \in Proc |-> Idle]

-----------------------------------------------------------------------------
At(p, l) == proc[p].pc = l
Goto(p, l) == proc' = [proc EXCEPT ![p].pc = l]

\* The path of an entry below objects/; an anonymous entry has its own.
PathOf(e) == IF ent[e].loc = "anon" THEN e ELSE ent[e].loc
InObjects(e) == ent[e].loc \in Name \cup {"anon"}

\* open(objects/<path>/object.lock) finds the lock file of e.
Opens(path, e) == InObjects(e) /\ PathOf(e) = path /\ ent[e].lock

\* A mutation of Current.
CurrentUnchecked(p, path) == TRUE
\* The comparison of _atomic_open after the lock is granted.
Current(p, path) == Opens(path, proc[p].fd)

Unlocked(e) == [ent EXCEPT ![e].writer = NoProc]

\* The exception err ends the work on the cache: clean up the own entry.
Raise(p, e) == proc' = [proc EXCEPT ![p].pc = "cleanup", ![p].err = e]

-----------------------------------------------------------------------------
(***************************************************************************)
(* store(name)                                                             *)
(***************************************************************************)

\* _atomic_dir: a new directory with a lock file that is write-locked; then
\* mkdir(data).  With an incompatible version the entry goes to the staging
\* area, as it does for a call of stage().
StoreBegin(p, n) ==
    /\ At(p, "idle")
    /\ \E e \in Entry, s \in EntrySize :
        /\ ent[e].loc = "unborn"
        /\ ent' = [ent EXCEPT ![e] = [Unborn EXCEPT
                      !.loc = IF p \in Compatible THEN "anon" ELSE "stage",
                      !.lock = TRUE, !.data = "partial", !.size = s,
                      !.atime = clock, !.writer = p]]
        /\ proc' = [proc EXCEPT ![p] = [Idle EXCEPT
                      !.pc = IF p \in Compatible THEN "fill" ELSE "stage",
                      !.name = n, !.own = e]]
    /\ UNCHANGED <<clock, csize>>

\* The caller fills in the data.
Fill(p) ==
    /\ At(p, "fill")
    /\ ent' = [ent EXCEPT ![proc[p].own].data = "whole"]
    /\ Goto(p, IF MaxSize > -1 /\ ent[proc[p].own].size > MaxSize
               THEN "cleanup" ELSE "account")
    /\ UNCHANGED <<clock, csize>>

\* The copy of store_tree, or another caller, fails and raises.
CopyFails(p) ==
    /\ At(p, "fill")
    /\ Raise(p, "caller")
    /\ UNCHANGED <<ent, clock, csize>>

\* _update_cache_size(info["size"]), before and after an eviction
Account(p) ==
    /\ At(p, "account")
    /\ LET s == ent[proc[p].own].size IN
       \/ /\ SizeAccept(csize, s)
          /\ csize' = SizeApply(csize, s)
          /\ Goto(p, "info")
       \/ /\ ~SizeAccept(csize, s)
          /\ Goto(p, IF proc[p].tried THEN "cleanup" ELSE "list")
          /\ UNCHANGED csize
    /\ UNCHANGED <<ent, clock>>

\* write object.info, or fail to
WriteInfo(p) ==
    /\ At(p, "info")
    /\ \/ /\ ent' = [ent EXCEPT ![proc[p].own].info = TRUE]
          /\ Goto(p, "rename")
       \/ /\ proc' = [proc EXCEPT ![p].pc = "undo", ![p].err = "write"]
          /\ UNCHANGED ent
    /\ UNCHANGED <<clock, csize>>

\* A directory that a rename may replace: it has no files left.
Empty(e) == ~ent[e].lock /\ ~ent[e].info /\ ent[e].data = "none"

\* A mutation of Taken: renames replace whatever is there.
TakenNever(n) == FALSE
Taken(n) == \E e \in Entry : ent[e].loc = n /\ ~Empty(e)

\* rename(objects/<uuid>, objects/<name>); whether it worked or the name was
\* taken, uuidname is None afterwards.
Rename(p) ==
    /\ At(p, "rename")
    /\ LET n == proc[p].name IN
       \/ /\ ~Taken(n)
          /\ ent' = [e \in Entry |-> [ent[e] EXCEPT
                !.loc = IF e = proc[p].own THEN n ELSE IF @ = n THEN "gone" ELSE @]]
       \/ Taken(n) /\ UNCHANGED ent
    /\ proc' = [proc EXCEPT ![p].pc = "undo", ![p].keep = TRUE]
    /\ UNCHANGED <<clock, csize>>

\* if the anonymous directory still exists: unlink the info file ...
Undo(p) ==
    /\ At(p, "undo")
    /\ \/ /\ ent[proc[p].own].loc = "anon"
          /\ ent' = [ent EXCEPT ![proc[p].own].info = FALSE]
          /\ Goto(p, "undoSize")
       \/ /\ ent[proc[p].own].loc # "anon"
          /\ Goto(p, "cleanup")
          /\ UNCHANGED ent
    /\ UNCHANGED <<clock, csize>>

\* A mutation of UndoSize: the entry is not de-accounted.
UndoSizeSkipped(p) ==
    At(p, "undoSize") /\ Goto(p, "cleanup") /\ UNCHANGED <<ent, clock, csize>>
\* ... and de-account it
UndoSize(p) ==
    /\ At(p, "undoSize")
    /\ csize' = SizeApply(csize, -ent[proc[p].own].size)
    /\ Goto(p, "cleanup")
    /\ UNCHANGED <<ent, clock>>

\* _rm_r_object on the own entry unless uuidname is None.  Nobody else reaches
\* it, the steps of the removal are one.  It is a no-op once the entry is renamed.
Cleanup(p) ==
    /\ At(p, "cleanup")
    /\ ent' = IF proc[p].keep \/ ent[proc[p].own].loc # "anon" THEN ent
              ELSE [ent EXCEPT ![proc[p].own] =
                      [@ EXCEPT !.loc = "gone", !.lock = FALSE, !.info = FALSE,
                                !.data = "none"]]
    /\ Goto(p, "unlock")
    /\ UNCHANGED <<clock, csize>>

StoreEnd(p) ==
    /\ At(p, "unlock")
    /\ ent' = Unlocked(proc[p].own)
    /\ proc' = [proc EXCEPT ![p] = [Idle EXCEPT !.err = proc[p].err]]
    /\ UNCHANGED <<clock, csize>>

\* The staging entry is discarded when control returns from the caller.
StageEnd(p) ==
    /\ At(p, "stage")
    /\ ent' = [ent EXCEPT ![proc[p].own] = [Unborn EXCEPT !.loc = "gone"]]
    /\ proc' = [proc EXCEPT ![p] = Idle]
    /\ UNCHANGED <<clock, csize>>

-----------------------------------------------------------------------------
(***************************************************************************)
(* _remove_lru(required_size)                                              *)
(***************************************************************************)

\* _last_used_objs: the paths that have a lock file, with their access times.
\* The list is taken in one step; each element is examined again later.
List(p) ==
    /\ At(p, "list")
    /\ proc' = [proc EXCEPT ![p].pc = "pick", ![p].tried = TRUE, ![p].freed = 0,
          ![p].todo = {[path |-> PathOf(e), last |-> ent[e].atime] :
                          e \in {x \in Entry : InObjects(x) /\ ent[x].lock}}]
    /\ UNCHANGED <<ent, clock, csize>>

\* A mutation of Pick: an entry that is skipped stays in the list.
PickAgain(p) ==
    /\ At(p, "pick")
    /\ \E x \in proc[p].todo :
          proc' = [proc EXCEPT ![p].pc = "evOpen", ![p].path = x.path,
                               ![p].last = x.last]
    /\ UNCHANGED <<ent, clock, csize>>
\* The next element, in the order of the access times; at the end of the list,
\* try to account the new entry again.
Pick(p) ==
    /\ At(p, "pick")
    /\ \/ \E x \in proc[p].todo :
            /\ \A y \in proc[p].todo : x.last <= y.last
            /\ proc' = [proc EXCEPT ![p].pc = "evOpen", ![p].path = x.path,
                          ![p].last = x.last, ![p].todo = @ \ {x}]
       \/ proc[p].todo = {} /\ Goto(p, "account")
    /\ UNCHANGED <<ent, clock, csize>>

\* os.open(lock file): an entry that is gone raises FileNotFoundError, which
\* _remove_lru and store() let through.
EvictOpen(p) ==
    /\ At(p, "evOpen")
    /\ \/ \E e \in Entry :
            /\ Opens(proc[p].path, e)
            /\ proc' = [proc EXCEPT ![p].pc = "evLock", ![p].fd = e]
       \/ /\ \A e \in Entry : ~Opens(proc[p].path, e)
          /\ Raise(p, "ENOENT")
    /\ UNCHANGED <<ent, clock, csize>>

\* A mutation of WriteLockable: readers do not keep the evictor out.
WriteLockableShared(e) == ent[e].writer = NoProc
WriteLockable(e) == ent[e].writer = NoProc /\ ent[e].readers = {}

\* fcntl_flock(fd, F_WRLCK, wait=False): BlockingIOError skips the entry
EvictLock(p) ==
    /\ At(p, "evLock")
    /\ LET e == proc[p].fd IN
       \/ /\ WriteLockable(e)
          /\ ent' = [ent EXCEPT ![e].writer = p]
          /\ Goto(p, "evVerify")
       \/ /\ ~WriteLockable(e)
          /\ proc' = [proc EXCEPT ![p].pc = "pick", ![p].fd = NoEntry]
          /\ UNCHANGED ent
    /\ UNCHANGED <<clock, csize>>

\* _calculate_space; how much there is of incomplete data is unknown.
Space(e) ==
    CASE ent[e].data = "whole"   -> {ent[e].size + Overhead}
      [] ent[e].data = "partial" -> Overhead .. (ent[e].size + Overhead)
      [] ent[e].data = "none"    -> {Overhead}

\* The lock file must still be the one at the path, or it is opened again; the
\* access time must be the one in the list, or the entry is skipped.  Otherwise
\* compute its space.
EvictVerify(p) ==
    /\ At(p, "evVerify")
    /\ LET e == proc[p].fd IN
       \/ /\ ~Current(p, proc[p].path)
          /\ ent' = Unlocked(e)
          /\ proc' = [proc EXCEPT ![p].pc = "evOpen", ![p].fd = NoEntry]
       \/ /\ Current(p, proc[p].path)
          /\ ent[e].atime # proc[p].last
          /\ ent' = Unlocked(e)
          /\ proc' = [proc EXCEPT ![p].pc = "pick", ![p].fd = NoEntry]
       \/ /\ Current(p, proc[p].path)
          /\ ent[e].atime = proc[p].last
          /\ \E s \in Space(e) :
                proc' = [proc EXCEPT ![p].pc = "rmInfo", ![p].space = s]
          /\ UNCHANGED ent
    /\ UNCHANGED <<clock, csize>>

\* _rm_r_object: the info file, the data (in many steps), the lock file
RmInfo(p) ==
    /\ At(p, "rmInfo")
    /\ ent' = [ent EXCEPT ![proc[p].fd].info = FALSE]
    /\ Goto(p, "rmData")
    /\ UNCHANGED <<clock, csize>>

RmData(p) ==
    /\ At(p, "rmData")
    /\ LET e == proc[p].fd IN
       \/ /\ ent[e].data = "whole"
          /\ ent' = [ent EXCEPT ![e].data = "partial"]
          /\ UNCHANGED proc
       \/ /\ ent[e].data # "whole"
          /\ ent' = [ent EXCEPT ![e].data = "none"]
          /\ Goto(p, "rmLock")
    /\ UNCHANGED <<clock, csize>>

RmLock(p) ==
    /\ At(p, "rmLock")
    /\ ent' = [ent EXCEPT ![proc[p].fd].lock = FALSE]
    /\ Goto(p, "rmDir")
    /\ UNCHANGED <<clock, csize>>

\* os.rmdir(path): ENOENT is ignored.  When another entry was renamed to the
\* path meanwhile the call fails with ENOTEMPTY, which nobody catches.
RmDir(p) ==
    /\ At(p, "rmDir")
    /\ \/ \E e \in Entry :
            /\ InObjects(e) /\ PathOf(e) = proc[p].path
            /\ Empty(e)
            /\ ent' = [ent EXCEPT ![e].loc = "gone"]
            /\ Goto(p, "deaccount")
       \/ /\ \A e \in Entry : ~(InObjects(e) /\ PathOf(e) = proc[p].path)
          /\ Goto(p, "deaccount")
          /\ UNCHANGED ent
       \/ /\ \E e \in Entry :
                InObjects(e) /\ PathOf(e) = proc[p].path /\ ~Empty(e)
          /\ ent' = Unlocked(proc[p].fd)
          /\ proc' = [proc EXCEPT ![p].pc = "cleanup", ![p].fd = NoEntry,
                                  ![p].err = "ENOTEMPTY"]
    /\ UNCHANGED <<clock, csize>>

Deaccount(p) ==
    /\ At(p, "deaccount")
    /\ csize' = SizeApply(csize, -proc[p].space)
    /\ proc' = [proc EXCEPT ![p].pc = "evRelease", ![p].freed = @ + proc[p].space]
    /\ UNCHANGED <<ent, clock>>

\* Leave the lock; stop once twice the required size is free.
EvictRelease(p) ==
    /\ At(p, "evRelease")
    /\ ent' = Unlocked(proc[p].fd)
    /\ proc' = [proc EXCEPT ![p].pc = IF proc[p].freed >= 2 * ent[proc[p].own].size
                                    THEN "account" ELSE "pick",
                            ![p].fd = NoEntry]
    /\ UNCHANGED <<clock, csize>>

-----------------------------------------------------------------------------
(***************************************************************************)
(* load(name)                                                              *)
(***************************************************************************)

LoadBegin(p, n) ==
    /\ At(p, "idle")
    /\ proc' = [proc EXCEPT ![p] = [Idle EXCEPT
          !.pc = IF p \in Compatible THEN "ldOpen" ELSE "idle", !.name = n,
          !.err = IF p \in Compatible THEN "none" ELSE "Miss"]]
    /\ UNCHANGED <<ent, clock, csize>>

Miss(p) == proc' = [proc EXCEPT ![p] = [Idle EXCEPT !.err = "Miss"]]

LoadOpen(p) ==
    /\ At(p, "ldOpen")
    /\ \/ \E e \in Entry :
            /\ Opens(proc[p].name, e)
            /\ proc' = [proc EXCEPT ![p].pc = "ldLock", ![p].fd = e]
       \/ (\A e \in Entry : ~Opens(proc[p].name, e)) /\ Miss(p)
    /\ UNCHANGED <<ent, clock, csize>>

\* fcntl_flock(fd, F_RDLCK, wait=False): EAGAIN is a cache miss
LoadLock(p) ==
    /\ At(p, "ldLock")
    /\ LET e == proc[p].fd IN
       \/ /\ ent[e].writer = NoProc
          /\ ent' = [ent EXCEPT ![e].readers = @ \cup {p}]
          /\ Goto(p, "ldVerify")
       \/ /\ ent[e].writer # NoProc
          /\ Miss(p)
          /\ UNCHANGED ent
    /\ UNCHANGED <<clock, csize>>

\* After the comparison, set the access time and yield the path of the data.
LoadVerify(p) ==
    /\ At(p, "ldVerify")
    /\ LET e == proc[p].fd IN
       \/ /\ Current(p, proc[p].name)
          /\ ent' = [ent EXCEPT ![e].atime = clock]
          /\ Goto(p, "using")
       \/ /\ ~Current(p, proc[p].name)
          /\ ent' = [ent EXCEPT ![e].readers = @ \ {p}]
          /\ proc' = [proc EXCEPT ![p].pc = "ldOpen", ![p].fd = NoEntry]
    /\ UNCHANGED <<clock, csize>>

LoadEnd(p) ==
    /\ At(p, "using")
    /\ ent' = [ent EXCEPT ![proc[p].fd].readers = @ \ {p}]
    /\ proc' = [proc EXCEPT ![p] = Idle]
    /\ UNCHANGED <<clock, csize>>

-----------------------------------------------------------------------------
\* The process dies; its locks go, its files stay.
Crash(p) ==
    /\ MayCrash
    /\ ~At(p, "idle")
    /\ ent' = [e \in Entry |-> [ent[e] EXCEPT
                  !.writer = IF @ = p THEN NoProc ELSE @,
                  !.readers = @ \ {p}]]
    /\ proc' = [proc EXCEPT ![p] = Idle]
    /\ UNCHANGED <<clock, csize>>

Tick == clock < MaxClock /\ clock' = clock + 1 /\ UNCHANGED <<ent, csize, proc>>

StoreStep(p) ==
    \/ Fill(p) \/ CopyFails(p) \/ Account(p) \/ WriteInfo(p) \/ Rename(p) \/ Undo(p)
    \/ UndoSize(p) \/ Cleanup(p) \/ StoreEnd(p) \/ StageEnd(p)
EvictStep(p) ==
    \/ List(p) \/ Pick(p) \/ EvictOpen(p) \/ EvictLock(p) \/ EvictVerify(p)
    \/ RmInfo(p) \/ RmData(p) \/ RmLock(p) \/ RmDir(p) \/ Deaccount(p)
    \/ EvictRelease(p)
LoadStep(p) == LoadOpen(p) \/ LoadLock(p) \/ LoadVerify(p) \/ LoadEnd(p)
Step(p) == StoreStep(p) \/ EvictStep(p) \/ LoadStep(p)

Next ==
    \/ \E p \in Proc :
        \/ \E n \in Name : StoreBegin(p, n) \/ LoadBegin(p, n)
        \/ Step(p)
        \/ Crash(p)
    \/ Tick

Spec == Init /\ [][Next]_vars

\* Callers that never store the same name twice: neither one that is in the cache
\* nor one that another call of store() is about to commit.
Fresh(n) ==
    /\ \A e \in Entry : ent[e].loc # n
    /\ \A p \in Proc : proc[p].own # NoEntry => proc[p].name # n
DistinctNext ==
    /\ Next
    /\ \A p \in Proc : At(p, "idle") /\ proc'[p].own # NoEntry => Fresh(proc'[p].name)
DistinctSpec == Init /\ [][DistinctNext]_vars

\* No step of a call waits for another process (locks are tried, never waited
\* for): a process that is alive gets on with its call.
Fairness == \A p \in Proc : WF_vars(Step(p))

-----------------------------------------------------------------------------
(***************************************************************************)
(* Properties                                                              *)
(***************************************************************************)
Locations == Name \cup {"unborn", "anon", "stage", "gone"}
Paths == Name \cup Entry \cup {""}
Labels ==
    {"idle", "fill", "account", "info", "rename", "undo", "undoSize", "cleanup",
     "unlock", "stage", "list", "pick", "evOpen", "evLock", "evVerify", "rmInfo",
     "rmData", "rmLock", "rmDir", "deaccount", "evRelease", "ldOpen", "ldLock",
     "ldVerify", "using"}
Errors == {"none", "caller", "write", "ENOENT", "ENOTEMPTY", "Miss"}

Entries ==
    [loc : Locations, lock : BOOLEAN, info : BOOLEAN,
     data : {"none", "partial", "whole"}, size : Nat, atime : Nat,
     writer : Proc \cup {NoProc}, readers : SUBSET Proc]
Locals ==
    [pc : Labels, name : Name \cup {""}, own : Entry \cup {NoEntry},
     fd : Entry \cup {NoEntry}, todo : SUBSET [path : Paths, last : Nat],
     path : Paths, last : Nat, space : Nat, freed : Nat,
     tried : BOOLEAN, keep : BOOLEAN, err : Errors]

\* Types of the variables of the model of FsCache.
TypeOK ==
    /\ ent \in [Entry -> Entries]
    /\ clock \in 0..MaxClock
    /\ csize \in Nat
    /\ proc \in [Proc -> Locals]

Using(p, e) == At(p, "using") /\ proc[p].fd = e

\* While load() has control in its caller, the entry is what it was: it stays
\* at its name with its lock file, nobody holds the write lock, and none of its
\* files changes, whatever evictions, stores and crashes go on.
ReadersUndisturbed ==
    /\ \A p \in Proc, e \in Entry : Using(p, e) =>
          /\ ent[e].loc = proc[p].name /\ ent[e].lock
          /\ ent[e].writer = NoProc
    /\ \A e \in Entry : (\E p \in Proc : Using(p, e)) =>
          \A q \in Proc : proc[q].fd = e =>
              proc[q].pc \notin {"rmInfo", "rmData", "rmLock", "rmDir"}

\* A name is never taken from an entry that still has files: an entry leaves its
\* name only after an eviction removed its lock file, info file and data, though
\* store() commits with a plain rename.
NameNotStolen ==
    [][\A e \in Entry :
          ent[e].loc \in Name /\ ent'[e].loc # ent[e].loc => Empty(e)]_vars

\* What load() hands out is the complete content that store() was given.
LoadsWhole ==
    \A p \in Proc, e \in Entry : Using(p, e) => ent[e].data = "whole"

\* The sum of f[x] for all x in S.
Total(f, S) == MapThenSumSet(LAMBDA x : f[x], S)

\* The space that cache.size has to stand for: entries at their names, in the
\* measure of store(), until _remove_lru has removed the last of their files.
Stored(e) == IF ent[e].loc \in Name /\ ent[e].lock THEN ent[e].size ELSE 0
StoredSize == Total([e \in Entry |-> Stored(e)], Entry)

\* cache.size is never smaller than what is stored, so that the limit on it is
\* a limit on the cache: "it is never overcommitted" (store()).
NeverOvercommitted == StoredSize <= csize

\* The size that a call in progress has accounted for and not committed, or
\* removed from its name and not yet de-accounted.
Reserved(p) ==
    \/ proc[p].pc \in {"info", "rename", "undoSize"}
    \/ At(p, "undo") /\ ent[proc[p].own].loc = "anon"
Removed(p) == proc[p].pc \in {"rmDir", "deaccount"} /\ proc[p].path \in Name
Share(p) ==
    IF Reserved(p) THEN ent[proc[p].own].size
    ELSE IF Removed(p) THEN ent[proc[p].fd].size ELSE 0
InFlight == Total([p \in Proc |-> Share(p)], Proc)

\* What cache.size has too much; less than zero when it has too little.
Balance == csize - (StoredSize + InFlight)

\* What the eviction in progress takes off too much: store() counts the data only,
\* _remove_lru the directory and the metadata too; and it finds directories that
\* store() forgot under their anonymous names after it had de-accounted them.
Excess(p) == IF proc[p].path \in Name THEN Overhead ELSE proc[p].space

\* The number in cache.size stays within the limit.
Limited == MaxSize >= 0 => csize <= MaxSize

\* The accounting of store() and eviction, over all interleavings, failures and
\* crashes: cache.size stays within the limit, and no step changes how far it is
\* from what there is, but these.  An eviction takes off too much, by Excess at
\* most.  A crash between an update of cache.size and the one of the files, and an
\* rmdir that raises, leave it too large; so does a subtraction that is capped at 0.
BooksKept ==
    /\ [](TypeOK /\ Limited)
    /\ [][\/ Balance' = Balance
          \/ Balance' > Balance /\ \E p \in Proc :
                \/ Crash(p)
                \/ RmDir(p) /\ proc'[p].err = "ENOTEMPTY"
                \/ UndoSize(p) /\ csize' = 0
          \/ \E p \in Proc : Deaccount(p) /\ Balance' >= Balance - Excess(p)]_vars

\* When a call of store() is over, its anonymous directory is gone: "If the
\* anonymous entry still exists, it will be cleaned up by the outer handler."
NoAnonymousLeft ==
    \A e \in Entry :
        ent[e].loc = "anon" => \E p \in Proc : proc[p].own = e

\* Entries that vanish while _remove_lru walks its list do not make store()
\* fail: "This is racy so we need to take care of that in step(2)."
EvictionToleratesVanished == \A p \in Proc : proc[p].err # "ENOENT"

\* Every call of store(), load() and stage() ends: the retries of _atomic_open
\* and the walk of the list cannot go on for ever.
CallsEnd == \A p \in Proc : ~At(p, "idle") ~> At(p, "idle")
=============================================================================
