----------------------------- MODULE CacheSetup -----------------------------
(***************************************************************************)
(* How a process enters and leaves a cache of osbuild/util/fscache.py: the *)
(* scaffolding that several processes may create at once, the information  *)
(* that an instance reads from cache.info and keeps, and the updates of it *)
(* by the setter of FsCache.info.  A process may die anywhere.             *)
(*                                                                         *)
(* Each scaffolding file is written under a name of its own, linked to its *)
(* final name unless that exists, and unlinked.  The update of cache.info  *)
(* is one step on the file here: LockedReplace implements that.            *)
(***************************************************************************)
EXTENDS Integers, Sequences, FiniteSets

CONSTANTS
    Proc,          \* processes that use the cache
    OldCaches,     \* contents of cache.info that earlier users left
    Updates,       \* values of FsCacheInfo that are assigned to FsCache.info
    MaxDeaths      \* bound on the processes that die

(***************************************************************************)
(* A parsed cache.info is "other" than a JSON object or has the fields     *)
(* creation-boot-id, maximum-size and version, unset or of any type, and   *)
(* possibly fields of a later implementation.                              *)
(***************************************************************************)
Fields == {"boot", "max", "version"}
Known == [boot |-> {"id"}, max |-> {"unlimited", "bytes"},
          version |-> {"1", "2"}]

Raw(json, boot, max, version, future) ==
    [json |-> json, boot |-> boot, max |-> max, version |-> version,
     future |-> future]
Tuple(boot, max, version) == [boot |-> boot, max |-> max, version |-> version]
NoInfo == Tuple("unset", "unset", "unset")

\* What may be in the file, and in an instance.
Value == {"unset", "junk"} \cup UNION {Known[f] : f \in Fields}
RawInfo == [json : {"object", "other"}, boot : Value, max : Value, version : Value,
            future : {"unset", "set"}]
FsCacheInfo == [boot : Known.boot \cup {"unset"}, max : Known.max \cup {"unset"},
                version : Known.version \cup {"unset"}]

ASSUME SetupAssumption ==
    MaxDeaths \in Nat /\ OldCaches \subseteq RawInfo /\ Updates \subseteq FsCacheInfo

\* FsCacheInfo.from_json: what is not a JSON object, and what has an unexpected
\* type, counts as unset.
FromJson(raw) ==
    [f \in Fields |->
        IF raw.json = "object" /\ raw[f] \in Known[f] THEN raw[f] ELSE "unset"]

\* info_raw.update(info.to_json()): unset values are skipped.
Merged(raw, info) ==
    [f \in DOMAIN raw |->
        IF f \in Fields /\ info[f] # "unset" THEN info[f] ELSE raw[f]]

\* FsCache._is_compatible; the version of this implementation is 1.
Compatible(info) == info.version = "1"

\* _info_maximum_size, -1 for "unlimited" and some number of bytes.
MaximumSize(info) ==
    CASE info.max = "unlimited" -> -1 [] info.max = "bytes" -> 2
      [] info.max = "unset" -> 0 [] OTHER -> -2   \* ValueError

-----------------------------------------------------------------------------
\* The files of _create_scaffolding in the order it makes them.
ScaffoldFiles == <<"CACHEDIR.TAG", "cache.info", "cache.lock", "cache.size">>
Dirs == <<"objects", "stage">>
FileSet == {ScaffoldFiles[i] : i \in DOMAIN ScaffoldFiles}

\* A file: whether it is there, all of it, and what cache.info says.
Missing == [there |-> FALSE, whole |-> FALSE,
            raw |-> Raw("object", "unset", "unset", "1", "unset")]
Fresh == [Missing EXCEPT !.there = TRUE, !.whole = TRUE]
Started == [Missing EXCEPT !.there = TRUE]
File == [there : BOOLEAN, whole : BOOLEAN, raw : RawInfo]

VARIABLES
    dirs,      \* directories that exist
    file,      \* the files at their final names
    inst,      \* per process: its FsCache instance and where it is
    strays,    \* temporary files of processes that died
    deaths,
    seen       \* per process: what cache.info said since it came (history)

vars == <<dirs, file, inst, strays, deaths, seen>>

\* FsCache.__init__: an instance outside of its context manager
Outside == [pc |-> "out", step |-> 1, tmp |-> Missing, locked |-> FALSE,
            active |-> FALSE, info |-> NoInfo, maximum |-> 0]
Instance == [pc : {"out", "dirs", "create", "write", "link", "unlink", "open", "load",
                   "in", "exit"},
             step : DOMAIN ScaffoldFiles, tmp : File, locked : BOOLEAN,
             active : BOOLEAN, info : FsCacheInfo, maximum : {-1, 0, 2}]

\* No cache, or one that earlier processes completed and configured.
Init ==
    /\ \/ dirs = {} /\ file = [f \in FileSet |-> Missing]
       \/ /\ dirs = {"objects", "stage"}
          /\ \E raw \in OldCaches :
                file = [f \in FileSet |-> IF f = "cache.info"
                            THEN [Fresh EXCEPT !.raw = raw] ELSE Fresh]
    /\ inst = [p \in Proc |-> Outside]
    /\ strays = 0 /\ deaths = 0
    /\ seen = [p \in Proc |-> {}]

At(p, l) == inst[p].pc = l
Goto(p, l) == inst' = [inst EXCEPT ![p].pc = l]
This(p) == ScaffoldFiles[inst[p].step]
Info == file["cache.info"]

\* The history of cache.info goes on for the processes inside.
Note(raw) ==
    seen' = [q \in Proc |-> IF At(q, "out") THEN {} ELSE seen[q] \cup {raw}]

-----------------------------------------------------------------------------
(***************************************************************************)
(* __enter__                                                               *)
(***************************************************************************)
Enter(p) ==
    /\ At(p, "out")
    /\ inst' = [inst EXCEPT ![p] = [Outside EXCEPT !.pc = "dirs"]]
    /\ seen' = [seen EXCEPT ![p] = IF Info.there THEN {Info.raw} ELSE {}]
    /\ UNCHANGED <<dirs, file, strays, deaths>>

\* os.makedirs(exist_ok=True) of objects and of stage
MakeDir(p) ==
    /\ At(p, "dirs")
    /\ dirs' = dirs \cup {Dirs[inst[p].step]}
    /\ inst' = [inst EXCEPT ![p].pc = IF inst[p].step = 2 THEN "create" ELSE @,
                            ![p].step = IF @ = 2 THEN 1 ELSE 2]
    /\ UNCHANGED <<file, strays, deaths, seen>>

\* A mutation of CreateTmp: the file is linked before it is filled.
CreateTmpLinked(p) ==
    /\ At(p, "create")
    /\ inst' = [inst EXCEPT ![p].pc = "link", ![p].tmp = Started]
    /\ UNCHANGED <<dirs, file, strays, deaths, seen>>
\* _atomic_file: a new file under a name of its own in objects/ ...
CreateTmp(p) ==
    /\ At(p, "create")
    /\ inst' = [inst EXCEPT ![p].pc = "write", ![p].tmp = Started]
    /\ UNCHANGED <<dirs, file, strays, deaths, seen>>

\* ... filled by _create_scaffolding and closed ...
WriteTmp(p) ==
    /\ At(p, "write")
    /\ inst' = [inst EXCEPT ![p].pc = "link", ![p].tmp = Fresh]
    /\ UNCHANGED <<dirs, file, strays, deaths, seen>>

\* A mutation of Link: the file replaces the one that is there.
LinkReplaces(p) ==
    /\ At(p, "link")
    /\ file' = [file EXCEPT ![This(p)] = inst[p].tmp]
    /\ IF This(p) = "cache.info" THEN Note(inst[p].tmp.raw) ELSE UNCHANGED seen
    /\ Goto(p, "unlink")
    /\ UNCHANGED <<dirs, strays, deaths>>
\* ... linked to its final name, where EEXIST is ignored ...
Link(p) ==
    /\ At(p, "link")
    /\ \/ /\ ~file[This(p)].there
          /\ file' = [file EXCEPT ![This(p)] = inst[p].tmp]
          /\ IF This(p) = "cache.info" THEN Note(inst[p].tmp.raw)
             ELSE UNCHANGED seen
       \/ file[This(p)].there /\ UNCHANGED <<file, seen>>
    /\ Goto(p, "unlink")
    /\ UNCHANGED <<dirs, strays, deaths>>

\* ... and unlinked; then the next file.
Unlink(p) ==
    /\ At(p, "unlink")
    /\ inst' = [inst EXCEPT
          ![p].pc = IF inst[p].step = Len(ScaffoldFiles) THEN "open" ELSE "create",
          ![p].step = IF @ = Len(ScaffoldFiles) THEN 1 ELSE @ + 1,
          ![p].tmp = Missing]
    /\ UNCHANGED <<dirs, file, strays, deaths, seen>>

\* A write or a link fails (a full disk): the temporary file is unlinked and
\* __enter__ calls __exit__ and raises.
SetupFails(p) ==
    /\ inst[p].pc \in {"write", "link"}
    /\ inst' = [inst EXCEPT ![p].pc = "exit", ![p].tmp = Missing]
    /\ UNCHANGED <<dirs, file, strays, deaths, seen>>

\* The shared lock of cache.lock, which nobody ever takes for writing.
LockShared(p) ==
    /\ At(p, "open")
    /\ file["cache.lock"].there
    /\ inst' = [inst EXCEPT ![p].pc = "load", ![p].locked = TRUE]
    /\ UNCHANGED <<dirs, file, strays, deaths, seen>>

\* _load_cache_info(info): retain it and its maximum size
Loaded(p, info) ==
    inst' = [inst EXCEPT ![p].pc = "in", ![p].active = TRUE, ![p].info = info,
                         ![p].maximum = MaximumSize(info)]

\* _load_cache_info(): parse the file
Load(p) ==
    /\ At(p, "load")
    /\ Info.there /\ Info.whole
    /\ Loaded(p, FromJson(Info.raw))
    /\ UNCHANGED <<dirs, file, strays, deaths, seen>>

-----------------------------------------------------------------------------
(***************************************************************************)
(* The setter of FsCache.info                                              *)
(***************************************************************************)
\* Under the lock of the file, an object that is on disk is updated with the
\* fields that are set, and written when the instance is compatible with the
\* version it loaded before; what is on disk in another format is left alone and
\* the instance takes the tuple of the caller.
SetInfo(p, info) ==
    /\ At(p, "in")
    /\ \/ /\ Info.raw.json = "object"
          /\ LET new == Merged(Info.raw, info) IN
             /\ IF Compatible(inst[p].info)
                THEN file' = [file EXCEPT !["cache.info"].raw = new] /\ Note(new)
                ELSE UNCHANGED <<file, seen>>
             /\ Loaded(p, FromJson(new))
       \/ /\ Info.raw.json # "object"
          /\ Loaded(p, info)
          /\ UNCHANGED <<file, seen>>
    /\ UNCHANGED <<dirs, strays, deaths>>

Leave(p) == At(p, "in") /\ Goto(p, "exit")
            /\ UNCHANGED <<dirs, file, strays, deaths, seen>>

\* __exit__: leave the scaffolding, drop everything else.  The code keeps the
\* maximum size, which _load_cache_info sets again before anyone reads it.
Exit(p) ==
    /\ At(p, "exit")
    /\ inst' = [inst EXCEPT ![p] = Outside]
    /\ seen' = [seen EXCEPT ![p] = {}]
    /\ UNCHANGED <<dirs, file, strays, deaths>>

\* The process dies; a temporary file it has stays in objects/.
Die(p) ==
    /\ ~At(p, "out") /\ deaths < MaxDeaths
    /\ deaths' = deaths + 1
    /\ strays' = strays + (IF inst[p].tmp.there THEN 1 ELSE 0)
    /\ inst' = [inst EXCEPT ![p] = Outside]
    /\ seen' = [seen EXCEPT ![p] = {}]
    /\ UNCHANGED <<dirs, file>>

Step(p) ==
    \/ MakeDir(p) \/ CreateTmp(p) \/ WriteTmp(p) \/ Link(p) \/ Unlink(p)
    \/ LockShared(p) \/ Load(p) \/ Exit(p)
Next == \E p \in Proc :
    \/ Enter(p) \/ Step(p) \/ SetupFails(p) \/ Leave(p) \/ Die(p)
    \/ \E info \in Updates : SetInfo(p, info)

Spec == Init /\ [][Next]_vars

-----------------------------------------------------------------------------
(***************************************************************************)
(* Properties                                                              *)
(***************************************************************************)

\* Types of the variables of this model of FsCache.__enter__ and its helpers.
TypeOK ==
    /\ dirs \subseteq {"objects", "stage"}
    /\ file \in [FileSet -> File]
    /\ inst \in [Proc -> Instance]
    /\ seen \in [Proc -> SUBSET RawInfo]
    /\ deaths \in 0..MaxDeaths /\ strays \in 0..deaths

\* Whoever is inside has a complete cache: both directories, and each file of
\* the scaffolding with all of its content, no matter who created it, who died
\* on the way and whose link of _create_scaffolding came second.
InsideIsComplete ==
    /\ \A p \in Proc : inst[p].active =>
          dirs = {"objects", "stage"} /\ \A f \in FileSet : file[f].there
    /\ \A f \in FileSet : file[f].there => file[f].whole

\* "This ensures that an existing cache is not interrupted or rewritten": what is
\* at a final name stays, and only a process that is inside and assigns to
\* FsCache.info changes cache.info.
LiveCacheKept ==
    [][\A f \in FileSet : file[f].there /\ file'[f] # file[f] =>
          /\ f = "cache.info" /\ file'[f].there
          /\ \E p \in Proc : inst[p].active /\ inst'[p].active
                /\ inst'[p].info = FromJson(file'[f].raw)]_vars

\* A cache that this implementation may not write to.
Foreign(raw) == raw.json # "object" \/ raw.version # "1"

\* What an instance works with is what the file said at some moment since it
\* entered, field by field: the setter re-reads the file and loses no update of
\* another process.  An instance that may not write (any more) is on its own.
InfoWasOnDisk ==
    \A p \in Proc : inst[p].active =>
        \/ \E raw \in seen[p] : inst[p].info = FromJson(raw)
        \/ ~Compatible(inst[p].info) /\ \E raw \in seen[p] : Foreign(raw)

\* "Future extensions are left alone": a cache whose cache.info is in another
\* format or of another version for as long as a process is inside is not
\* written to by that process, fields of later versions never change.
FutureLeftAlone ==
    [][/\ file["cache.info"].there =>
             file'["cache.info"].raw.future = file["cache.info"].raw.future
       /\ \A p \in Proc :
             (/\ At(p, "in") /\ inst'[p] # inst[p]
              /\ \A raw \in seen[p] : Foreign(raw))
             => file' = file]_vars

\* What FsCache.__enter__ promises to whoever is inside, until __exit__.
InsideIsRight == TypeOK /\ InsideIsComplete /\ InfoWasOnDisk

\* What it promises to everybody else: neither a live cache nor what a later
\* version put there is rewritten.
OthersUndisturbed == LiveCacheKept /\ FutureLeftAlone
=============================================================================
