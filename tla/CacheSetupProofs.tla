-------------------------- MODULE CacheSetupProofs --------------------------
(***************************************************************************)
(* Proofs about CacheSetup, for any processes, any earlier cache.info and  *)
(* any number of deaths: what a process inside a cache may rely on, and    *)
(* what those around it may.                                               *)
(***************************************************************************)
EXTENDS CacheSetup, TLAPS

\* No one assigns the version of this implementation: ObjectStore.maximum_size, the one
\* place that assigns, leaves it unset (objectstore.py:362).  An instance that has found
\* another version would take itself for compatible again otherwise.
NoDowngrade == \A info \in Updates : ~Compatible(info)

\* The first n files of the scaffolding are there.
Made(n) == \A i \in DOMAIN ScaffoldFiles : i <= n => file[ScaffoldFiles[i]].there
Complete == dirs = {"objects", "stage"} /\ Made(4)

\* How far a process has come, and what there is already because of that.
Entering(r) ==
    /\ r.pc = "dirs" => r.step \in {1, 2} /\ (r.step = 2 => "objects" \in dirs)
    /\ r.pc \in {"create", "write", "link", "unlink"} =>
          dirs = {"objects", "stage"} /\ Made(r.step - 1)
    /\ r.pc = "link" => r.tmp = Fresh
    /\ r.pc = "unlink" => Made(r.step)
    /\ r.pc \in {"open", "load", "in"} \/ r.active => Complete
    /\ r.pc = "in" => r.active
    /\ r.active => r.pc \in {"in", "exit"}

\* What a process knows of cache.info: it has seen what is there now, works with what it
\* has seen, and if that had another version, there still is another version.
Knowing(r, saw) ==
    /\ r.pc # "out" /\ Info.there => Info.raw \in saw
    /\ r.active =>
          \/ \E raw \in saw : r.info = FromJson(raw)
          \/ ~Compatible(r.info) /\ \E raw \in saw : Foreign(raw)
    /\ r.active /\ ~Compatible(r.info) => Foreign(Info.raw)

Whole == \A f \in FileSet : file[f].there => file[f].whole
SInv ==
    /\ TypeOK /\ Whole
    /\ \A p \in Proc : Entering(inst[p]) /\ Knowing(inst[p], seen[p])

-----------------------------------------------------------------------------
(***************************************************************************)
(* The data: cache.info, and the scaffolding.                              *)
(***************************************************************************)
LEMMA Scaffold ==
    /\ DOMAIN ScaffoldFiles = 1..4 /\ Len(ScaffoldFiles) = 4
    /\ \A i \in 1..4 : ScaffoldFiles[i] \in FileSet
    /\ \A f \in FileSet : \E i \in 1..4 : f = ScaffoldFiles[i]
    /\ "cache.info" \in FileSet /\ "cache.lock" \in FileSet
<1>1. DOMAIN ScaffoldFiles = 1..4 /\ Len(ScaffoldFiles) = 4
  BY DEF ScaffoldFiles
<1>2. ScaffoldFiles[2] = "cache.info" /\ ScaffoldFiles[3] = "cache.lock"
  BY DEF ScaffoldFiles
<1>3. 2 \in 1..4 /\ 3 \in 1..4
  OBVIOUS
<1> HIDE DEF ScaffoldFiles
<1> QED
  BY <1>1, <1>2, <1>3 DEF FileSet

LEMMA Values ==
    /\ Value = {"unset", "junk", "id", "unlimited", "bytes", "1", "2"}
    /\ FsCacheInfo = [boot : {"unset", "id"}, max : {"unset", "unlimited", "bytes"},
                      version : {"unset", "1", "2"}]
<1>1. /\ Known.boot = {"id"} /\ Known.max = {"unlimited", "bytes"}
      /\ Known.version = {"1", "2"}
  BY DEF Known
<1>2. \A f \in Fields : Known[f] = IF f = "boot" THEN Known.boot
                                   ELSE IF f = "max" THEN Known.max ELSE Known.version
  BY DEF Fields
<1>3. UNION {Known[f] : f \in Fields} = Known.boot \cup Known.max \cup Known.version
  BY <1>2 DEF Fields
<1> QED
  BY <1>1, <1>3 DEF Value, FsCacheInfo

\* from_json gives an FsCacheInfo, and knows the version of an object only.
LEMMA Parsed ==
  ASSUME NEW raw \in RawInfo
  PROVE  /\ FromJson(raw) \in FsCacheInfo
         /\ Compatible(FromJson(raw)) <=> ~Foreign(raw)
<1>1. FromJson(raw) \in [Fields -> Value]
  BY Values DEF FromJson, RawInfo, Fields
<1>2. FromJson(raw).boot \in {"unset", "id"}
  BY DEF FromJson, Known, Fields
<1>3. FromJson(raw).max \in {"unset", "unlimited", "bytes"}
  BY DEF FromJson, Known, Fields
<1>4. FromJson(raw).version \in {"unset", "1", "2"}
  BY DEF FromJson, Known, Fields
<1>5. FromJson(raw).version = "1" <=> raw.json = "object" /\ raw.version = "1"
  BY DEF FromJson, RawInfo, Known, Fields
<1>6. FromJson(raw) \in FsCacheInfo
  BY <1>1, <1>2, <1>3, <1>4, Values DEF Fields
<1> QED
  BY <1>5, <1>6 DEF Compatible, Foreign

\* An update changes the known fields, and the version only to one that is assigned.
LEMMA Merging ==
  ASSUME NEW raw \in RawInfo, NEW info \in FsCacheInfo
  PROVE  /\ Merged(raw, info) \in RawInfo
         /\ Merged(raw, info).json = raw.json /\ Merged(raw, info).future = raw.future
         /\ Merged(raw, info).version \in {raw.version, info.version}
<1>1. DOMAIN raw = {"json", "boot", "max", "version", "future"}
  BY DEF RawInfo
<1>2. /\ DOMAIN Merged(raw, info) = {"json", "boot", "max", "version", "future"}
      /\ Merged(raw, info) = [f \in DOMAIN Merged(raw, info) |-> Merged(raw, info)[f]]
  BY <1>1 DEF Merged
<1>3. /\ Merged(raw, info).json = raw.json /\ Merged(raw, info).future = raw.future
      /\ Merged(raw, info).version \in {raw.version, info.version}
  BY <1>1 DEF Merged, Fields
<1>4. /\ Merged(raw, info).boot \in Value /\ Merged(raw, info).max \in Value
      /\ Merged(raw, info).version \in Value
  BY <1>1, Values DEF Merged, Fields, RawInfo
<1> HIDE DEF Merged
<1> QED
  BY <1>2, <1>3, <1>4 DEF RawInfo

LEMMA Limits == \A info \in FsCacheInfo : MaximumSize(info) \in {-1, 0, 2}
  BY Values DEF MaximumSize

LEMMA Blanks ==
    /\ Missing \in File /\ Fresh \in File /\ Started \in File
    /\ ~Missing.there /\ Fresh.there /\ Fresh.whole /\ Started.there /\ ~Started.whole
    /\ Outside \in Instance /\ Outside.pc = "out" /\ ~Outside.active /\ Outside.step = 1
<1> DEFINE none == Raw("object", "unset", "unset", "1", "unset")
<1>1. none \in RawInfo
  BY Values DEF Raw, RawInfo
<1> HIDE DEF none
<1>2. Missing \in File /\ ~Missing.there
  BY <1>1 DEF Missing, File, none
<1>3. /\ Fresh \in File /\ Started \in File
      /\ Fresh.there /\ Fresh.whole /\ Started.there /\ ~Started.whole
  <2>1. ~Missing.whole
    BY DEF Missing
  <2> QED
    BY <1>2, <2>1 DEF Fresh, Started, File
<1>4. NoInfo \in FsCacheInfo
  BY Values DEF NoInfo, Tuple
<1>5. Outside \in Instance
  BY <1>2, <1>4, Scaffold DEF Outside, Instance
<1> QED
  BY <1>2, <1>3, <1>5 DEF Outside

-----------------------------------------------------------------------------
(***************************************************************************)
(* What a step of one process means for the others.                        *)
(***************************************************************************)
LEMMA CompleteHas == Complete => \A f \in FileSet : file[f].there
  BY Scaffold DEF Complete, Made

\* Directories and files only come, and what others have seen goes on.
Grows ==
    /\ dirs \subseteq dirs' /\ dirs' \subseteq {"objects", "stage"}
    /\ \A f \in FileSet : file[f].there => file'[f].there
    /\ Info.there /\ Foreign(Info.raw) => Foreign(Info.raw)'

LEMMA EnteringKept ==
  ASSUME TypeOK, Grows, NEW r, Entering(r)
  PROVE  (dirs \subseteq dirs' /\ \A n : Made(n) => Made(n)') /\ Entering(r)'
<1>1. \A n : Made(n) => Made(n)'
  BY Scaffold DEF Grows, Made
<1>2. dirs = {"objects", "stage"} => dirs' = {"objects", "stage"}
  BY DEF Grows
<1>3. Complete => Complete'
  BY <1>1, <1>2 DEF Complete
<1>4. dirs \subseteq dirs'
  BY DEF Grows
<1> QED
  BY <1>1, <1>2, <1>3, <1>4 DEF Entering

LEMMA OthersKept ==
  ASSUME SInv, Grows, NEW q \in Proc, inst'[q] = inst[q],
         \/ seen'[q] = seen[q] /\ Info' = Info
         \/ inst[q].pc # "out" => seen'[q] = seen[q] \cup {Info.raw'}
  PROVE  Entering(inst[q])' /\ Knowing(inst[q], seen[q])'
<1>1. Entering(inst[q]) /\ Knowing(inst[q], seen[q]) /\ TypeOK
  BY DEF SInv
<1>2. Entering(inst[q])'
  <2> DEFINE r == inst[q]
  <2>1. Entering(r)'
    BY <1>1, EnteringKept DEF Entering, Made, Complete, Grows
  <2> QED
    BY <2>1
<1>3. inst[q].active => Info.there
  BY <1>1, CompleteHas, Scaffold DEF Entering, Info
<1>4. inst[q].active => inst[q].pc # "out"
  BY <1>1 DEF Entering
<1>5. Knowing(inst[q], seen[q])'
  BY <1>1, <1>3, <1>4 DEF Knowing, Grows
<1> QED
  BY <1>2, <1>5

LEMMA Updated ==
  ASSUME TypeOK, NEW p \in Proc, NEW r, r \in Instance, inst' = [inst EXCEPT ![p] = r]
  PROVE  /\ inst' \in [Proc -> Instance] /\ inst'[p] = r
         /\ \A q \in Proc \ {p} : inst'[q] = inst[q]
  BY DEF TypeOK

\* A step that leaves the cache as it is.
LEMMA StepsAside ==
  ASSUME SInv, NEW p \in Proc, NEW r, r \in Instance, inst' = [inst EXCEPT ![p] = r],
         NEW saw \in SUBSET RawInfo, seen' = [seen EXCEPT ![p] = saw],
         dirs' = dirs, file' = file, deaths' \in 0..MaxDeaths, strays' \in 0..deaths',
         Entering(r), Knowing(r, saw)
  PROVE  SInv'
<1>1. /\ inst' \in [Proc -> Instance] /\ inst'[p] = r
      /\ \A q \in Proc \ {p} : inst'[q] = inst[q]
  BY Updated DEF SInv
<1>2. /\ seen' \in [Proc -> SUBSET RawInfo] /\ seen'[p] = saw
      /\ \A q \in Proc \ {p} : seen'[q] = seen[q]
  BY DEF SInv, TypeOK
<1>3. TypeOK'
  BY <1>1, <1>2 DEF SInv, TypeOK
<1>4. Whole'
  BY DEF SInv, Whole
<1>5. Info' = Info /\ Grows
  BY DEF Info, Grows, SInv, TypeOK
<1>6. ASSUME NEW q \in Proc \ {p} PROVE Entering(inst[q])' /\ Knowing(inst[q], seen[q])'
  BY <1>1, <1>2, <1>5, OthersKept
<1>7. Entering(inst[p])'
  <2>1. Entering(r)'
    BY <1>5, EnteringKept DEF SInv, Entering, Made, Complete
  <2> QED
    BY <1>1, <2>1 DEF Entering, Made, Complete
<1>8. Knowing(inst[p], seen[p])'
  BY <1>1, <1>2, <1>5 DEF Knowing
<1> QED
  BY <1>3, <1>4, <1>6, <1>7, <1>8 DEF SInv

-----------------------------------------------------------------------------
(***************************************************************************)
(* The invariant holds at first, and every step keeps it.                  *)
(***************************************************************************)
LEMMA Begins == Init => SInv
<1> SUFFICES ASSUME Init PROVE SInv
  OBVIOUS
<1>1. inst \in [Proc -> Instance] /\ seen \in [Proc -> SUBSET RawInfo]
  BY Blanks DEF Init
<1>2. deaths \in 0..MaxDeaths /\ strays \in 0..deaths
  BY SetupAssumption DEF Init
<1>3. dirs \subseteq {"objects", "stage"}
  BY DEF Init
<1>4. /\ file \in [FileSet -> File]
      /\ \A f \in FileSet : file[f].there => file[f].whole
  <2>1. CASE file = [f \in FileSet |-> Missing]
    BY <2>1, Blanks
  <2>2. ASSUME NEW raw \in OldCaches,
               file = [f \in FileSet |-> IF f = "cache.info"
                          THEN [Fresh EXCEPT !.raw = raw] ELSE Fresh]
        PROVE  file \in [FileSet -> File] /\ \A f \in FileSet : file[f].whole
    <3>1. raw \in RawInfo
      BY SetupAssumption
    <3>2. [Fresh EXCEPT !.raw = raw] \in File /\ [Fresh EXCEPT !.raw = raw].whole
      BY <3>1, Blanks DEF File
    <3> HIDE DEF Fresh
    <3> QED
      BY <2>2, <3>2, Blanks
  <2> QED
    BY <2>1, <2>2 DEF Init
<1>5. ASSUME NEW p \in Proc PROVE Entering(inst[p]) /\ Knowing(inst[p], seen[p])
  <2>1. inst[p].pc = "out" /\ ~inst[p].active
    BY Blanks DEF Init
  <2> QED
    BY <2>1 DEF Entering, Knowing
<1> QED
  BY <1>1, <1>2, <1>3, <1>4, <1>5 DEF SInv, TypeOK, Whole

\* What the invariant says of one process.
LEMMA Here ==
  ASSUME SInv, NEW p \in Proc
  PROVE  /\ inst[p] \in Instance /\ seen[p] \in SUBSET RawInfo
         /\ seen = [seen EXCEPT ![p] = seen[p]]
         /\ Entering(inst[p]) /\ Knowing(inst[p], seen[p])
         /\ Info \in File /\ deaths \in 0..MaxDeaths /\ strays \in 0..deaths
  BY Scaffold DEF SInv, TypeOK, Info

LEMMA Enters ==
  ASSUME SInv, NEW p \in Proc, Enter(p)
  PROVE  SInv'
<1> DEFINE r == [Outside EXCEPT !.pc = "dirs"]
           saw == IF Info.there THEN {Info.raw} ELSE {}
<1>1. r \in Instance /\ r.pc = "dirs" /\ r.step = 1 /\ ~r.active
  BY Blanks DEF Instance
<1>2. saw \in SUBSET RawInfo
  BY Here DEF File
<1>3. Entering(r) /\ Knowing(r, saw)
  BY <1>1 DEF Entering, Knowing
<1>4. inst' = [inst EXCEPT ![p] = r] /\ seen' = [seen EXCEPT ![p] = saw]
      /\ UNCHANGED <<dirs, file, strays, deaths>>
  BY DEF Enter
<1> HIDE DEF r, saw
<1> QED
  BY <1>1, <1>2, <1>3, <1>4, Here, StepsAside

\* A process goes on, and nothing else happens.
LEMMA GoesOn ==
  ASSUME SInv, NEW p \in Proc, NEW r, r \in Instance, inst' = [inst EXCEPT ![p] = r],
         UNCHANGED <<dirs, file, strays, deaths, seen>>,
         Entering(r), inst[p].pc # "out", r.active = inst[p].active, r.info = inst[p].info
  PROVE  SInv'
<1>1. Knowing(r, seen[p])
  BY Here DEF Knowing
<1> QED
  BY <1>1, Here, StepsAside

LEMMA CreatesTmp ==
  ASSUME SInv, NEW p \in Proc, CreateTmp(p)
  PROVE  SInv'
<1> DEFINE r == [inst[p] EXCEPT !.pc = "write", !.tmp = Started]
<1>1. /\ r \in Instance /\ r.pc = "write" /\ r.step = inst[p].step
      /\ r.active = inst[p].active /\ r.info = inst[p].info
  BY Here, Blanks DEF Instance
<1>2. inst' = [inst EXCEPT ![p] = r] /\ inst[p].pc = "create"
      /\ UNCHANGED <<dirs, file, strays, deaths, seen>>
  BY Here DEF CreateTmp, At
<1>3. Entering(r)
  BY <1>1, <1>2, Here DEF Entering
<1> HIDE DEF r
<1> QED
  BY <1>1, <1>2, <1>3, GoesOn

LEMMA WritesTmp ==
  ASSUME SInv, NEW p \in Proc, WriteTmp(p)
  PROVE  SInv'
<1> DEFINE r == [inst[p] EXCEPT !.pc = "link", !.tmp = Fresh]
<1>1. /\ r \in Instance /\ r.pc = "link" /\ r.step = inst[p].step /\ r.tmp = Fresh
      /\ r.active = inst[p].active /\ r.info = inst[p].info
  BY Here, Blanks DEF Instance
<1>2. inst' = [inst EXCEPT ![p] = r] /\ inst[p].pc = "write"
      /\ UNCHANGED <<dirs, file, strays, deaths, seen>>
  BY Here DEF WriteTmp, At
<1>3. Entering(r)
  BY <1>1, <1>2, Here DEF Entering
<1> HIDE DEF r
<1> QED
  BY <1>1, <1>2, <1>3, GoesOn

LEMMA Unlinks ==
  ASSUME SInv, NEW p \in Proc, Unlink(p)
  PROVE  SInv'
<1> DEFINE last == inst[p].step = Len(ScaffoldFiles)
           r == [inst[p] EXCEPT !.pc = IF last THEN "open" ELSE "create",
                                !.step = IF last THEN 1 ELSE @ + 1, !.tmp = Missing]
<1>1. inst[p] \in Instance /\ inst[p].step \in 1..4 /\ Len(ScaffoldFiles) = 4
  BY Here, Scaffold DEF Instance
<1>2. /\ r \in Instance /\ r.active = inst[p].active /\ r.info = inst[p].info
      /\ IF last THEN r.pc = "open" ELSE r.pc = "create" /\ r.step = inst[p].step + 1
  <2>1. (IF last THEN 1 ELSE inst[p].step + 1) \in 1..4
    BY <1>1
  <2> QED
    BY <1>1, <2>1, Scaffold, Blanks DEF Instance
<1>3. inst' = [inst EXCEPT ![p] = r] /\ inst[p].pc = "unlink"
      /\ UNCHANGED <<dirs, file, strays, deaths, seen>>
  BY Here DEF Unlink, At
<1>4. Entering(inst[p])
  BY Here
<1>5. Made(inst[p].step) /\ dirs = {"objects", "stage"} /\ ~inst[p].active
  BY <1>3, <1>4 DEF Entering
<1>6. Entering(r)
  <2>1. CASE last
    BY <1>1, <1>2, <1>5, <2>1 DEF Entering, Complete
  <2>2. CASE ~last
    <3>1. r.step - 1 = inst[p].step
      BY <1>1, <1>2, <2>2
    <3> QED
      BY <1>2, <1>5, <2>2, <3>1 DEF Entering
  <2> QED
    BY <2>1, <2>2
<1> HIDE DEF r, last
<1> QED
  BY <1>2, <1>3, <1>6, GoesOn

LEMMA Fails ==
  ASSUME SInv, NEW p \in Proc, SetupFails(p)
  PROVE  SInv'
<1> DEFINE r == [inst[p] EXCEPT !.pc = "exit", !.tmp = Missing]
<1>1. /\ r \in Instance /\ r.pc = "exit"
      /\ r.active = inst[p].active /\ r.info = inst[p].info
  BY Here, Blanks DEF Instance
<1>2. inst' = [inst EXCEPT ![p] = r] /\ inst[p].pc \in {"write", "link"}
      /\ UNCHANGED <<dirs, file, strays, deaths, seen>>
  BY Here DEF SetupFails
<1>3. Entering(r)
  BY <1>1, <1>2, Here DEF Entering
<1> HIDE DEF r
<1> QED
  BY <1>1, <1>2, <1>3, GoesOn

LEMMA LocksShared ==
  ASSUME SInv, NEW p \in Proc, LockShared(p)
  PROVE  SInv'
<1> DEFINE r == [inst[p] EXCEPT !.pc = "load", !.locked = TRUE]
<1>1. /\ r \in Instance /\ r.pc = "load"
      /\ r.active = inst[p].active /\ r.info = inst[p].info
  BY Here DEF Instance
<1>2. inst' = [inst EXCEPT ![p] = r] /\ inst[p].pc = "open"
      /\ UNCHANGED <<dirs, file, strays, deaths, seen>>
  BY Here DEF LockShared, At
<1>3. Entering(r)
  BY <1>1, <1>2, Here DEF Entering
<1> HIDE DEF r
<1> QED
  BY <1>1, <1>2, <1>3, GoesOn

LEMMA Leaves ==
  ASSUME SInv, NEW p \in Proc, Leave(p)
  PROVE  SInv'
<1> DEFINE r == [inst[p] EXCEPT !.pc = "exit"]
<1>1. /\ r \in Instance /\ r.pc = "exit"
      /\ r.active = inst[p].active /\ r.info = inst[p].info
  BY Here DEF Instance
<1>2. inst' = [inst EXCEPT ![p] = r] /\ inst[p].pc = "in"
      /\ UNCHANGED <<dirs, file, strays, deaths, seen>>
  BY Here DEF Leave, At, Goto
<1>3. Entering(r)
  BY <1>1, <1>2, Here DEF Entering
<1> HIDE DEF r
<1> QED
  BY <1>1, <1>2, <1>3, GoesOn

LEMMA GoesOut ==
  ASSUME SInv, NEW p \in Proc, Exit(p) \/ Die(p)
  PROVE  SInv'
<1>1. Entering(Outside) /\ Knowing(Outside, {}) /\ Outside \in Instance
  BY Blanks DEF Entering, Knowing
<1>2. /\ inst' = [inst EXCEPT ![p] = Outside] /\ seen' = [seen EXCEPT ![p] = {}]
      /\ UNCHANGED <<dirs, file>>
  BY DEF Exit, Die
<1>3. deaths' \in 0..MaxDeaths /\ strays' \in 0..deaths'
  BY Here, SetupAssumption DEF Exit, Die
<1>4. {} \in SUBSET RawInfo
  OBVIOUS
<1> QED
  BY <1>1, <1>2, <1>3, <1>4, StepsAside

\* The instance takes over what it has parsed.
LEMMA Loads ==
  ASSUME SInv, NEW p \in Proc, Load(p)
  PROVE  SInv'
<1> DEFINE info == FromJson(Info.raw)
           r == [inst[p] EXCEPT !.pc = "in", !.active = TRUE, !.info = info,
                                !.maximum = MaximumSize(info)]
<1>1. Info.raw \in RawInfo /\ info \in FsCacheInfo /\ MaximumSize(info) \in {-1, 0, 2}
      /\ (Compatible(info) <=> ~Foreign(Info.raw))
  <2>1. Info.raw \in RawInfo
    BY Here DEF File
  <2> QED
    BY <2>1, Parsed, Limits
<1>2. inst' = [inst EXCEPT ![p] = r] /\ inst[p].pc = "load" /\ Info.there
      /\ UNCHANGED <<dirs, file, strays, deaths, seen>>
  BY Here DEF Load, Loaded, At
<1> HIDE DEF info
<1>3. r \in Instance /\ r.pc = "in" /\ r.active /\ r.info = info
  BY <1>1, Here DEF Instance
<1>4. Entering(r)
  BY <1>2, <1>3, Here DEF Entering
<1>5. Info.raw \in seen[p]
  BY <1>2, Here DEF Knowing
<1>6. Knowing(r, seen[p])
  BY <1>1, <1>3, <1>5 DEF Knowing, info
<1> HIDE DEF r
<1> QED
  BY <1>2, <1>3, <1>4, <1>6, Here, StepsAside

\* The first n files are there after the step.
MadeNext(n) == \A i \in DOMAIN ScaffoldFiles : i <= n => file'[ScaffoldFiles[i]].there

LEMMA MakesDir ==
  ASSUME SInv, NEW p \in Proc, MakeDir(p)
  PROVE  SInv'
<1> DEFINE pc == IF inst[p].step = 2 THEN "create" ELSE inst[p].pc
           step == IF inst[p].step = 2 THEN 1 ELSE 2
           r == [inst[p] EXCEPT !.pc = pc, !.step = step]
<1>1. /\ inst' = [inst EXCEPT ![p] = r] /\ inst[p].pc = "dirs"
      /\ dirs' = dirs \cup {Dirs[inst[p].step]}
      /\ UNCHANGED <<file, strays, deaths, seen>>
  BY Here DEF MakeDir, At
<1>2. /\ inst[p].step \in {1, 2} /\ (inst[p].step = 2 => "objects" \in dirs)
      /\ ~inst[p].active
  BY <1>1, Here DEF Entering
<1>3. /\ r \in Instance /\ r.active = inst[p].active /\ r.info = inst[p].info
      /\ IF inst[p].step = 2 THEN r.pc = "create" /\ r.step = 1
         ELSE r.pc = "dirs" /\ r.step = 2
  <2>1. step \in DOMAIN ScaffoldFiles
    BY Scaffold
  <2>2. pc \in {"create", "dirs"}
    BY <1>1
  <2>3. /\ inst[p].step = 2 => pc = "create" /\ step = 1
        /\ inst[p].step # 2 => pc = "dirs" /\ step = 2
    BY <1>1
  <2> HIDE DEF pc, step
  <2>4. /\ r \in Instance /\ r.active = inst[p].active /\ r.info = inst[p].info
        /\ r.pc = pc /\ r.step = step
    BY <2>1, <2>2, Here DEF Instance
  <2> QED
    BY <2>3, <2>4
<1>4. Dirs[1] = "objects" /\ Dirs[2] = "stage"
  BY DEF Dirs
<1>5. dirs \subseteq {"objects", "stage"}
  BY DEF SInv, TypeOK
<1>6. Grows /\ Info' = Info
  BY <1>1, <1>2, <1>4, <1>5 DEF Grows, Info
<1> HIDE DEF r
<1>7. /\ inst' \in [Proc -> Instance] /\ inst'[p] = r
      /\ \A q \in Proc \ {p} : inst'[q] = inst[q]
  BY <1>1, <1>3, Updated DEF SInv
<1>8. TypeOK' /\ Whole'
  BY <1>1, <1>6, <1>7 DEF SInv, TypeOK, Whole, Grows
<1>9. ASSUME NEW q \in Proc \ {p} PROVE Entering(inst[q])' /\ Knowing(inst[q], seen[q])'
  BY <1>1, <1>6, <1>7, OthersKept
<1>10. Entering(inst[p])'
  <2>1. CASE inst[p].step = 1
    BY <1>1, <1>2, <1>3, <1>4, <1>7, <2>1 DEF Entering
  <2>2. CASE inst[p].step = 2
    <3>1. dirs' = {"objects", "stage"} /\ MadeNext(0) /\ r.step - 1 = 0
      <4>1. dirs' = dirs \cup {"stage"} /\ "objects" \in dirs
        BY <1>1, <1>2, <1>4, <2>2
      <4>2. MadeNext(0)
        BY Scaffold DEF MadeNext
      <4>3. dirs' = {"objects", "stage"}
        BY <1>5, <4>1
      <4>4. r.step - 1 = 0
        BY <1>3, <2>2
      <4> QED
        BY <4>2, <4>3, <4>4
    <3> QED
      BY <1>2, <1>3, <1>7, <2>2, <3>1 DEF Entering, Made, MadeNext
  <2> QED
    BY <1>2, <2>1, <2>2
<1>11. Knowing(inst[p], seen[p])'
  BY <1>1, <1>2, <1>3, <1>6, <1>7, Here DEF Knowing
<1> QED
  BY <1>8, <1>9, <1>10, <1>11 DEF SInv

\* A file that Link makes was not there, so that nobody is inside, or is left alone.
LEMMA Links ==
  ASSUME SInv, NEW p \in Proc, Link(p)
  PROVE  SInv'
<1> DEFINE r == [inst[p] EXCEPT !.pc = "unlink"]
           n == inst[p].step
           f == ScaffoldFiles[n]
<1>1. /\ inst' = [inst EXCEPT ![p] = r] /\ inst[p].pc = "link"
      /\ UNCHANGED <<dirs, strays, deaths>>
      /\ \/ file[f].there /\ UNCHANGED <<file, seen>>
         \/ /\ ~file[f].there /\ file' = [file EXCEPT ![f] = inst[p].tmp]
            /\ IF f = "cache.info" THEN Note(inst[p].tmp.raw) ELSE UNCHANGED seen
  BY Here DEF Link, At, Goto, This
<1>2. /\ n \in 1..4 /\ f \in FileSet /\ inst[p].tmp = Fresh /\ Fresh \in File /\ Fresh.there
      /\ Fresh.whole
  BY <1>1, Here, Scaffold, Blanks DEF Entering, Instance
<1>3. r \in Instance /\ r.active = inst[p].active /\ r.pc = "unlink" /\ r.step = n
  BY Here DEF Instance
<1>4. ~inst[p].active /\ dirs = {"objects", "stage"} /\ Made(n - 1)
  BY <1>1, Here DEF Entering
<1> HIDE DEF r
<1>5. /\ inst' \in [Proc -> Instance] /\ inst'[p] = r
      /\ \A q \in Proc \ {p} : inst'[q] = inst[q]
  BY <1>1, <1>3, Updated DEF SInv
<1>6. /\ file' \in [FileSet -> File] /\ Whole' /\ file'[f].there
      /\ \A g \in FileSet : file[g].there => file'[g] = file[g]
  BY <1>1, <1>2 DEF SInv, TypeOK, Whole
<1>7. Grows
  BY <1>1, <1>4, <1>6, Scaffold DEF Grows, Info
<1>8. /\ seen' \in [Proc -> SUBSET RawInfo]
      /\ \A q \in Proc :
            \/ seen'[q] = seen[q] /\ Info' = Info
            \/ inst[q].pc # "out" => seen'[q] = seen[q] \cup {Info.raw'}
  <2>1. CASE file[f].there \/ f # "cache.info"
    <3>1. seen' = seen /\ Info' = Info
      BY <1>1, <1>2, <2>1, Scaffold DEF Info, SInv, TypeOK
    <3> QED
      BY <3>1 DEF SInv, TypeOK
  <2>2. CASE ~file[f].there /\ f = "cache.info"
    <3>1. Info.raw' = inst[p].tmp.raw /\ inst[p].tmp.raw \in RawInfo
      BY <1>1, <1>2, <2>2 DEF Info, File, SInv, TypeOK
    <3>2. seen' = [q \in Proc |-> IF At(q, "out") THEN {} ELSE seen[q] \cup {inst[p].tmp.raw}]
      BY <1>1, <2>2 DEF Note
    <3> QED
      BY <3>1, <3>2 DEF At, SInv, TypeOK
  <2> QED
    BY <2>1, <2>2
<1>9. TypeOK'
  BY <1>1, <1>5, <1>6, <1>8 DEF SInv, TypeOK
<1>10. ASSUME NEW q \in Proc \ {p} PROVE Entering(inst[q])' /\ Knowing(inst[q], seen[q])'
  BY <1>5, <1>7, <1>8, OthersKept
<1>11. Entering(inst[p])'
  <2>1. MadeNext(n - 1)
    BY <1>4, <1>7, Scaffold DEF Made, MadeNext, Grows
  <2>2. MadeNext(n)
    <3>1. ASSUME NEW i \in 1..4, i <= n PROVE i <= n - 1 \/ i = n
      BY <1>2, <3>1
    <3>2. ASSUME NEW i \in 1..4, i <= n PROVE file'[ScaffoldFiles[i]].there
      <4>1. CASE i = n
        BY <1>6, <4>1
      <4>2. CASE i <= n - 1
        BY <2>1, <4>2, Scaffold DEF MadeNext
      <4> QED
        BY <3>1, <3>2, <4>1, <4>2
    <3> QED
      BY <3>2, Scaffold DEF MadeNext
  <2>3. inst'[p].step = n
    BY <1>3, <1>5
  <2>4. Made(inst[p].step - 1)' /\ Made(inst[p].step)'
    BY <2>1, <2>2, <2>3 DEF Made, MadeNext
  <2> QED
    BY <1>1, <1>3, <1>4, <1>5, <2>4 DEF Entering
<1>12. Knowing(inst[p], seen[p])'
  <2>1. Info.there' => Info.raw' \in seen'[p]
    BY <1>1, <1>8, Here DEF Knowing
  <2> QED
    BY <1>3, <1>4, <1>5, <2>1 DEF Knowing
<1> QED
  BY <1>6, <1>9, <1>10, <1>11, <1>12 DEF SInv

\* The setter: a compatible instance writes what it has merged under the lock of the
\* file; any other keeps away from the file, and stays incompatible.
LEMMA Sets ==
  ASSUME NoDowngrade, SInv, NEW p \in Proc, NEW info \in Updates, SetInfo(p, info)
  PROVE  SInv'
<1> DEFINE new == Merged(Info.raw, info)
           isObject == Info.raw.json = "object"
           mine == IF isObject THEN FromJson(new) ELSE info
           writes == isObject /\ Compatible(inst[p].info)
           r == [inst[p] EXCEPT !.pc = "in", !.active = TRUE, !.info = mine,
                                !.maximum = MaximumSize(mine)]
<1>1. /\ inst' = [inst EXCEPT ![p] = r] /\ inst[p].pc = "in"
      /\ UNCHANGED <<dirs, strays, deaths>>
      /\ IF writes THEN file' = [file EXCEPT !["cache.info"].raw = new] /\ Note(new)
         ELSE UNCHANGED <<file, seen>>
  BY Here DEF SetInfo, At, Loaded
<1>2. /\ Info.raw \in RawInfo /\ info \in FsCacheInfo /\ Info \in File
      /\ inst[p].active /\ Complete /\ Info.there /\ Info.raw \in seen[p]
  <2>1. inst[p].active /\ Complete
    BY <1>1, Here DEF Entering
  <2>2. Info.there
    BY <2>1, CompleteHas, Scaffold DEF Info
  <2> QED
    BY <1>1, <2>1, <2>2, Here, SetupAssumption DEF File, Knowing
<1>3. /\ new \in RawInfo /\ new.json = Info.raw.json
      /\ new.version \in {Info.raw.version, info.version}
  BY <1>2, Merging
<1>4. info.version # "1"
  BY DEF NoDowngrade, Compatible
<1>5. Foreign(Info.raw) => Foreign(new)
  BY <1>3, <1>4 DEF Foreign
<1>6. /\ FromJson(new) \in FsCacheInfo
      /\ Compatible(FromJson(new)) <=> ~Foreign(new)
  BY <1>3, Parsed
<1>7. mine \in FsCacheInfo /\ MaximumSize(mine) \in {-1, 0, 2}
  <2>1. mine \in FsCacheInfo
    BY <1>2, <1>6
  <2> QED
    BY <2>1, Limits
<1> HIDE DEF new
<1>8. r \in Instance /\ r.pc = "in" /\ r.active /\ r.info = mine
  <2> HIDE DEF mine
  <2> QED
    BY <1>7, Here DEF Instance
<1> HIDE DEF r
<1>9. /\ inst' \in [Proc -> Instance] /\ inst'[p] = r
      /\ \A q \in Proc \ {p} : inst'[q] = inst[q]
  BY <1>1, <1>8, Updated DEF SInv
<1>10. /\ file' \in [FileSet -> File] /\ Whole' /\ Info'.there
       /\ Info'.raw = IF writes THEN new ELSE Info.raw
       /\ \A f \in FileSet : file'[f].there = file[f].there
  <2>1. CASE writes
    <3> DEFINE it == [Info EXCEPT !.raw = new]
    <3>1. /\ it \in File /\ it.raw = new /\ it.there = Info.there /\ it.whole = Info.whole
      BY <1>2, <1>3 DEF File
    <3>2. file' = [file EXCEPT !["cache.info"] = it]
      BY <1>1, <2>1 DEF Info
    <3> HIDE DEF it
    <3>3. file' \in [FileSet -> File] /\ Info' = it
      BY <3>1, <3>2, Scaffold DEF SInv, TypeOK, Info
    <3>4. \A f \in FileSet : file'[f].there = file[f].there /\ file'[f].whole = file[f].whole
      BY <3>1, <3>2, Scaffold DEF SInv, TypeOK, Info
    <3> QED
      BY <1>2, <2>1, <3>1, <3>3, <3>4 DEF SInv, Whole
  <2>2. CASE ~writes
    BY <1>1, <1>2, <2>2 DEF SInv, TypeOK, Whole, Info
  <2> QED
    BY <2>1, <2>2
<1>11. Grows
  BY <1>1, <1>5, <1>10 DEF Grows, SInv, TypeOK
<1>12. /\ seen' \in [Proc -> SUBSET RawInfo]
       /\ \A q \in Proc :
             \/ seen'[q] = seen[q] /\ Info' = Info
             \/ inst[q].pc # "out" => seen'[q] = seen[q] \cup {Info.raw'}
  <2>1. CASE writes
    <3>1. seen' = [q \in Proc |-> IF At(q, "out") THEN {} ELSE seen[q] \cup {new}]
      BY <1>1, <2>1 DEF Note
    <3>2. Info.raw' = new
      BY <1>10, <2>1
    <3> QED
      BY <1>3, <3>1, <3>2 DEF At, SInv, TypeOK
  <2>2. CASE ~writes
    BY <1>1, <2>2 DEF SInv, TypeOK, Info
  <2> QED
    BY <2>1, <2>2
<1>13. TypeOK'
  BY <1>1, <1>9, <1>10, <1>12 DEF SInv, TypeOK
<1>14. ASSUME NEW q \in Proc \ {p} PROVE Entering(inst[q])' /\ Knowing(inst[q], seen[q])'
  BY <1>9, <1>11, <1>12, OthersKept
<1>15. Entering(inst[p])'
  <2>1. Complete'
    BY <1>1, <1>2, <1>10, Scaffold DEF Complete, Made
  <2> QED
    BY <1>8, <1>9, <2>1 DEF Entering
<1>16. Knowing(inst[p], seen[p])'
  <2>1. Info.raw' \in seen'[p] /\ seen[p] \subseteq seen'[p]
    BY <1>1, <1>2, <1>12
  <2>2. CASE writes
    <3>1. mine = FromJson(new) /\ Info.raw' = new
      BY <1>10, <2>2
    <3> QED
      BY <1>6, <1>8, <1>9, <2>1, <3>1 DEF Knowing
  <2>3. CASE ~writes
    <3>1. Foreign(Info.raw) /\ Info.raw' = Info.raw
      BY <1>2, <1>10, <2>3, Here DEF Knowing, Foreign
    <3>2. ~Compatible(mine)
      BY <1>5, <1>6, <3>1 DEF NoDowngrade
    <3> QED
      BY <1>8, <1>9, <2>1, <3>1, <3>2 DEF Knowing
  <2> QED
    BY <2>2, <2>3
<1> QED
  BY <1>10, <1>13, <1>14, <1>15, <1>16 DEF SInv

LEMMA Steps == ASSUME NoDowngrade PROVE SInv /\ [Next]_vars => SInv'
<1> SUFFICES ASSUME SInv, [Next]_vars PROVE SInv'
  OBVIOUS
<1>1. CASE UNCHANGED vars
  BY <1>1 DEF vars, SInv, TypeOK, Whole, Entering, Knowing, Made, Complete, Info
<1>2. ASSUME NEW p \in Proc, Step(p) PROVE SInv'
  BY <1>2, MakesDir, CreatesTmp, WritesTmp, Links, Unlinks, LocksShared, Loads, GoesOut
     DEF Step
<1>3. ASSUME NEW p \in Proc, Enter(p) \/ SetupFails(p) \/ Leave(p) \/ Die(p) PROVE SInv'
  BY <1>3, Enters, Fails, Leaves, GoesOut
<1>4. ASSUME NEW p \in Proc, NEW info \in Updates, SetInfo(p, info) PROVE SInv'
  BY <1>4, Sets
<1> QED
  BY <1>1, <1>2, <1>3, <1>4 DEF Next

\* Whoever is inside a cache has all of it, whoever created it, died on the way or came
\* second (FsCache._create_scaffolding), and works with what cache.info said at some
\* moment since it came, field by field (_load_cache_info and the setter of FsCache.info),
\* for any processes, any earlier contents of the file and any number of deaths.
THEOREM InsideRight ==
  ASSUME NoDowngrade
  PROVE  Spec => []InsideIsRight
<1>1. Init => SInv
  BY Begins
<1>2. SInv /\ [Next]_vars => SInv'
  BY Steps
<1>3. SInv => InsideIsRight
  <2> SUFFICES ASSUME SInv PROVE InsideIsRight
    OBVIOUS
  <2>1. InsideIsComplete
    BY CompleteHas DEF SInv, Whole, InsideIsComplete, Entering, Complete
  <2>2. InfoWasOnDisk
    BY DEF SInv, InfoWasOnDisk, Knowing
  <2> QED
    BY <2>1, <2>2 DEF SInv, InsideIsRight
<1> QED
  BY <1>1, <1>2, <1>3, PTL DEF Spec

-----------------------------------------------------------------------------
(***************************************************************************)
(* What nobody does to a cache that is there.                              *)
(***************************************************************************)

\* Only Link and SetInfo change a file, Link only one that was missing.
LEMMA FilesChange ==
  ASSUME SInv, [Next]_vars
  PROVE  \/ file' = file
         \/ \E f \in FileSet : ~file[f].there /\ file' = [file EXCEPT ![f] = Fresh]
         \/ \E p \in Proc, info \in Updates :
               /\ SetInfo(p, info) /\ Info.raw.json = "object" /\ Compatible(inst[p].info)
               /\ file' = [file EXCEPT !["cache.info"].raw = Merged(Info.raw, info)]
<1>1. CASE UNCHANGED vars
  BY <1>1 DEF vars
<1>2. ASSUME NEW p \in Proc, Step(p) \/ Enter(p) \/ SetupFails(p) \/ Leave(p) \/ Die(p),
             ~Link(p)
      PROVE  file' = file
  BY <1>2 DEF Step, Enter, SetupFails, Leave, Die, MakeDir, CreateTmp, WriteTmp, Unlink,
              LockShared, Load, Exit
<1>3. ASSUME NEW p \in Proc, Link(p)
      PROVE  \/ file' = file
             \/ \E f \in FileSet : ~file[f].there /\ file' = [file EXCEPT ![f] = Fresh]
  <2>1. inst[p].tmp = Fresh /\ ScaffoldFiles[inst[p].step] \in FileSet
    BY <1>3, Here, Scaffold DEF Link, At, Entering, Instance
  <2> QED
    BY <1>3, <2>1 DEF Link, This
<1>4. ASSUME NEW p \in Proc, NEW info \in Updates, SetInfo(p, info)
      PROVE  \/ file' = file
             \/ /\ Info.raw.json = "object" /\ Compatible(inst[p].info)
                /\ file' = [file EXCEPT !["cache.info"].raw = Merged(Info.raw, info)]
  BY <1>4 DEF SetInfo
<1> QED
  BY <1>1, <1>2, <1>3, <1>4 DEF Next

\* What a write of the setter leaves in the cache and in the instance.
LEMMA Written ==
  ASSUME SInv, NEW p \in Proc, NEW info \in Updates, SetInfo(p, info),
         Info.raw.json = "object", Compatible(inst[p].info),
         file' = [file EXCEPT !["cache.info"].raw = Merged(Info.raw, info)]
  PROVE  /\ inst[p].active /\ inst'[p].active /\ Info'.there
         /\ inst'[p].info = FromJson(Info'.raw) /\ Info'.raw.future = Info.raw.future
         /\ \A f \in FileSet : f # "cache.info" => file'[f] = file[f]
<1> DEFINE new == Merged(Info.raw, info)
           it == [Info EXCEPT !.raw = new]
           r == [inst[p] EXCEPT !.pc = "in", !.active = TRUE, !.info = FromJson(new),
                                !.maximum = MaximumSize(FromJson(new))]
<1>1. inst[p].pc = "in" /\ inst' = [inst EXCEPT ![p] = r]
  BY Here DEF SetInfo, At, Loaded
<1>2. inst[p].active /\ Info.there
  <2>1. inst[p].active /\ Complete
    BY <1>1, Here DEF Entering
  <2> QED
    BY <2>1, CompleteHas, Scaffold DEF Info
<1>3. Info \in File /\ info \in FsCacheInfo
  BY Here, SetupAssumption
<1>4. new.future = Info.raw.future
  BY <1>3, Merging DEF File
<1> HIDE DEF new
<1>5. it.there = Info.there /\ it.raw = new
  BY <1>3 DEF File
<1>6. file' = [file EXCEPT !["cache.info"] = it]
  BY DEF Info, new
<1>7. r.active /\ r.info = FromJson(new)
  BY Here DEF Instance
<1> HIDE DEF it, r
<1>8. Info' = it /\ \A f \in FileSet : f # "cache.info" => file'[f] = file[f]
  BY <1>6, Scaffold DEF Info, SInv, TypeOK
<1>9. inst'[p] = r
  BY <1>1 DEF SInv, TypeOK
<1> QED
  BY <1>2, <1>4, <1>5, <1>7, <1>8, <1>9

LEMMA LiveKept ==
  ASSUME SInv, [Next]_vars, NEW f \in FileSet, file[f].there, file'[f] # file[f]
  PROVE  /\ f = "cache.info" /\ file'[f].there
         /\ \E p \in Proc : inst[p].active /\ inst'[p].active
               /\ inst'[p].info = FromJson(file'[f].raw)
<1>1. PICK p \in Proc, info \in Updates :
         /\ SetInfo(p, info) /\ Info.raw.json = "object" /\ Compatible(inst[p].info)
         /\ file' = [file EXCEPT !["cache.info"].raw = Merged(Info.raw, info)]
  BY FilesChange DEF SInv, TypeOK
<1>2. /\ inst[p].active /\ inst'[p].active /\ Info'.there
      /\ inst'[p].info = FromJson(Info'.raw)
      /\ \A g \in FileSet : g # "cache.info" => file'[g] = file[g]
  BY <1>1, Written
<1>3. f = "cache.info"
  BY <1>2
<1> QED
  BY <1>2, <1>3 DEF Info

LEMMA FutureKept ==
  ASSUME SInv, [Next]_vars, Info.there
  PROVE  Info'.raw.future = Info.raw.future
<1>1. CASE file' = file
  BY <1>1 DEF Info
<1>2. ASSUME NEW f \in FileSet, ~file[f].there, file' = [file EXCEPT ![f] = Fresh]
      PROVE  Info' = Info
  BY <1>2, Scaffold DEF Info, SInv, TypeOK
<1> QED
  BY <1>1, <1>2, FilesChange, Written

LEMMA ForeignKept ==
  ASSUME SInv, [Next]_vars, NEW p \in Proc, At(p, "in"), inst'[p] # inst[p],
         \A raw \in seen[p] : Foreign(raw)
  PROVE  file' = file
<1>1. inst[p].active /\ ~Compatible(inst[p].info) /\ seen[p] \subseteq RawInfo
  <2>1. inst[p].active
    BY Here DEF Entering, At
  <2>2. \A raw \in seen[p] : inst[p].info = FromJson(raw) => ~Compatible(inst[p].info)
    BY Here, Parsed
  <2> QED
    BY <2>1, <2>2, Here DEF Knowing
<1>2. Info.there
  BY <1>1, Here, CompleteHas, Scaffold DEF Entering, Info
<1>3. ASSUME NEW q \in Proc,
             \/ Step(q) \/ Enter(q) \/ SetupFails(q) \/ Leave(q) \/ Die(q)
             \/ \E info \in Updates : SetInfo(q, info)
      PROVE  q = p
  BY <1>3 DEF Step, Enter, SetupFails, Leave, Die, MakeDir, CreateTmp, WriteTmp, Link,
              Unlink, LockShared, Load, Loaded, Exit, Goto, SetInfo, SInv, TypeOK
<1>4. PICK q \in Proc :
         \/ Step(q) \/ Enter(q) \/ SetupFails(q) \/ Leave(q) \/ Die(q)
         \/ \E info \in Updates : SetInfo(q, info)
  BY DEF Next, vars
<1>5. q = p
  BY <1>3, <1>4
<1>6. \/ Leave(p) \/ Die(p) \/ \E info \in Updates : SetInfo(p, info)
  BY <1>4, <1>5 DEF At, Step, Enter, SetupFails, MakeDir, CreateTmp, WriteTmp, Link,
                    Unlink, LockShared, Load, Exit
<1> QED
  BY <1>1, <1>6 DEF Leave, Die, SetInfo

\* Nothing of a cache that is there is rewritten but cache.info, and that only by a
\* process that is inside, takes over what it writes, and has seen the file in the format
\* and the version of this implementation; what later versions added never changes
\* (_create_scaffolding and the setter of FsCache.info).
THEOREM OthersKeptWhole ==
  ASSUME NoDowngrade
  PROVE  Spec => OthersUndisturbed
<1>1. Init => SInv
  BY Begins
<1>2. SInv /\ [Next]_vars => SInv'
  BY Steps
<1> DEFINE Live == \A f \in FileSet : file[f].there /\ file'[f] # file[f] =>
                      /\ f = "cache.info" /\ file'[f].there
                      /\ \E p \in Proc : inst[p].active /\ inst'[p].active
                            /\ inst'[p].info = FromJson(file'[f].raw)
           Later ==
              /\ file["cache.info"].there =>
                    file'["cache.info"].raw.future = file["cache.info"].raw.future
              /\ \A p \in Proc :
                    (/\ At(p, "in") /\ inst'[p] # inst[p]
                     /\ \A raw \in seen[p] : Foreign(raw))
                    => file' = file
<1>3. SInv /\ [Next]_vars => Live
  BY LiveKept
<1>4. SInv /\ [Next]_vars => Later
  BY FutureKept, ForeignKept DEF Info
<1> HIDE DEF Live, Later
<1>5. SInv /\ [Next]_vars => [Live]_vars /\ [Later]_vars
  BY <1>3, <1>4
<1>6. Spec => [][Live]_vars /\ [][Later]_vars
  BY <1>1, <1>2, <1>5, PTL DEF Spec
<1> QED
  BY <1>6 DEF OthersUndisturbed, LiveCacheKept, FutureLeftAlone, Live, Later
=============================================================================
