------------------------ MODULE LockedReplaceProofs -------------------------
(***************************************************************************)
(* Proofs about LockedReplace, for any number of processes, any set of     *)
(* values and any update function; and about the update that the setter    *)
(* of cache.info makes, of which MCCacheFiles is an instance.              *)
(***************************************************************************)
EXTENDS MCCacheFiles, TLAPS

\* Which descriptors a process has open, and which locks it holds, at each
\* point of its call.
OpenFiles ==
    \A p \in Proc :
        /\ pc[p] \in {"idle", "open"} => fd[p] = NoInode
        /\ pc[p] \notin {"idle", "open"} => fd[p] \in Inode
        /\ pc[p] \in {"replace", "releaseNew"} => tmp[p] \in Inode
        /\ pc[p] \notin {"replace", "releaseNew"} => tmp[p] = NoInode
        /\ pc[p] \notin {"idle", "peek"} => arg[p] \in Arg

Locks ==
    \A p \in Proc :
        /\ pc[p] \notin {"idle", "open", "lock", "peek"} => lock[fd[p]] = p
        /\ pc[p] \in {"replace", "releaseNew"} =>
               lock[tmp[p]] = p /\ tmp[p] # fd[p]
        /\ \A i \in Inode : lock[i] = p =>
               /\ pc[p] \notin {"idle", "open", "lock", "peek"}
               /\ i = fd[p] \/ i = tmp[p]

\* The file a process inside the region has open is the one the path names.
Current == \A p \in Proc : Inside(p) => fd[p] = path

\* A temporary file that is not renamed yet is nobody else's.
TmpPrivate ==
    \A p \in Proc : pc[p] = "replace" =>
        /\ tmp[p] # path
        /\ content[tmp[p]] = val[p]
        /\ \A q \in Proc : fd[q] # tmp[p]

\* What a process is about to write was computed from the current value.
ValFresh ==
    \A p \in Proc : pc[p] \in {"create", "replace"} =>
        /\ Accept(content[path], arg[p])
        /\ val[p] = Apply(content[path], arg[p])

IInv == TypeOK /\ OpenFiles /\ Locks /\ Current /\ TmpPrivate /\ ValFresh

-----------------------------------------------------------------------------
LEMMA InitIInv == Init => IInv
  BY ProcAssumption, InodeAssumption, ValueAssumption
  DEF Init, IInv, TypeOK, OpenFiles, Locks, Current, TmpPrivate, ValFresh,
      Inside, Label

LEMMA NextIInv == IInv /\ [Next]_vars => IInv'
<1> SUFFICES ASSUME IInv, [Next]_vars PROVE IInv'
  OBVIOUS
<1> USE ProcAssumption, InodeAssumption, ValueAssumption
    DEF IInv, TypeOK, OpenFiles, Locks, Current, TmpPrivate, ValFresh,
      Inside, Label, Goto, Return
<1>1. ASSUME NEW p \in Proc, NEW a \in Arg, Begin(p, a) PROVE IInv'
  BY <1>1 DEF Begin
<1>2. ASSUME NEW p \in Proc, OpenUnlocked(p) PROVE IInv'
  BY <1>2 DEF OpenUnlocked
<1>3. ASSUME NEW p \in Proc, Open(p) PROVE IInv'
  BY <1>3 DEF Open
<1>4. ASSUME NEW p \in Proc, Lock(p) PROVE IInv'
  BY <1>4 DEF Lock
<1>5. ASSUME NEW p \in Proc, Verified(p) PROVE IInv'
  BY <1>5 DEF Verified, SameFile
<1>6. ASSUME NEW p \in Proc, Retry(p) PROVE IInv'
  BY <1>6 DEF Retry
<1>7. ASSUME NEW p \in Proc, Read(p) PROVE IInv'
  BY <1>7 DEF Read
<1>8. ASSUME NEW p \in Proc, CreateTmp(p) PROVE IInv'
  BY <1>8 DEF CreateTmp, Free
<1>9. ASSUME NEW p \in Proc, Replace(p) PROVE IInv'
  BY <1>9 DEF Replace
<1>10. ASSUME NEW p \in Proc, WriteFails(p) PROVE IInv'
  BY <1>10 DEF WriteFails
<1>11. ASSUME NEW p \in Proc, ReleaseNew(p) PROVE IInv'
  BY <1>11 DEF ReleaseNew
<1>12. ASSUME NEW p \in Proc, Release(p) PROVE IInv'
  BY <1>12 DEF Release
<1>13. ASSUME NEW p \in Proc, ReadUnlocked(p) PROVE IInv'
  BY <1>13 DEF ReadUnlocked
<1>14. ASSUME NEW p \in Proc, Crash(p) PROVE IInv'
  BY <1>14 DEF Crash
<1>15. CASE UNCHANGED vars
  BY <1>15 DEF vars
<1> QED
  BY <1>1, <1>2, <1>3, <1>4, <1>5, <1>6, <1>7, <1>8, <1>9, <1>10, <1>11,
     <1>12, <1>13, <1>14, <1>15
  DEF Next, Step

\* The variables keep their types in every behaviour of the protocol.
THEOREM TypeCorrect == Spec => []TypeOK
<1>1. IInv => TypeOK
  BY DEF IInv
<1> QED
  BY <1>1, InitIInv, NextIInv, PTL DEF Spec

\* The region that _atomic_open protects is exclusive, and the file that is
\* read in it is not replaced before the process leaves it.
THEOREM Exclusion == Spec => []ProtectedRegion
<1>1. IInv => ProtectedRegion
  BY ProcAssumption DEF IInv, TypeOK, OpenFiles, Locks, Current, Inside, ProtectedRegion
<1> QED
  BY <1>1, InitIInv, NextIInv, PTL DEF Spec

-----------------------------------------------------------------------------
\* Every step of the protocol is a step of the atomic register, or changes
\* nothing that a caller can see.
LEMMA StepSimulation == IInv /\ [Next]_vars => [Register!ANext]_(Register!avars)
<1> SUFFICES ASSUME IInv, [Next]_vars
             PROVE  Register!ANext \/ UNCHANGED Register!avars
  OBVIOUS
<1> DEFINE call == [p \in Proc |-> AbsCall(p)]
<1> USE ProcAssumption, InodeAssumption, ValueAssumption
<1>0. TypeOK /\ OpenFiles /\ Locks /\ Current /\ TmpPrivate /\ ValFresh
  BY DEF IInv
\* A step of p changes at most the abstract call of p.
<1>1. ASSUME NEW p \in Proc, NEW l, pc' = [pc EXCEPT ![p] = l],
             \/ UNCHANGED arg
             \/ \E a : arg' = [arg EXCEPT ![p] = a]
      PROVE  call' = [call EXCEPT ![p] = AbsCall(p)']
  <2>1. \A q \in Proc \ {p} : AbsCall(q)' = AbsCall(q)
    BY <1>0, <1>1 DEF AbsCall, TypeOK
  <2> QED
    BY <2>1
<1>2. ASSUME NEW p \in Proc, call' = [call EXCEPT ![p] = AbsCall(p)'],
             AbsCall(p)' = AbsCall(p)
      PROVE  UNCHANGED call
  BY <1>2
<1> HIDE DEF call
<1>3. UNCHANGED content[path] /\ UNCHANGED call => UNCHANGED Register!avars
  BY DEF Register!avars, call
<1>4. \A p \in Proc : call[p] = AbsCall(p)
  BY DEF call
<1>5. ASSUME NEW p \in Proc, NEW a \in Arg, Begin(p, a)
      PROVE  Register!Invoke(p, a)
  <2>1. AbsCall(p) = [st |-> "none"] /\ AbsCall(p)' = [st |-> "pending", arg |-> a]
    BY <1>0, <1>5 DEF Begin, Goto, AbsCall, TypeOK
  <2>2. UNCHANGED content[path]
    BY <1>5 DEF Begin
  <2> QED
    BY <1>1, <1>4, <1>5, <2>1, <2>2
    DEF Begin, Goto, Register!Invoke, Register!NoCall, Register!Pending, call
<1>6. ASSUME NEW p \in Proc, Replace(p)
      PROVE  arg[p] \in Arg /\ Register!Commit(p, arg[p])
  <2>1. /\ arg[p] \in Arg
        /\ AbsCall(p) = [st |-> "pending", arg |-> arg[p]]
        /\ AbsCall(p)' = [st |-> "returned", res |-> "done"]
    BY <1>0, <1>6 DEF Replace, Goto, AbsCall, TypeOK, OpenFiles
  <2>2. /\ Accept(content[path], arg[p])
        /\ content'[path'] = Apply(content[path], arg[p])
    BY <1>0, <1>6 DEF Replace, TmpPrivate, ValFresh
  <2> QED
    BY <1>1, <1>4, <1>6, <2>1, <2>2
    DEF Replace, Goto, Register!Commit, Register!Returned, Register!Pending, call
<1>7. ASSUME NEW p \in Proc, Read(p)
      PROVE  \/ arg[p] \in Arg /\ Register!Refuse(p, arg[p])
             \/ UNCHANGED Register!avars
  <2>0. UNCHANGED content[path] /\ fd[p] = path /\ arg[p] \in Arg
    BY <1>0, <1>7 DEF Read, Current, Inside, OpenFiles
  <2>1. CASE Accept(content[fd[p]], arg[p])
    <3>1. AbsCall(p)' = AbsCall(p) /\ pc' = [pc EXCEPT ![p] = "create"]
      BY <1>0, <1>7, <2>1 DEF Read, Goto, AbsCall, TypeOK
    <3> QED
      BY <1>1, <1>2, <1>3, <1>7, <2>0, <3>1 DEF Read
  <2>2. CASE ~Accept(content[fd[p]], arg[p])
    <3>1. /\ AbsCall(p) = [st |-> "pending", arg |-> arg[p]]
          /\ AbsCall(p)' = [st |-> "returned", res |-> "refused"]
          /\ pc' = [pc EXCEPT ![p] = "refused"]
      BY <1>0, <1>7, <2>2 DEF Read, Goto, AbsCall, TypeOK
    <3> QED
      BY <1>1, <1>4, <1>7, <2>0, <2>2, <3>1
      DEF Read, Register!Refuse, Register!Returned, Register!Pending, call
  <2> QED
    BY <2>1, <2>2
<1>8. ASSUME NEW p \in Proc, WriteFails(p)
      PROVE  arg[p] \in Arg /\ Register!Fail(p, arg[p])
  <2>1. /\ arg[p] \in Arg
        /\ AbsCall(p) = [st |-> "pending", arg |-> arg[p]]
        /\ AbsCall(p)' = [st |-> "returned", res |-> "error"]
    BY <1>0, <1>8 DEF WriteFails, Goto, AbsCall, TypeOK, OpenFiles
  <2> QED
    BY <1>1, <1>4, <1>8, <2>1
    DEF WriteFails, Goto, Register!Fail, Register!Returned, Register!Pending, call
<1>9. ASSUME NEW p \in Proc, Release(p) PROVE Register!Finish(p)
  <2>1. /\ \E r \in {"done", "refused", "error"} :
               AbsCall(p) = [st |-> "returned", res |-> r]
        /\ AbsCall(p)' = [st |-> "none"]
    BY <1>0, <1>9 DEF Release, Return, Goto, AbsCall, TypeOK
  <2> QED
    BY <1>1, <1>4, <1>9, <2>1
    DEF Release, Return, Goto, Register!Finish, Register!Returned,
        Register!NoCall, call
<1>10. ASSUME NEW p \in Proc, Crash(p) PROVE Register!Die(p)
  <2>1. AbsCall(p)' = [st |-> "none"]
    BY <1>0, <1>10 DEF Crash, Return, Goto, AbsCall, TypeOK
  <2> QED
    BY <1>1, <1>10, <2>1
    DEF Crash, Return, Goto, Register!Die, Register!NoCall, call
\* The other steps change nothing that the register shows.
<1>11. ASSUME NEW p \in Proc,
              \/ OpenUnlocked(p) \/ Open(p) \/ Lock(p) \/ Verified(p)
              \/ Retry(p) \/ CreateTmp(p) \/ ReleaseNew(p) \/ ReadUnlocked(p)
       PROVE  UNCHANGED Register!avars
  <2>1. UNCHANGED content[path]
    BY <1>0, <1>11
    DEF OpenUnlocked, Open, Lock, Verified, Retry, CreateTmp, ReleaseNew,
        ReadUnlocked, Free, TypeOK
  <2>2. AbsCall(p)' = AbsCall(p) /\ UNCHANGED arg
    BY <1>0, <1>11
    DEF OpenUnlocked, Open, Lock, Verified, Retry, CreateTmp, ReleaseNew,
        ReadUnlocked, Goto, AbsCall, TypeOK
  <2>3. \E l : pc' = [pc EXCEPT ![p] = l]
    BY <1>11
    DEF OpenUnlocked, Open, Lock, Verified, Retry, CreateTmp, ReleaseNew,
        ReadUnlocked, Goto
  <2> QED
    BY <1>1, <1>2, <1>3, <2>1, <2>2, <2>3
<1>12. CASE UNCHANGED vars
  <2>1. \A p \in Proc : AbsCall(p)' = AbsCall(p)
    BY <1>12 DEF vars, AbsCall
  <2> QED
    BY <1>3, <1>12, <2>1 DEF vars, call
<1> QED
  BY <1>5, <1>6, <1>7, <1>8, <1>9, <1>10, <1>11, <1>12
  DEF Next, Step, Register!ANext

\* LockedReplace implements AtomicRegister: concurrent updates of cache.size or
\* cache.info, with crashes and failed writes anywhere, behave as if each one
\* that is reported done happened at one instant on the value of that instant.
THEOREM Implements == Spec => Linearizable
<1>1. Init => Register!AInit
  BY InodeAssumption
  DEF Init, Register!AInit, Register!NoCall, AbsCall
<1> QED
  BY <1>1, InitIInv, NextIInv, StepSimulation, PTL
  DEF Spec, Linearizable, Register!ASpec

\* A file that is open or that the path names is never written to: an unlocked
\* reader (_load_cache_info) sees one whole value.
THEOREM Immutable == Spec => NeverInPlace
<1>1. ASSUME IInv, [Next]_vars, NEW i \in Inode,
             i = path \/ \E p \in Proc : fd[p] = i /\ fd'[p] = i
      PROVE  content'[i] = content[i]
  BY <1>1
  DEF IInv, TypeOK, Next, Step, Begin, OpenUnlocked, Open, Lock, Verified, Retry,
      Read, CreateTmp, Replace, WriteFails, ReleaseNew, Release, ReadUnlocked,
      Crash, Free, vars
<1>2. IInv /\ [Next]_vars =>
        [\A i \in Inode :
            (i = path \/ \E p \in Proc : fd[p] = i /\ fd'[p] = i)
                => content'[i] = content[i]]_vars
  BY <1>1
<1> QED
  BY <1>2, InitIInv, NextIInv, PTL DEF Spec, NeverInPlace

-----------------------------------------------------------------------------
\* The update is that of the setter of FsCache.info, and the fields of the file are
\* those it has from the start.
InfoUpdates ==
    /\ \A v \in Value, a \in Arg : Apply(v, a) = InfoApply(v, a)
    /\ \A v \in Value : DOMAIN v = DOMAIN Start

LEMMA FieldChanges ==
  ASSUME InfoUpdates, NEW raw \in Value, NEW upd \in Arg, NEW f \in DOMAIN Start,
         Apply(raw, upd)[f] # raw[f]
  PROVE  /\ f \in DOMAIN upd.set /\ upd.set[f] # Absent
         /\ upd.set[f] = Apply(raw, upd)[f]
<1>1. f \in DOMAIN raw /\ Apply(raw, upd) = InfoApply(raw, upd)
  BY DEF InfoUpdates
<1> QED
  BY <1>1 DEF InfoApply

\* What the path leads to changes when a file is renamed over it, only.
LEMMA ContentChanges ==
  ASSUME IInv, [Next]_vars, content'[path'] # content[path]
  PROVE  \E p \in Proc :
            /\ pc[p] = "replace" /\ arg[p] \in Arg
            /\ content'[path'] = Apply(content[path], arg[p])
<1>1. PICK p \in Proc : Replace(p)
  BY ProcAssumption, InodeAssumption
  DEF IInv, TypeOK, Next, Step, Begin, OpenUnlocked, Open, Lock, Verified, Retry,
      Read, CreateTmp, WriteFails, ReleaseNew, Release, ReadUnlocked, Crash, Free, vars
<1>2. pc[p] = "replace" /\ arg[p] \in Arg
  BY <1>1 DEF Replace, IInv, OpenFiles
<1>3. content'[path'] = Apply(content[path], arg[p])
  BY <1>1, <1>2 DEF Replace, IInv, TmpPrivate, ValFresh
<1> QED
  BY <1>2, <1>3

\* The setter of FsCache.info changes the fields that are set in what it is given and
\* no other: what another process wrote, or a later version knows, is left as it is.
THEOREM OtherFieldsKept ==
  ASSUME InfoUpdates
  PROVE  Spec => FieldsKept
<1> DEFINE Kept == \A f \in DOMAIN Start : content'[path'][f] # content[path][f] =>
                     \E p \in Proc :
                        /\ pc[p] = "replace"
                        /\ f \in DOMAIN arg[p].set /\ arg[p].set[f] # Absent
                        /\ arg[p].set[f] = content'[path'][f]
<1>1. IInv /\ [Next]_vars => Kept
  <2> SUFFICES ASSUME IInv, [Next]_vars, NEW f \in DOMAIN Start,
                      content'[path'][f] # content[path][f]
               PROVE  \E p \in Proc :
                        /\ pc[p] = "replace"
                        /\ f \in DOMAIN arg[p].set /\ arg[p].set[f] # Absent
                        /\ arg[p].set[f] = content'[path'][f]
    OBVIOUS
  <2>1. PICK p \in Proc :
           /\ pc[p] = "replace" /\ arg[p] \in Arg
           /\ content'[path'] = Apply(content[path], arg[p])
    BY ContentChanges
  <2>2. content[path] \in Value
    BY DEF IInv, TypeOK
  <2>3. /\ f \in DOMAIN arg[p].set /\ arg[p].set[f] # Absent
        /\ arg[p].set[f] = Apply(content[path], arg[p])[f]
    BY <2>1, <2>2, FieldChanges
  <2> QED
    BY <2>1, <2>3
<1>2. IInv /\ [Next]_vars => [Kept]_vars
  BY <1>1
<1> HIDE DEF Kept
<1>3. Spec => [][Kept]_vars
  BY <1>2, InitIInv, NextIInv, PTL DEF Spec
<1> QED
  BY <1>3 DEF FieldsKept, Kept
=============================================================================
