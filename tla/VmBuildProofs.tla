---------------------------- MODULE VmBuildProofs ----------------------------
(***************************************************************************)
(* Proofs about VmBuild, for any stages, objects and number of log lines:  *)
(* that a build in a virtual machine is the build on the host.             *)
(***************************************************************************)
EXTENDS VmBuild, FiniteSetTheorems, SequenceTheorems, TLAPS

-----------------------------------------------------------------------------
(***************************************************************************)
(* The invariant.                                                          *)
(***************************************************************************)
HostPlaces == {"shares", "qmp", "dropped", "update", "read", "result", "clean", "stop",
               "wait", "cleanup", "over", "killed"}
GuestPlaces == {"off", "boot", "serve", "halted", "run", "missing"}
HostRec == [pc : HostPlaces, share : Int, stage : 0..N,
            result : {"none", "built", "failed", "raised"}]
GuestRec == [pc : GuestPlaces, op : 0..N, floating : SUBSET Finished]
RequestRec == [op : 0..N, floating : SUBSET Finished]
Line == [kind : {"log", "ok", "failed", "error"}, from : Threads, op : 0..N]
Log == [written : Nat, shown : Nat]

Typed ==
    /\ host \in HostRec /\ guest \in GuestRec
    /\ qemu \in {"off", "starting", "ready", "wedged", "gone"}
    /\ told \in SUBSET {"TERM", "KILL"}
    /\ fsd \in [DOMAIN Shares -> {"off", "on", "told", "gone"}]
    /\ toGuest \in Seq(RequestRec) /\ toHost \in Seq(Line)
    /\ tree \in Seq(0..N) /\ logs \in [Threads -> Log]

\* The tree after the stages up to k.
Up(k) == [i \in 1..k |-> i]

Working == guest.pc \in {"run", "missing"}
NoAnswer == \A j \in 1..Len(toHost) : toHost[j].kind = "log"

\* The lines of a thread that the host has not read.
Pend(q, t) == Cardinality({j \in 1..Len(q) : q[j].kind = "log" /\ q[j].from = t})
Counted == \A t \in Threads : logs[t].written = logs[t].shown + Pend(toHost, t)

\* No request, no answer and no stage is under way.
Quiet == toGuest = <<>> /\ toHost = <<>> /\ ~Working

\* A request of the host for its stage waits for the guest, is being handled, is
\* answered, or is lost with the guest.
Asked ==
    /\ Len(toGuest) = 1 /\ toGuest[1].op = host.stage
    /\ toHost = <<>> /\ ~Working
    /\ tree = Up(IF host.stage = 0 THEN 0 ELSE host.stage - 1)
    /\ Counted
Handling ==
    /\ toGuest = <<>> /\ Working /\ guest.op = host.stage /\ host.stage > 0
    /\ NoAnswer
    /\ tree = Append(Up(host.stage - 1), 0)
    /\ Counted
Answered ==
    /\ toGuest = <<>> /\ ~Working
    /\ toHost # <<>>
    /\ \A j \in 1..Len(toHost) : toHost[j].kind = "log" <=> j # Len(toHost)
    /\ toHost[Len(toHost)].kind = "ok" => tree = Up(host.stage)
    /\ Counted
Lost ==
    /\ toGuest = <<>> /\ guest.pc \in {"off", "halted"} /\ qemu \in {"wedged", "gone"}
    /\ NoAnswer

Reading ==
    /\ Asked \/ Handling \/ Answered \/ Lost
    /\ \A j \in 1..Len(toHost) : toHost[j].op = host.stage

\* What the host knows when it is not waiting for an answer.
Pausing ==
    /\ At("shares") \/ At("qmp") => host.stage = 0
    /\ host.pc \in {"shares", "qmp", "update"} => 
          tree = Up(IF host.stage = 0 THEN 0 ELSE host.stage - 1)
    /\ At("result") => tree = Up(host.stage)
    /\ host.pc \in {"shares", "qmp", "update", "result", "clean"} => Quiet /\ Counted
    /\ host.pc \in {"shares", "qmp", "update", "read", "result"} => host.result = "none"
    /\ host.pc \in {"clean", "dropped"} => host.result # "built"
    /\ host.result = "built" => Quiet /\ tree = Up(N)

\* The guest, and its qemu.
Machine ==
    /\ qemu \in {"off", "starting"} => Quiet /\ guest.pc = "off"
    /\ guest.pc \in {"boot", "serve", "run", "missing"} => qemu = "ready"
    /\ At("shares") => qemu = "off"
    /\ host.pc \in {"update", "read", "result", "clean"} => qemu \in {"ready", "wedged", "gone"}

\* The guest knows the objects of this run before a stage needs them.
Loaded == guest.floating = Finished
Informed ==
    /\ host.stage > 0 \/ At("result") \/ Working => Loaded
    /\ \A j \in 1..Len(toHost) : toHost[j].kind = "ok" => Loaded
    /\ Len(toGuest) <= 1
    /\ toGuest # <<>> => IF toGuest[1].op = 0 THEN toGuest[1].floating = Finished ELSE Loaded
    /\ guest.pc # "missing"

\* The directories are taken away after the VM has been told to end.
Served ==
    /\ host.pc \in {"dropped", "cleanup"} => Gone \/ told # {}
    /\ (\E i \in DOMAIN Shares : fsd[i] = "told") =>
          (Gone \/ told # {}) /\ host.pc \in {"cleanup", "over", "killed"}

VmInv ==
    /\ Typed /\ Machine /\ Informed /\ Served /\ Pausing
    /\ At("read") => Reading
    /\ \A c \in cache : c[2] = Up(c[1])

-----------------------------------------------------------------------------
(***************************************************************************)
(* Lines that are pending, and trees.                                      *)
(***************************************************************************)
From(q, t) == {j \in 1..Len(q) : q[j].kind = "log" /\ q[j].from = t}

LEMMA FromFinite ==
  ASSUME NEW q \in Seq(Line), NEW t
  PROVE  From(q, t) \subseteq 1..Len(q) /\ IsFiniteSet(From(q, t)) /\ Pend(q, t) \in Nat
         /\ Pend(q, t) = Cardinality(From(q, t))
<1>1. Len(q) \in Nat
  BY LenProperties
<1>2. IsFiniteSet(1..Len(q))
  BY <1>1, FS_Interval
<1>3. From(q, t) \in SUBSET (1..Len(q))
  BY DEF From
<1>4. IsFiniteSet(From(q, t))
  BY <1>2, <1>3, FS_Subset
<1>5. Pend(q, t) = Cardinality(From(q, t))
  BY DEF Pend, From
<1> QED
  BY <1>3, <1>4, <1>5, FS_CardinalityType

LEMMA PendEmpty == \A t : Pend(<<>>, t) = 0
<1>1. \A t : From(<<>>, t) = {}
  BY DEF From
<1> QED
  BY <1>1, FS_EmptySet DEF Pend, From

LEMMA PendAppend ==
  ASSUME NEW q \in Seq(Line), NEW l \in Line, NEW t
  PROVE  Pend(Append(q, l), t) =
            IF l.kind = "log" /\ l.from = t THEN Pend(q, t) + 1 ELSE Pend(q, t)
<1> DEFINE r == Append(q, l)
           n == Len(q)
<1>1. /\ n \in Nat /\ r \in Seq(Line) /\ Len(r) = n + 1 /\ r[n + 1] = l
      /\ \A j \in 1..n : r[j] = q[j]
  BY AppendProperties, LenProperties
<1> HIDE DEF r, n
<1>2. From(r, t) = IF l.kind = "log" /\ l.from = t THEN From(q, t) \cup {n + 1} ELSE From(q, t)
  <2>1. \A j : j \in From(r, t) <=>
             \/ j \in 1..n /\ q[j].kind = "log" /\ q[j].from = t
             \/ j = n + 1 /\ l.kind = "log" /\ l.from = t
    BY <1>1 DEF From
  <2>2. \A j : j \in From(q, t) <=> j \in 1..n /\ q[j].kind = "log" /\ q[j].from = t
    BY DEF From, n
  <2> QED
    BY <2>1, <2>2
<1>3. n + 1 \notin From(q, t)
  BY <1>1 DEF From, n
<1>4. IsFiniteSet(From(q, t)) /\ Pend(q, t) = Cardinality(From(q, t))
  BY FromFinite
<1>5. Cardinality(From(q, t) \cup {n + 1}) = Cardinality(From(q, t)) + 1
  BY <1>3, <1>4, FS_AddElement
<1>6. Pend(r, t) = Cardinality(From(r, t))
  BY <1>1, FromFinite
<1> QED
  BY <1>2, <1>4, <1>5, <1>6 DEF r

LEMMA PendTail ==
  ASSUME NEW q \in Seq(Line), q # <<>>, NEW t
  PROVE  Pend(q, t) = IF Head(q).kind = "log" /\ Head(q).from = t
                      THEN Pend(Tail(q), t) + 1 ELSE Pend(Tail(q), t)
<1> DEFINE r == Tail(q)
           n == Len(q)
<1>1. /\ n \in Nat \ {0} /\ r \in Seq(Line) /\ Len(r) = n - 1 /\ Head(q) = q[1]
      /\ \A j \in 1..(n - 1) : r[j] = q[j + 1]
  BY HeadTailProperties, EmptySeq
<1> HIDE DEF r, n
<1> DEFINE S == From(r, t)
           T == From(q, t) \ {1}
           f == [j \in S |-> j + 1]
<1>2. \A j : j \in S <=> j \in 1..(n - 1) /\ q[j + 1].kind = "log" /\ q[j + 1].from = t
  BY <1>1 DEF From
<1>3. \A j : j \in T <=> j \in 2..n /\ q[j].kind = "log" /\ q[j].from = t
  BY <1>1 DEF From, n
<1> HIDE DEF S, T
<1>4. f \in Bijection(S, T)
  <2>1. \A j \in S : f[j] \in T
    BY <1>1, <1>2, <1>3
  <2>2. \A i, j \in S : f[i] = f[j] => i = j
    BY <1>1, <1>2
  <2>3. ASSUME NEW k \in T PROVE \E j \in S : f[j] = k
    <3> DEFINE i == k - 1
    <3>0. k \in 2..n /\ q[k].kind = "log" /\ q[k].from = t
      BY <1>3
    <3>1. i + 1 = k /\ i \in 1..(n - 1)
      BY <1>1, <3>0
    <3> HIDE DEF i
    <3>2. i \in S
      BY <1>2, <3>0, <3>1
    <3> QED
      BY <3>1, <3>2
  <2> QED
    BY <2>1, <2>2, <2>3 DEF Bijection, Injection, IsInjective, Surjection
<1>5. IsFiniteSet(S) /\ Pend(r, t) = Cardinality(S)
  BY <1>1, FromFinite DEF S
<1>6. Cardinality(T) = Cardinality(S)
  BY <1>4, <1>5, FS_Bijection DEF ExistsBijection
<1>7. IsFiniteSet(From(q, t)) /\ Pend(q, t) = Cardinality(From(q, t)) /\ Pend(q, t) \in Nat
  BY FromFinite
<1>8. Cardinality(T) = IF 1 \in From(q, t) THEN Cardinality(From(q, t)) - 1
                       ELSE Cardinality(From(q, t))
  BY <1>7, FS_RemoveElement DEF T
<1>9. 1 \in From(q, t) <=> Head(q).kind = "log" /\ Head(q).from = t
  BY <1>1 DEF From, n
<1>10. Pend(r, t) \in Nat
  BY <1>1, FromFinite
<1> QED
  BY <1>5, <1>6, <1>7, <1>8, <1>9, <1>10 DEF r

LEMMA Ups ==
  ASSUME NEW k \in 0..N
  PROVE  /\ Up(k) \in Seq(0..N) /\ Len(Up(k)) = k
         /\ k > 0 => [Append(Up(k - 1), 0) EXCEPT ![Len(Append(Up(k - 1), 0))] = k] = Up(k)
<1>1. N \in Nat
  BY VmAssumption, LenProperties DEF N
<1>2. ASSUME NEW i \in Nat, i <= N PROVE Up(i) \in Seq(0..N) /\ Len(Up(i)) = i
  BY <1>1, <1>2 DEF Up
<1>3. ASSUME k > 0
      PROVE  [Append(Up(k - 1), 0) EXCEPT ![Len(Append(Up(k - 1), 0))] = k] = Up(k)
  <2> DEFINE s == Append(Up(k - 1), 0)
             r == [s EXCEPT ![Len(s)] = k]
  <2>1. k - 1 \in Nat /\ k - 1 <= N /\ k \in Nat /\ 0 \in 0..N /\ k \in 0..N
    BY <1>1, <1>3
  <2>2. Up(k - 1) \in Seq(0..N) /\ Len(Up(k - 1)) = k - 1
    BY <1>2, <2>1
  <2>3. s \in Seq(0..N) /\ Len(s) = k /\ \A i \in 1..(k - 1) : s[i] = i
    BY <2>1, <2>2, AppendProperties DEF Up
  <2> HIDE DEF s
  <2>4. /\ r \in Seq(0..N) /\ Len(r) = k /\ \A i \in 1..k : r[i] = IF i = k THEN k ELSE s[i]
    BY <1>3, <2>1, <2>3, ExceptSeq
  <2> HIDE DEF r
  <2>5. Up(k) \in Seq(0..N) /\ Len(Up(k)) = k /\ \A i \in 1..k : Up(k)[i] = i
    BY <1>2, <2>1 DEF Up
  <2>6. \A i \in 1..k : r[i] = Up(k)[i]
    BY <2>1, <2>3, <2>4, <2>5
  <2>7. r = Up(k)
    BY <2>4, <2>5, <2>6, SeqEqual
  <2> QED
    BY <2>7 DEF r, s
<1> QED
  BY <1>1, <1>2, <1>3

-----------------------------------------------------------------------------
(***************************************************************************)
(* The host starts and ends the virtual machine.                           *)
(***************************************************************************)
LEMMA Sizes == N \in Nat /\ Stages \in [1..N -> [needs : SUBSET (Finished \cup Stored), checkpoint : BOOLEAN]]
  BY VmAssumption, LenProperties DEF N

LEMMA Starts == Init => VmInv
<1> SUFFICES ASSUME Init PROVE VmInv
  OBVIOUS
<1>1. Up(0) = <<>>
  BY DEF Up
<1>2. Typed
  <2>1. host \in HostRec /\ guest \in GuestRec
    BY Sizes DEF Init, HostRec, HostPlaces, GuestRec, GuestPlaces
  <2>2. /\ toGuest \in Seq(RequestRec) /\ toHost \in Seq(Line) /\ tree \in Seq(0..N)
        /\ logs \in [Threads -> Log]
    BY DEF Init, Log
  <2> QED
    BY <2>1, <2>2 DEF Init, Typed
<1>3. Machine /\ Served
  BY DEF Init, Machine, Served, Quiet, Working, At
<1>4. Informed
  BY DEF Init, Informed, Working, At
<1>5. Pausing
  <2>1. Counted
    BY PendEmpty DEF Counted, Init
  <2> QED
    BY <1>1, <2>1 DEF Init, Pausing, Quiet, Working, At
<1> QED
  BY <1>2, <1>3, <1>4, <1>5 DEF VmInv, Init, At

\* The guest and the port are left alone.
LEMMA PortKept ==
  ASSUME UNCHANGED <<guest, toGuest, toHost, tree, logs>>
  PROVE  (Quiet' <=> Quiet) /\ (Counted' <=> Counted) /\ (Loaded' <=> Loaded) /\ (Working' <=> Working)
  BY DEF Quiet, Counted, Loaded, Working

LEMMA StartsShare == VmInv /\ StartShare => VmInv'
<1> SUFFICES ASSUME VmInv, StartShare PROVE VmInv'
  OBVIOUS
<1>1. UNCHANGED <<qemu, told, tmpdir, guest, toGuest, toHost, logs, tree, cache>>
  BY DEF StartShare, lines
<1>2. /\ host \in HostRec /\ host.pc = "shares" /\ host'.stage = host.stage
      /\ host' \in HostRec
      /\ \/ host'.pc = "shares" /\ host'.result = host.result
         \/ host'.pc = "dropped" /\ host'.result = "raised"
  <2>1. host \in HostRec /\ host.share + 1 \in Int
    BY DEF VmInv, Typed, HostRec
  <2>2. CASE host' = [host EXCEPT !.share = @ + 1]
    BY <2>1, <2>2 DEF StartShare, HostRec, At
  <2>3. CASE host' = [host EXCEPT !.pc = "dropped", !.result = "raised"]
    BY <2>1, <2>3 DEF StartShare, HostRec, HostPlaces, At
  <2> QED
    BY <2>1, <2>2, <2>3 DEF StartShare
<1>3. fsd' \in [DOMAIN Shares -> {"off", "on", "told", "gone"}] /\ \A i \in DOMAIN Shares : fsd'[i] # "told"
  BY DEF VmInv, Typed, Served, StartShare, At
<1>4. Typed'
  BY <1>1, <1>2, <1>3 DEF VmInv, Typed
<1>5. Machine'
  BY <1>1, <1>2, PortKept DEF VmInv, Machine, At
<1>6. Informed'
  BY <1>1, <1>2, PortKept DEF VmInv, Informed, At
<1>7. Served'
  BY <1>1, <1>2, <1>3 DEF VmInv, Served, Machine, Gone, At
<1>8. Pausing'
  BY <1>1, <1>2, PortKept DEF VmInv, Pausing, At
<1> QED
  BY <1>1, <1>2, <1>4, <1>5, <1>6, <1>7, <1>8 DEF VmInv, At

LEMMA StartsQemu == VmInv /\ StartQemu => VmInv'
<1> SUFFICES ASSUME VmInv, StartQemu PROVE VmInv'
  OBVIOUS
<1>1. UNCHANGED <<told, fsd, tmpdir, guest, toGuest, toHost, logs, tree, cache>> /\ qemu' = "starting"
  BY DEF StartQemu, lines
<1>2. /\ host \in HostRec /\ host.pc = "shares" /\ host'.stage = host.stage
      /\ host' \in HostRec /\ host'.pc = "qmp" /\ host'.result = host.result
  BY DEF VmInv, Typed, StartQemu, HostRec, HostPlaces, At, Goto
<1>3. Typed'
  BY <1>1, <1>2 DEF VmInv, Typed
<1>4. Machine'
  BY <1>1, <1>2, PortKept DEF VmInv, Machine, At
<1>5. Informed'
  BY <1>1, <1>2, PortKept DEF VmInv, Informed, At
<1>6. Served'
  BY <1>1, <1>2 DEF VmInv, Served
<1>7. Pausing'
  BY <1>1, <1>2, PortKept DEF VmInv, Pausing, At
<1> QED
  BY <1>1, <1>2, <1>3, <1>4, <1>5, <1>6, <1>7 DEF VmInv, At

LEMMA WaitsQmp == VmInv /\ WaitQmp => VmInv'
<1> SUFFICES ASSUME VmInv, WaitQmp PROVE VmInv'
  OBVIOUS
<1>1. UNCHANGED <<qemu, fsd, tmpdir, guest, toGuest, toHost, logs, tree, cache>>
  BY DEF WaitQmp, lines
<1>2. /\ host \in HostRec /\ host.pc = "qmp" /\ host'.stage = host.stage /\ host' \in HostRec
      /\ \/ host'.pc = "update" /\ host'.result = host.result /\ qemu = "ready" /\ told' = told
         \/ host'.pc = "dropped" /\ host'.result = "raised" /\ told' = told \cup {"TERM"}
  BY DEF VmInv, Typed, WaitQmp, HostRec, HostPlaces, At, Goto
<1>3. Typed'
  BY <1>1, <1>2 DEF VmInv, Typed
<1>4. Machine'
  BY <1>1, <1>2, PortKept DEF VmInv, Machine, At
<1>5. Informed'
  BY <1>1, <1>2, PortKept DEF VmInv, Informed, At
<1>6. Served'
  BY <1>1, <1>2 DEF VmInv, Served
<1>7. Pausing'
  BY <1>1, <1>2, PortKept DEF VmInv, Pausing, At
<1> QED
  BY <1>1, <1>2, <1>3, <1>4, <1>5, <1>6, <1>7 DEF VmInv, At

\* The end of the block: nothing is asked any more, whatever the guest still does.
LEMMA Ends ==
  ASSUME VmInv, UNCHANGED <<qemu, guest, toGuest, toHost, logs, tree, cache>>,
         host' \in HostRec, host'.stage = host.stage, host'.result = host.result,
         host'.pc \in {"wait", "cleanup", "over", "killed"},
         told' \in SUBSET {"TERM", "KILL"}, told \subseteq told',
         fsd' \in [DOMAIN Shares -> {"off", "on", "told", "gone"}],
         Served'
  PROVE  VmInv'
<1>1. Typed'
  BY DEF VmInv, Typed
<1>2. Machine'
  BY PortKept DEF VmInv, Machine, At
<1>3. Informed'
  BY PortKept DEF VmInv, Informed, At
<1>4. Pausing'
  BY PortKept DEF VmInv, Pausing, At
<1> QED
  BY <1>1, <1>2, <1>3, <1>4 DEF VmInv, At

LEMMA Stops == VmInv /\ (Stop \/ Drop \/ StopShare \/ Killed) => VmInv'
<1> SUFFICES ASSUME VmInv, Stop \/ Drop \/ StopShare \/ Killed PROVE VmInv'
  OBVIOUS
<1>1. UNCHANGED <<qemu, guest, toGuest, toHost, logs, tree, cache>>
  BY DEF Stop, Drop, StopShare, Killed, lines, procs
<1>2. /\ host \in HostRec /\ told \in SUBSET {"TERM", "KILL"}
      /\ fsd \in [DOMAIN Shares -> {"off", "on", "told", "gone"}]
  BY DEF VmInv, Typed
<1>3. /\ told' \in SUBSET {"TERM", "KILL"} /\ told \subseteq told'
      /\ fsd' \in [DOMAIN Shares -> {"off", "on", "told", "gone"}]
  BY <1>2 DEF Stop, Drop, StopShare, Killed, procs
<1>4. /\ host' \in HostRec /\ host'.stage = host.stage /\ host'.result = host.result
      /\ host'.pc \in {"wait", "cleanup", "over", "killed"}
  BY <1>2 DEF Stop, Drop, StopShare, Killed, Goto, HostRec, HostPlaces, At
<1>5. Served'
  <2>1. CASE Stop
    BY <1>1, <1>4, <2>1 DEF VmInv, Served, Stop, Gone, Goto, At, HostRec
  <2>2. CASE Drop
    BY <1>1, <1>2, <1>4, <2>2 DEF VmInv, Served, Drop, Gone, Goto, At, HostRec, procs
  <2>3. CASE StopShare
    BY <1>1, <1>2, <1>4, <2>3 DEF VmInv, Served, StopShare, Gone, Goto, At, HostRec
  <2>4. CASE Killed
    BY <1>1, <1>2, <1>4, <2>4 DEF VmInv, Served, Killed, Gone, Goto, At, HostRec
  <2> QED
    BY <2>1, <2>2, <2>3, <2>4
<1> QED
  BY <1>1, <1>3, <1>4, <1>5, Ends

-----------------------------------------------------------------------------
(***************************************************************************)
(* The host asks, and reads.                                               *)
(***************************************************************************)
LEMMA Types ==
  ASSUME VmInv
  PROVE  /\ host \in HostRec /\ guest \in GuestRec /\ N \in Nat
         /\ toGuest \in Seq(RequestRec) /\ toHost \in Seq(Line)
         /\ Len(toGuest) \in Nat /\ Len(toHost) \in Nat
         /\ tree \in Seq(0..N) /\ logs \in [Threads -> Log]
         /\ host.stage \in 0..N
<1>1. host \in HostRec /\ toGuest \in Seq(RequestRec) /\ toHost \in Seq(Line)
  BY DEF VmInv, Typed
<1>2. Len(toGuest) \in Nat /\ Len(toHost) \in Nat
  BY <1>1, LenProperties
<1> QED
  BY <1>1, <1>2, Sizes DEF VmInv, Typed, HostRec

LEMMA Raises ==
  ASSUME VmInv, Raise, UNCHANGED <<procs, guest, toGuest, logs, tree, cache>>,
         host.pc \in {"update", "read"},
         toHost' \in {toHost, Tail(toHost)}, toHost' # toHost => toHost # <<>>
  PROVE  VmInv'
<1>1. /\ host' \in HostRec /\ host'.pc = "stop" /\ host'.result = "raised"
      /\ host'.stage = host.stage
  BY Types DEF Raise, HostRec, HostPlaces
<1>2. /\ toHost' \in Seq(Line)
      /\ \A j \in 1..Len(toHost') : \E i \in 1..Len(toHost) : toHost'[j] = toHost[i]
  <2>1. CASE toHost' = toHost
    BY <2>1, Types
  <2>2. CASE toHost' = Tail(toHost) /\ toHost # <<>>
    <3>1. /\ Tail(toHost) \in Seq(Line) /\ Len(Tail(toHost)) = Len(toHost) - 1
          /\ \A i \in 1..Len(Tail(toHost)) : Tail(toHost)[i] = toHost[i + 1]
      BY <2>2, Types, HeadTailProperties
    <3>2. \A j \in 1..Len(Tail(toHost)) : j + 1 \in 1..Len(toHost)
      BY <3>1, Types
    <3> QED
      BY <2>2, <3>1, <3>2
  <2> QED
    BY <2>1, <2>2
<1>3. UNCHANGED <<qemu, told, fsd>>
  BY DEF procs
<1>4. Typed'
  BY <1>1, <1>2, <1>3 DEF VmInv, Typed
<1>5. toHost = <<>> => toHost' = <<>>
  OBVIOUS
<1>6. Machine'
  BY <1>1, <1>3, <1>5 DEF VmInv, Machine, Quiet, Working, At
<1>7. Informed'
  <2>1. (\E j \in 1..Len(toHost') : toHost'[j].kind = "ok") => Loaded'
    BY <1>2 DEF VmInv, Informed, Loaded
  <2> QED
    BY <1>1, <2>1 DEF VmInv, Informed, Loaded, Working, At
<1>8. Served'
  <2>1. \A i \in DOMAIN Shares : fsd'[i] # "told"
    BY <1>3 DEF VmInv, Served
  <2> QED
    BY <1>1, <2>1 DEF Served
<1>9. Pausing'
  BY <1>1 DEF Pausing, At
<1> QED
  BY <1>1, <1>4, <1>6, <1>7, <1>8, <1>9 DEF VmInv, At

LEMMA Sends == VmInv /\ Send => VmInv'
<1> SUFFICES ASSUME VmInv, Send PROVE VmInv'
  OBVIOUS
<1>1. UNCHANGED <<qemu, told, fsd, guest, toHost, logs, tree, cache>> /\ At("update")
  BY DEF Send, procs
<1>2. CASE Raise /\ UNCHANGED toGuest
  BY <1>1, <1>2, Raises DEF Send, At, procs
<1>3. CASE qemu \in {"ready", "wedged"} /\ toGuest' = Append(toGuest, Request) /\ Goto("read")
  <2>1. /\ Quiet /\ Counted /\ host.result = "none" /\ (host.stage > 0 => Loaded)
        /\ tree = Up(IF host.stage = 0 THEN 0 ELSE host.stage - 1)
    BY <1>1 DEF VmInv, Pausing, Informed, At
  <2>2. /\ Request \in RequestRec /\ Request.op = host.stage
        /\ host.stage = 0 => Request.floating = Finished
    BY Types DEF Request, RequestRec, Exported
  <2>3. toGuest' \in Seq(RequestRec) /\ Len(toGuest') = 1 /\ toGuest'[1] = Request
    <3>1. toGuest = <<>> /\ toGuest' = Append(<<>>, Request)
      BY <1>3, <2>1 DEF Quiet
    <3> HIDE DEF Request
    <3> QED
      BY <2>2, <3>1
  <2>4. /\ host' \in HostRec /\ host'.pc = "read" /\ host'.stage = host.stage
        /\ host'.result = host.result
    BY <1>3, Types DEF Goto, HostRec, HostPlaces
  <2>5. Typed'
    BY <1>1, <2>3, <2>4 DEF VmInv, Typed
  <2>6. Machine'
    BY <1>1, <1>3, <2>4 DEF VmInv, Machine, At
  <2>7. Informed'
    <3>1. /\ Loaded' <=> Loaded
          /\ Working' <=> Working
          /\ ~Working /\ guest'.pc = guest.pc
      BY <1>1, <2>1 DEF Loaded, Working, Quiet
    <3>2. ~At("result")' /\ (host'.stage > 0 => Loaded)
      BY <2>1, <2>4 DEF At
    <3>3. \A j \in 1..Len(toHost') : toHost'[j].kind = "ok" => Loaded
      BY <1>1 DEF VmInv, Informed
    <3>4. guest.pc # "missing"
      BY DEF VmInv, Informed
    <3>5. IF toGuest'[1].op = 0 THEN toGuest'[1].floating = Finished ELSE Loaded
      BY <2>1, <2>2, <2>3, Types
    <3> QED
      BY <2>3, <3>1, <3>2, <3>3, <3>4, <3>5 DEF Informed
  <2>8. Served'
    BY <1>1, <2>4 DEF VmInv, Served, Gone, At
  <2>9. Pausing'
    BY <2>1, <2>4 DEF Pausing, At
  <2>10. Reading'
    BY <1>1, <2>1, <2>2, <2>3, <2>4 DEF Reading, Asked, Quiet, Working, Counted
  <2> QED
    BY <1>1, <2>5, <2>6, <2>7, <2>8, <2>9, <2>10 DEF VmInv
<1> QED
  BY <1>2, <1>3 DEF Send

\* The line that is read is the first of those that are pending.
LEMMA FirstLine ==
  ASSUME VmInv, toHost # <<>>
  PROVE  /\ Len(toHost) \in Nat \ {0} /\ Head(toHost) = toHost[1] /\ Head(toHost) \in Line
         /\ Tail(toHost) \in Seq(Line) /\ Len(Tail(toHost)) = Len(toHost) - 1
         /\ \A j \in 1..(Len(toHost) - 1) :
               j + 1 \in 1..Len(toHost) /\ Tail(toHost)[j] = toHost[j + 1]
<1>1. Len(toHost) \in Nat \ {0}
  BY Types, EmptySeq
<1>2. /\ Head(toHost) \in Line /\ Tail(toHost) \in Seq(Line)
      /\ Len(Tail(toHost)) = Len(toHost) - 1
      /\ \A i \in 1..Len(Tail(toHost)) : Tail(toHost)[i] = toHost[i + 1]
  BY Types, HeadTailProperties
<1> QED
  BY <1>1, <1>2

LEMMA ReadsLog == VmInv /\ ReadLog => VmInv'
<1> SUFFICES ASSUME VmInv, ReadLog PROVE VmInv'
  OBVIOUS
<1> DEFINE l == Head(toHost)
           r == Tail(toHost)
           n == Len(toHost)
<1>1. /\ UNCHANGED <<host, qemu, told, fsd, guest, toGuest, tree, cache>> /\ At("read")
      /\ toHost # <<>> /\ l.kind = "log" /\ toHost' = r
      /\ logs' = [logs EXCEPT ![l.from].shown = @ + 1]
  BY DEF ReadLog, procs
<1>2. /\ n \in Nat \ {0} /\ l = toHost[1] /\ l \in Line /\ r \in Seq(Line) /\ Len(r) = n - 1
      /\ \A j \in 1..(n - 1) : j + 1 \in 1..n /\ r[j] = toHost[j + 1]
  BY <1>1, FirstLine
<1>3. /\ logs' \in [Threads -> Log] /\ l.from \in Threads
      /\ \A t \in Threads : /\ logs'[t].written = logs[t].written
                            /\ logs[t].written \in Nat /\ logs[t].shown \in Nat
                            /\ logs'[t].shown = IF t = l.from THEN logs[t].shown + 1 ELSE logs[t].shown
  <2>1. l.from \in Threads
    BY <1>2 DEF Line
  <2>2. logs \in [Threads -> Log] /\ logs[l.from] \in Log
    BY <2>1, Types
  <2> HIDE DEF l
  <2>3. [logs[l.from] EXCEPT !.shown = @ + 1] \in Log
    BY <2>2 DEF Log
  <2>4. logs' = [logs EXCEPT ![l.from] = [logs[l.from] EXCEPT !.shown = @ + 1]]
    BY <1>1, <2>2 DEF l
  <2>5. \A t \in Threads : logs[t].written \in Nat /\ logs[t].shown \in Nat
    BY <2>2 DEF Log
  <2>6. \A t \in Threads : /\ logs'[t].written = logs[t].written
                           /\ logs'[t].shown = IF t = l.from THEN logs[t].shown + 1 ELSE logs[t].shown
    BY <2>1, <2>2, <2>4 DEF Log
  <2>7. logs' \in [Threads -> Log]
    BY <2>2, <2>3, <2>4
  <2> QED
    BY <2>1, <2>5, <2>6, <2>7
<1>4. Counted => Counted'
  <2>1. \A t : Pend(toHost, t) = IF l.from = t THEN Pend(r, t) + 1 ELSE Pend(r, t)
    BY <1>1, PendTail, Types
  <2>2. \A t : Pend(r, t) \in Nat
    BY <1>2, FromFinite
  <2> HIDE DEF l, r
  <2> QED
    BY <1>1, <1>3, <2>1, <2>2 DEF Counted
<1> HIDE DEF l, r
<1>5. Typed'
  BY <1>1, <1>2, <1>3 DEF VmInv, Typed
<1>6. Machine'
  BY <1>1 DEF VmInv, Machine, At
<1>7. Informed'
  BY <1>1, <1>2 DEF VmInv, Informed, Loaded, Working, At
<1>8. Served'
  BY <1>1 DEF VmInv, Served, Gone
<1>9. Pausing'
  BY <1>1 DEF VmInv, Pausing, At, Machine, Quiet
<1>10. Reading'
  <2>1. Reading /\ ~Asked
    BY <1>1 DEF VmInv, Asked
  <2>2. \A j \in 1..Len(r) : r[j].op = host.stage
    BY <1>2, <2>1 DEF Reading
  <2>3. NoAnswer => NoAnswer'
    BY <1>1, <1>2 DEF NoAnswer
  <2>4. Handling => Handling'
    BY <1>1, <1>4, <2>3 DEF Handling, Working
  <2>5. Lost => Lost'
    BY <1>1, <2>3 DEF Lost
  <2>6. Answered => Answered'
    <3> SUFFICES ASSUME Answered PROVE Answered'
      OBVIOUS
    <3>1. n # 1
      BY <1>1, <1>2 DEF Answered
    <3>2. Len(r) \in 1..(n - 1) /\ r # <<>> /\ r[Len(r)] = toHost[n]
      BY <1>2, <3>1
    <3>3. \A j \in 1..Len(r) : r[j].kind = "log" <=> j # Len(r)
      BY <1>2, <3>2 DEF Answered
    <3> QED
      BY <1>1, <1>4, <3>2, <3>3 DEF Answered, Working
  <2> QED
    BY <1>1, <2>1, <2>2, <2>4, <2>5, <2>6 DEF Reading
<1> QED
  BY <1>1, <1>5, <1>6, <1>7, <1>8, <1>9, <1>10 DEF VmInv

\* What is read next when it is not a log line answers the request of the host, and
\* nothing comes after it.
LEMMA ReadsAnswer == VmInv /\ ReadAnswer => VmInv'
<1> SUFFICES ASSUME VmInv, ReadAnswer PROVE VmInv'
  OBVIOUS
<1> DEFINE l == Head(toHost)
<1>1. /\ UNCHANGED <<qemu, told, fsd, guest, toGuest, logs, tree, cache>> /\ At("read")
      /\ toHost # <<>> /\ l.kind # "log" /\ toHost' = Tail(toHost)
  BY DEF ReadAnswer, procs
<1>2. /\ Len(toHost) \in Nat \ {0} /\ l = toHost[1] /\ l \in Line
      /\ Tail(toHost) \in Seq(Line) /\ Len(Tail(toHost)) = Len(toHost) - 1
  BY <1>1, FirstLine
<1>3. Answered /\ Len(toHost) = 1
  <2>1. Reading /\ ~Asked
    BY <1>1 DEF VmInv, Asked
  <2>2. ~NoAnswer
    BY <1>1, <1>2 DEF NoAnswer
  <2>3. Answered
    BY <2>1, <2>2 DEF Reading, Handling, Lost
  <2>4. toHost[1].kind = "log" <=> 1 # Len(toHost)
    <3>1. 1 \in 1..Len(toHost)
      BY <1>2
    <3>2. \A j \in 1..Len(toHost) : toHost[j].kind = "log" <=> j # Len(toHost)
      BY <2>3 DEF Answered
    <3> HIDE DEF l
    <3> QED
      BY <3>1, <3>2
  <2> QED
    BY <1>1, <1>2, <2>3, <2>4
<1>4. toHost' = <<>>
  BY <1>1, <1>2, <1>3, EmptySeq
<1>5. Quiet' /\ Counted'
  <2>1. \A t : Pend(toHost, t) = Pend(toHost', t)
    BY <1>1, PendTail, Types
  <2> QED
    BY <1>1, <1>3, <1>4, <2>1 DEF Quiet, Answered, Counted, Working
<1>6. CASE l.kind = "error"
  <2>1. Raise
    BY <1>6 DEF ReadAnswer
  <2> QED
    BY <1>1, <2>1, Raises DEF ReadAnswer, At, procs
<1>7. CASE l.kind \in {"ok", "failed"}
  <2>1. /\ host' \in HostRec /\ host'.stage = host.stage
        /\ \/ l.kind = "failed" /\ host'.pc = "clean" /\ host'.result = "failed"
           \/ l.kind = "ok" /\ host'.pc = "result" /\ host'.result = host.result
    BY <1>7, Types DEF ReadAnswer, Goto, HostRec, HostPlaces
  <2>2. l.kind = "ok" => tree = Up(host.stage) /\ Loaded
    BY <1>2, <1>3 DEF VmInv, Answered, Informed
  <2>3. Typed'
    BY <1>1, <1>2, <2>1 DEF VmInv, Typed
  <2>4. Machine'
    BY <1>1, <1>5, <2>1 DEF VmInv, Machine, At
  <2>5. Informed'
    BY <1>1, <1>4, <2>1, <2>2 DEF VmInv, Informed, Loaded, Working, At
  <2>6. Served'
    BY <1>1, <2>1 DEF VmInv, Served, Gone, At
  <2>7. host.result = "none"
    BY <1>1 DEF VmInv, Pausing, At
  <2>8. Pausing'
    BY <1>1, <1>5, <2>1, <2>2, <2>7 DEF Pausing, At
  <2> QED
    BY <1>1, <2>1, <2>3, <2>4, <2>5, <2>6, <2>8 DEF VmInv, At
<1> QED
  BY <1>1, <1>2, <1>6, <1>7 DEF Line

LEMMA ReadsEnd == VmInv /\ ReadEnd => VmInv'
  BY Raises DEF ReadEnd, lines, procs, At

LEMMA Goes ==
  ASSUME VmInv, NextStage
  PROVE  VmInv'
<1>1. /\ UNCHANGED <<qemu, told, fsd, guest, toGuest, toHost, logs, tree>> /\ At("result")
      /\ \/ cache' = cache
         \/ cache' = cache \cup {<<host.stage, tree>>}
  BY DEF NextStage, procs, lines
<1>2. tree = Up(host.stage) /\ Quiet /\ Counted /\ host.result = "none" /\ Loaded
  BY <1>1 DEF VmInv, Pausing, Informed, At
<1>3. /\ host' \in HostRec
      /\ \/ /\ host'.pc = "update" /\ host'.stage = host.stage + 1 /\ host'.result = "none"
            /\ host'.stage - 1 = host.stage /\ host'.stage # 0
         \/ /\ host'.pc = "stop" /\ host'.stage = host.stage /\ host'.result = "built"
            /\ host.stage = N
  <2>1. CASE host.stage < N
    <3>1. host.stage + 1 \in 0..N
      BY <2>1, Types
    <3>2. host' = [host EXCEPT !.pc = "update", !.stage = @ + 1]
      BY <2>1 DEF NextStage
    <3>3. host.stage \in Nat /\ host \in HostRec
      BY Types
    <3>4. /\ host'.pc = "update" /\ host'.stage = host.stage + 1 /\ host'.result = host.result
          /\ host' \in HostRec
      BY <3>1, <3>2, <3>3 DEF HostRec, HostPlaces
    <3> QED
      BY <1>2, <3>3, <3>4
  <2>2. CASE ~(host.stage < N)
    <3>1. host' = [host EXCEPT !.pc = "stop", !.result = "built"] /\ host.stage = N
      BY <2>2, Types DEF NextStage
    <3> QED
      BY <3>1, Types DEF HostRec, HostPlaces
  <2> QED
    BY <2>1, <2>2
<1>4. Typed'
  BY <1>1, <1>3 DEF VmInv, Typed
<1>5. Machine'
  BY <1>1, <1>3, PortKept DEF VmInv, Machine, At
<1>6. Informed'
  BY <1>1, <1>2, <1>3, PortKept DEF VmInv, Informed, At
<1>7. Served'
  BY <1>1, <1>3 DEF VmInv, Served, Gone, At
<1>8. Pausing'
  BY <1>1, <1>2, <1>3, PortKept DEF Pausing, At
<1>9. \A c \in cache' : c[2] = Up(c[1])
  BY <1>1, <1>2 DEF VmInv
<1> QED
  BY <1>1, <1>3, <1>4, <1>5, <1>6, <1>7, <1>8, <1>9 DEF VmInv, At

LEMMA CleansTree == VmInv /\ CleanTree => VmInv'
<1> SUFFICES ASSUME VmInv, CleanTree PROVE VmInv'
  OBVIOUS
<1>1. UNCHANGED <<qemu, told, fsd, guest, toGuest, toHost, logs, tree, cache>> /\ At("clean")
  BY DEF CleanTree, procs, lines
<1>2. /\ host' \in HostRec /\ host'.pc = "stop" /\ host'.stage = host.stage
      /\ host'.result = host.result
  BY Types DEF CleanTree, Goto, HostRec, HostPlaces
<1>3. Typed'
  BY <1>1, <1>2 DEF VmInv, Typed
<1>4. Machine'
  BY <1>1, <1>2, PortKept DEF VmInv, Machine, At
<1>5. Informed'
  BY <1>1, <1>2, PortKept DEF VmInv, Informed, At
<1>6. Served'
  BY <1>1, <1>2 DEF VmInv, Served, Gone, At
<1>7. Pausing'
  BY <1>1, <1>2, PortKept DEF VmInv, Pausing, At
<1> QED
  BY <1>1, <1>2, <1>3, <1>4, <1>5, <1>6, <1>7 DEF VmInv, At

-----------------------------------------------------------------------------
(***************************************************************************)
(* The virtual machine gets ready, fails, and ends.                        *)
(***************************************************************************)
LEMMA GetsReady == VmInv /\ QemuReady => VmInv'
<1> SUFFICES ASSUME VmInv, QemuReady PROVE VmInv'
  OBVIOUS
<1>1. /\ UNCHANGED <<host, told, fsd, toGuest, toHost, logs, tree, cache>>
      /\ qemu = "starting" /\ qemu' = "ready" /\ guest' = [guest EXCEPT !.pc = "boot"]
  BY DEF QemuReady, lines
<1>2. /\ guest' \in GuestRec /\ guest'.pc = "boot" /\ guest'.op = guest.op
      /\ guest'.floating = guest.floating
  BY <1>1, Types DEF GuestRec, GuestPlaces
<1>3. Quiet /\ Quiet'
  BY <1>1, <1>2 DEF VmInv, Machine, Quiet, Working
<1>4. Typed'
  BY <1>1, <1>2 DEF VmInv, Typed
<1>5. Machine'
  BY <1>1, <1>2 DEF VmInv, Machine, At
<1>6. Informed'
  BY <1>1, <1>2 DEF VmInv, Informed, Working, Loaded, At
<1>7. Served'
  BY <1>1 DEF VmInv, Served, Gone
<1>8. Pausing'
  BY <1>1, <1>3 DEF VmInv, Pausing, Counted, At
<1>9. ~At("read")
  BY <1>1 DEF VmInv, Machine, At
<1> QED
  BY <1>1, <1>4, <1>5, <1>6, <1>7, <1>8, <1>9 DEF VmInv, At

LEMMA Wedges == VmInv /\ QemuWedges => VmInv'
<1> SUFFICES ASSUME VmInv, QemuWedges PROVE VmInv'
  OBVIOUS
<1>1. /\ UNCHANGED <<host, told, fsd, toGuest, toHost, logs, tree, cache>>
      /\ qemu \in {"starting", "ready"} /\ qemu' = "wedged"
      /\ guest' = [guest EXCEPT !.pc = "halted"]
  BY DEF QemuWedges, lines
<1>2. /\ guest' \in GuestRec /\ guest'.pc = "halted" /\ guest'.op = guest.op
      /\ guest'.floating = guest.floating
  BY <1>1, Types DEF GuestRec, GuestPlaces
<1>3. ~Working' /\ (Quiet => Quiet') /\ (Counted' <=> Counted) /\ (Loaded' <=> Loaded)
  BY <1>1, <1>2 DEF Quiet, Working, Counted, Loaded
<1>4. Typed'
  BY <1>1, <1>2 DEF VmInv, Typed
<1>5. Machine'
  BY <1>1, <1>2 DEF VmInv, Machine, At
<1>6. Informed'
  BY <1>1, <1>2, <1>3 DEF VmInv, Informed, At
<1>7. Served'
  BY <1>1 DEF VmInv, Served, Gone
<1>8. Pausing'
  BY <1>1, <1>3 DEF VmInv, Pausing, At
<1>9. Reading => Reading'
  <2>1. Asked => Asked'
    BY <1>1, <1>3 DEF Asked
  <2>2. Handling => Lost'
    BY <1>1, <1>2 DEF Handling, Lost, NoAnswer
  <2>3. Answered => Answered'
    BY <1>1, <1>3 DEF Answered
  <2>4. ~Lost
    BY <1>1 DEF Lost
  <2> QED
    BY <1>1, <2>1, <2>2, <2>3, <2>4 DEF Reading
<1> QED
  BY <1>1, <1>4, <1>5, <1>6, <1>7, <1>8, <1>9 DEF VmInv, At

\* What qemu has not passed on is lost with it: the host still reads the first lines.
LEMMA IsGone ==
  ASSUME VmInv, QemuGone, qemu \in {"starting", "ready", "wedged"}
  PROVE  VmInv'
<1>1. /\ UNCHANGED <<host, told, fsd, logs, tree, cache>>
      /\ qemu' = "gone" /\ toGuest' = <<>> /\ guest' = [guest EXCEPT !.pc = "off"]
  BY DEF QemuGone
<1>2. PICK n \in 0..Len(toHost) : toHost' = SubSeq(toHost, 1, n)
  BY DEF QemuGone
<1>3. n \in Nat /\ n <= Len(toHost) /\ 1..n \subseteq 1..Len(toHost)
  BY Types
<1>4. /\ toHost' \in Seq(Line) /\ Len(toHost') = n
      /\ \A j \in 1..n : toHost'[j] = toHost[j]
  <2>1. \A j \in 1..n : toHost[j] \in Line
    BY <1>3, Types, ElementOfSeq
  <2>2. /\ SubSeq(toHost, 1, n) \in Seq(Line)
        /\ Len(SubSeq(toHost, 1, n)) = IF 1 <= n THEN n - 1 + 1 ELSE 0
        /\ \A i \in 1..(n - 1 + 1) : SubSeq(toHost, 1, n)[i] = toHost[1 + i - 1]
    BY <1>3, <2>1, SubSeqProperties
  <2> QED
    BY <1>2, <1>3, <2>2
<1>5. /\ n = Len(toHost) => toHost' = toHost
      /\ toHost = <<>> => toHost' = <<>>
  <2>1. n = Len(toHost) => toHost' = toHost
    BY <1>2, Types, SubSeqFull
  <2>2. toHost = <<>> => n = Len(toHost)
    BY <1>3
  <2> QED
    BY <2>1, <2>2
<1>6. /\ guest' \in GuestRec /\ guest'.pc = "off" /\ guest'.op = guest.op
      /\ guest'.floating = guest.floating
  BY <1>1, Types DEF GuestRec, GuestPlaces
<1>7. ~Working' /\ (Quiet => Quiet') /\ (Loaded' <=> Loaded)
  BY <1>1, <1>5, <1>6 DEF Quiet, Working, Loaded
<1>8. Quiet /\ Counted => Counted'
  BY <1>1, <1>5 DEF Quiet, Counted
<1>9. Typed'
  BY <1>1, <1>4, <1>6, EmptySeq DEF VmInv, Typed
<1>10. Machine'
  <2>1. ~At("shares")
    BY DEF VmInv, Machine, At
  <2> QED
    BY <1>1, <1>6, <2>1 DEF VmInv, Machine, At
<1>11. Informed'
  <2>1. ASSUME NEW j \in 1..Len(toHost'), toHost'[j].kind = "ok" PROVE Loaded
    BY <1>3, <1>4, <2>1 DEF VmInv, Informed
  <2>2. Len(toGuest') <= 1
    BY <1>1
  <2>3. host.stage > 0 \/ At("result") => Loaded
    BY DEF VmInv, Informed
  <2>4. At("result")' <=> At("result")
    BY <1>1 DEF At
  <2> QED
    BY <1>1, <1>6, <1>7, <2>1, <2>2, <2>3, <2>4 DEF Informed
<1>12. Served'
  BY <1>1 DEF VmInv, Served, Gone
<1>13. Pausing'
  BY <1>1, <1>7, <1>8 DEF VmInv, Pausing, At
<1>14. Reading => Reading'
  <2> SUFFICES ASSUME Reading PROVE Reading'
    OBVIOUS
  <2>1. \A j \in 1..Len(toHost') : toHost'[j].op = host'.stage
    BY <1>1, <1>3, <1>4 DEF Reading
  <2>2. Asked \/ Handling \/ Lost \/ (Answered /\ n < Len(toHost)) => Lost'
    <3>1. CASE NoAnswer
      BY <1>1, <1>3, <1>4, <1>6, <3>1 DEF Lost, NoAnswer
    <3>2. CASE Answered /\ n < Len(toHost)
      <4>1. \A j \in 1..n : j \in 1..Len(toHost) /\ j # Len(toHost)
        BY <1>3, <3>2, Types
      <4>2. NoAnswer'
        BY <1>4, <3>2, <4>1 DEF Answered, NoAnswer
      <4> QED
        BY <1>1, <1>6, <4>2 DEF Lost
    <3>3. Asked => NoAnswer
      BY DEF Asked, NoAnswer
    <3> QED
      BY <3>1, <3>2, <3>3 DEF Handling, Lost
  <2>3. Answered /\ ~(n < Len(toHost)) => Answered'
    <3> SUFFICES ASSUME Answered, ~(n < Len(toHost)) PROVE Answered'
      OBVIOUS
    <3>1. toHost' = toHost
      BY <1>3, <1>5, Types
    <3> QED
      BY <1>1, <1>7, <3>1 DEF Answered, Counted
  <2> QED
    BY <2>1, <2>2, <2>3 DEF Reading
<1> QED
  BY <1>1, <1>9, <1>10, <1>11, <1>12, <1>13, <1>14 DEF VmInv, At

LEMMA SharesEnd == VmInv /\ ShareEnds => VmInv'
<1> SUFFICES ASSUME VmInv, ShareEnds PROVE VmInv'
  OBVIOUS
<1>1. UNCHANGED <<host, qemu, told, guest, toGuest, toHost, logs, tree, cache>>
  BY DEF ShareEnds, lines
<1>2. /\ fsd' \in [DOMAIN Shares -> {"off", "on", "told", "gone"}]
      /\ \A i \in DOMAIN Shares : fsd'[i] = "told" => fsd[i] = "told"
  BY DEF VmInv, Typed, ShareEnds
<1>3. Typed'
  BY <1>1, <1>2 DEF VmInv, Typed
<1>4. Machine' /\ Informed' /\ Pausing'
  BY <1>1 DEF VmInv, Machine, Informed, Pausing, Quiet, Working, Loaded, Counted, At
<1>5. Served'
  BY <1>1, <1>2 DEF VmInv, Served, Gone
<1>6. Reading => Reading'
  BY <1>1 DEF Reading, Asked, Handling, Answered, Lost, NoAnswer, Counted, Working
<1> QED
  BY <1>1, <1>3, <1>4, <1>5, <1>6 DEF VmInv, At

-----------------------------------------------------------------------------
(***************************************************************************)
(* The guest.                                                              *)
(***************************************************************************)

\* While a request is under way the host waits for its answer, or has given up.
LEMMA Waits ==
  ASSUME VmInv, ~Quiet, host' = host
  PROVE  Pausing'
  BY DEF VmInv, Pausing, At

LEMMA Boots == VmInv /\ Boot => VmInv'
<1> SUFFICES ASSUME VmInv, Boot PROVE VmInv'
  OBVIOUS
<1>1. /\ UNCHANGED <<host, qemu, told, fsd, toGuest, toHost, logs, tree, cache>>
      /\ guest.pc = "boot"
  BY DEF Boot, lines, procs
<1>2. /\ guest' \in GuestRec /\ guest'.pc \in {"serve", "halted"} /\ guest'.op = guest.op
      /\ guest'.floating = guest.floating
  BY Types DEF Boot, GuestRec, GuestPlaces
<1>3. ~Working /\ ~Working' /\ (Quiet' <=> Quiet) /\ (Counted' <=> Counted) /\ (Loaded' <=> Loaded)
  BY <1>1, <1>2 DEF Quiet, Working, Counted, Loaded
<1>4. Typed'
  BY <1>1, <1>2 DEF VmInv, Typed
<1>5. Machine'
  BY <1>1, <1>2, <1>3 DEF VmInv, Machine, At
<1>6. Informed'
  BY <1>1, <1>2, <1>3 DEF VmInv, Informed, At
<1>7. Served'
  BY <1>1 DEF VmInv, Served, Gone
<1>8. Pausing'
  BY <1>1, <1>3 DEF VmInv, Pausing, At
<1>9. Reading => Reading'
  <2>1. (Asked => Asked') /\ (Answered => Answered')
    BY <1>1, <1>3 DEF Asked, Answered
  <2>2. ~Handling /\ ~Lost
    BY <1>1, <1>3 DEF Handling, Lost
  <2> QED
    BY <1>1, <2>1, <2>2 DEF Reading
<1> QED
  BY <1>1, <1>4, <1>5, <1>6, <1>7, <1>8, <1>9 DEF VmInv, At

\* The one request that the guest may find.
LEMMA TheRequest ==
  ASSUME VmInv, toGuest # <<>>
  PROVE  /\ Len(toGuest) = 1 /\ Head(toGuest) = toGuest[1] /\ Head(toGuest) \in RequestRec
         /\ Tail(toGuest) = <<>> /\ ~Quiet
         /\ At("read") => Asked /\ host.stage = toGuest[1].op
<1>1. Len(toGuest) = 1
  <2> DEFINE n == Len(toGuest)
  <2>1. toGuest \in Seq(RequestRec)
    BY Types
  <2>2. n \in Nat
    BY <2>1, LenProperties
  <2>3. n # 0
    BY <2>1, EmptySeq
  <2>4. n <= 1
    BY DEF VmInv, Informed
  <2> HIDE DEF n
  <2>5. n = 1
    BY <2>2, <2>3, <2>4
  <2> QED
    BY <2>5 DEF n
<1>2. /\ Head(toGuest) \in RequestRec /\ Tail(toGuest) \in Seq(RequestRec)
      /\ Len(Tail(toGuest)) = Len(toGuest) - 1
  BY Types, HeadTailProperties
<1>3. Tail(toGuest) = <<>>
  <2> DEFINE rest == Tail(toGuest)
  <2>1. rest \in Seq(RequestRec) /\ Len(rest) = 0
    BY <1>1, <1>2
  <2> HIDE DEF rest
  <2>2. rest = <<>>
    BY <2>1, EmptySeq
  <2> QED
    BY <2>2 DEF rest
<1>4. At("read") => Asked
  BY DEF VmInv, Reading, Handling, Answered, Lost
<1> QED
  BY <1>1, <1>2, <1>3, <1>4 DEF Asked, Quiet

\* A line that the guest adds is the last one.
LEMMA LastLine ==
  ASSUME VmInv, NEW l \in Line, toHost' = Append(toHost, l)
  PROVE  /\ toHost' \in Seq(Line) /\ Len(toHost') = Len(toHost) + 1 /\ Len(toHost) \in Nat
         /\ toHost'[Len(toHost')] = l /\ toHost' # <<>>
         /\ \A j \in 1..Len(toHost) : toHost'[j] = toHost[j]
         /\ \A j \in 1..Len(toHost') : j = Len(toHost') \/ j \in 1..Len(toHost)
<1>1. /\ Append(toHost, l) \in Seq(Line) /\ Len(Append(toHost, l)) = Len(toHost) + 1
      /\ Append(toHost, l)[Len(toHost) + 1] = l
      /\ \A j \in 1..Len(toHost) : Append(toHost, l)[j] = toHost[j]
      /\ Len(toHost) \in Nat
  BY Types, AppendProperties
<1>2. toHost' # <<>>
  BY <1>1, EmptySeq
<1> QED
  BY <1>1, <1>2

LEMMA Updates == VmInv /\ UpdateStore => VmInv'
<1> SUFFICES ASSUME VmInv, UpdateStore PROVE VmInv'
  OBVIOUS
<1> DEFINE l == [kind |-> "ok", from |-> "stage", op |-> 0]
<1>1. /\ UNCHANGED <<host, qemu, told, fsd, logs, tree, cache>> /\ guest.pc = "serve"
      /\ toGuest # <<>> /\ toGuest[1].op = 0 /\ toGuest' = <<>>
      /\ guest' = LoadFloating(toGuest[1].floating) /\ toHost' = Append(toHost, l)
  <2>1. toGuest # <<>>
    BY DEF UpdateStore
  <2> QED
    BY <2>1, TheRequest DEF UpdateStore, procs
<1>2. toGuest[1].floating = Finished
  BY <1>1 DEF VmInv, Informed
<1>3. /\ guest' \in GuestRec /\ guest'.pc = "serve" /\ guest'.floating = Finished
  BY <1>1, <1>2, Types DEF LoadFloating, GuestRec
<1>4. Loaded' /\ ~Working /\ ~Working' /\ ~Quiet
  BY <1>1, <1>3 DEF Loaded, Working, Quiet
<1>5. l \in Line /\ l.kind = "ok" /\ l.op = 0
  BY Types DEF Line, Threads
<1> HIDE DEF l
<1>6. /\ toHost' \in Seq(Line) /\ Len(toHost') = Len(toHost) + 1 /\ Len(toHost) \in Nat
      /\ toHost'[Len(toHost')] = l /\ toHost' # <<>>
      /\ \A j \in 1..Len(toHost) : toHost'[j] = toHost[j]
  BY <1>1, <1>5, LastLine
<1>7. Typed'
  BY <1>1, <1>3, <1>6, EmptySeq DEF VmInv, Typed
<1>8. Machine'
  BY <1>1, <1>3, <1>4 DEF VmInv, Machine, At
<1>9. Informed'
  BY <1>1, <1>3, <1>4 DEF Informed
<1>10. Served'
  BY <1>1 DEF VmInv, Served, Gone
<1>11. Pausing'
  BY <1>1, <1>4, Waits
<1>12. At("read") => Reading'
  <2> SUFFICES ASSUME At("read") PROVE Reading'
    OBVIOUS
  <2>1. Asked /\ host.stage = 0
    BY <1>1, TheRequest
  <2>2. toHost = <<>> /\ tree = Up(0) /\ Counted
    BY <2>1 DEF Asked
  <2>3. Len(toHost') = 1 /\ toHost'[1] = l
    BY <1>6, <2>2
  <2>4. Counted'
    <3>1. \A t : Pend(toHost', t) = Pend(toHost, t)
      BY <1>1, <1>5, PendAppend, Types
    <3> QED
      BY <1>1, <2>2, <3>1 DEF Counted
  <2>5. \A j \in 1..Len(toHost') : j = 1
    BY <2>3
  <2>6. Answered'
    BY <1>1, <1>4, <1>5, <1>6, <2>1, <2>2, <2>3, <2>4, <2>5 DEF Answered
  <2> QED
    BY <1>1, <1>5, <2>1, <2>3, <2>5, <2>6 DEF Reading
<1> QED
  BY <1>1, <1>7, <1>8, <1>9, <1>10, <1>11, <1>12 DEF VmInv, At

\* The guest's store has all that a stage needs: what this run finished, and the cache.
LEMMA RunsStage == VmInv /\ RunStage => VmInv'
<1> SUFFICES ASSUME VmInv, RunStage PROVE VmInv'
  OBVIOUS
<1> DEFINE k == toGuest[1].op
<1>1. /\ UNCHANGED <<host, qemu, told, fsd, toHost, logs, cache>> /\ guest.pc = "serve"
      /\ toGuest # <<>> /\ k > 0 /\ toGuest' = <<>> /\ tree' = Append(tree, 0)
      /\ guest' = [guest EXCEPT !.op = k,
                     !.pc = IF Stages[k].needs \cup {Build} \subseteq Visible
                            THEN "run" ELSE "missing"]
  <2>1. toGuest # <<>>
    BY DEF RunStage
  <2> QED
    BY <2>1, TheRequest DEF RunStage, procs
<1>2. k \in 0..N /\ k \in 1..N
  BY <1>1, TheRequest, Types DEF RequestRec
<1>3. Loaded
  BY <1>1 DEF VmInv, Informed
<1>4. Stages[k].needs \cup {Build} \subseteq Visible
  <2>1. Stages[k].needs \subseteq Finished \cup Stored
    BY <1>2, Sizes
  <2> QED
    BY <1>3, <2>1, VmAssumption DEF Visible, Loaded
<1>5. guest' = [guest EXCEPT !.op = k, !.pc = "run"]
  BY <1>1, <1>4
<1> HIDE DEF k
<1>6. /\ guest' \in GuestRec /\ guest'.pc = "run" /\ guest'.op = k
      /\ guest'.floating = guest.floating
  BY <1>2, <1>5, Types DEF GuestRec, GuestPlaces
<1>7. Loaded' /\ Working' /\ ~Quiet
  BY <1>1, <1>3, <1>6 DEF Loaded, Working, Quiet
<1>8. tree' \in Seq(0..N)
  <2>1. 0 \in 0..N
    BY Sizes
  <2> QED
    BY <1>1, <2>1, Types, AppendProperties
<1>9. Typed'
  BY <1>1, <1>6, <1>8, EmptySeq DEF VmInv, Typed
<1>10. Machine'
  BY <1>1, <1>6, <1>7 DEF VmInv, Machine, At
<1>11. Informed'
  BY <1>1, <1>6, <1>7 DEF Informed
<1>12. Served'
  BY <1>1 DEF VmInv, Served, Gone
<1>13. Pausing'
  BY <1>1, <1>7, Waits
<1>14. At("read") => Reading'
  <2> SUFFICES ASSUME At("read") PROVE Reading'
    OBVIOUS
  <2>1. Asked /\ host.stage = k
    BY <1>1, TheRequest DEF k
  <2>2. toHost = <<>> /\ tree = Up(k - 1) /\ Counted
    BY <1>1, <1>2, <2>1 DEF Asked
  <2>3. Handling'
    BY <1>1, <1>6, <1>7, <2>1, <2>2 DEF Handling, NoAnswer, Counted
  <2> QED
    BY <1>1, <2>2, <2>3 DEF Reading
<1> QED
  BY <1>1, <1>9, <1>10, <1>11, <1>12, <1>13, <1>14 DEF VmInv, At

\* Who is at work for a host that waits handles its request.
LEMMA AtWork ==
  ASSUME VmInv, Working
  PROVE  ~Quiet /\ Loaded /\ guest.pc = "run" /\ qemu = "ready" /\ (At("read") => Handling)
<1>1. At("read") => Handling
  BY DEF VmInv, Reading, Asked, Answered, Lost, Working
<1> QED
  BY <1>1 DEF VmInv, Informed, Machine, Quiet, Working

LEMMA Logs == VmInv /\ GuestLogs => VmInv'
<1> SUFFICES ASSUME VmInv, GuestLogs PROVE VmInv'
  OBVIOUS
<1>1. PICK t \in Threads :
         /\ logs' = [logs EXCEPT ![t].written = @ + 1]
         /\ toHost' = Append(toHost, [kind |-> "log", from |-> t, op |-> guest.op])
  BY DEF GuestLogs
<1> DEFINE l == [kind |-> "log", from |-> t, op |-> guest.op]
<1>2. UNCHANGED <<host, qemu, told, fsd, guest, toGuest, tree, cache>> /\ Working
  BY DEF GuestLogs, procs, Working
<1>3. ~Quiet /\ Loaded /\ guest.pc = "run" /\ qemu = "ready" /\ (At("read") => Handling)
  BY <1>2, AtWork
<1>4. l \in Line /\ l.kind = "log" /\ l.op = guest.op /\ l.from = t /\ toHost' = Append(toHost, l)
  BY <1>1, Types DEF Line, GuestRec
<1> HIDE DEF l
<1>5. /\ toHost' \in Seq(Line) /\ toHost'[Len(toHost')] = l
      /\ \A j \in 1..Len(toHost) : toHost'[j] = toHost[j]
      /\ \A j \in 1..Len(toHost') : j = Len(toHost') \/ j \in 1..Len(toHost)
  BY <1>4, LastLine
<1>6. /\ logs' \in [Threads -> Log]
      /\ \A s \in Threads : /\ logs[s].written \in Nat /\ logs[s].shown \in Nat
                            /\ logs'[s].shown = logs[s].shown
                            /\ logs'[s].written = IF s = t THEN logs[s].written + 1
                                                  ELSE logs[s].written
  <2>1. logs \in [Threads -> Log] /\ logs[t] \in Log
    BY Types
  <2>2. [logs[t] EXCEPT !.written = @ + 1] \in Log
    BY <2>1 DEF Log
  <2>3. logs' = [logs EXCEPT ![t] = [logs[t] EXCEPT !.written = @ + 1]]
    BY <1>1, <2>1
  <2>4. \A s \in Threads : logs[s].written \in Nat /\ logs[s].shown \in Nat
    BY <2>1 DEF Log
  <2>5. \A s \in Threads : /\ logs'[s].shown = logs[s].shown
                           /\ logs'[s].written = IF s = t THEN logs[s].written + 1
                                                 ELSE logs[s].written
    BY <2>1, <2>3 DEF Log
  <2>6. logs' \in [Threads -> Log]
    BY <2>1, <2>2, <2>3
  <2> QED
    BY <2>4, <2>5, <2>6
<1>7. Typed'
  BY <1>2, <1>5, <1>6 DEF VmInv, Typed
<1>8. Machine'
  BY <1>2, <1>3 DEF VmInv, Machine, Working, At
<1>9. Informed'
  BY <1>2, <1>3 DEF VmInv, Informed, Loaded, Working, At
<1>10. Served'
  BY <1>2 DEF VmInv, Served, Gone
<1>11. Pausing'
  BY <1>2, <1>3, Waits
<1>12. At("read") => Reading'
  <2> SUFFICES ASSUME At("read") PROVE Reading'
    OBVIOUS
  <2>1. Handling /\ guest.op = host.stage /\ Reading
    BY <1>3 DEF Handling, VmInv
  <2>2. Counted'
    <3>1. Counted
      BY <2>1 DEF Handling
    <3>2. \A s : Pend(toHost', s) = IF t = s THEN Pend(toHost, s) + 1 ELSE Pend(toHost, s)
      BY <1>4, PendAppend, Types
    <3>3. \A s : Pend(toHost, s) \in Nat
      BY Types, FromFinite
    <3> QED
      BY <1>6, <3>1, <3>2, <3>3 DEF Counted
  <2>3. NoAnswer'
    <3>1. NoAnswer
      BY <2>1 DEF Handling
    <3> QED
      BY <1>4, <1>5, <3>1 DEF NoAnswer
  <2>4. Handling'
    BY <1>2, <2>1, <2>2, <2>3 DEF Handling, Working
  <2>5. \A j \in 1..Len(toHost') : toHost'[j].op = host'.stage
    BY <1>2, <1>4, <1>5, <2>1 DEF Reading
  <2> QED
    BY <2>4, <2>5 DEF Reading
<1> QED
  BY <1>2, <1>7, <1>8, <1>9, <1>10, <1>11, <1>12 DEF VmInv, At

LEMMA StagesEnd == VmInv /\ StageEnds => VmInv'
<1> SUFFICES ASSUME VmInv, StageEnds PROVE VmInv'
  OBVIOUS
<1>1. PICK kind \in {"ok", "failed", "error"} :
         /\ toHost' = Append(toHost, [kind |-> kind, from |-> "stage", op |-> guest.op])
         /\ IF kind = "ok" THEN tree' = [tree EXCEPT ![Len(tree)] = guest.op] ELSE tree' = tree
  BY DEF StageEnds, Answer
<1> DEFINE l == [kind |-> kind, from |-> "stage", op |-> guest.op]
<1>2. UNCHANGED <<host, qemu, told, fsd, toGuest, logs, cache>> /\ Working
      /\ guest' = [guest EXCEPT !.pc = "serve"]
  BY DEF StageEnds, procs, Working
<1>3. ~Quiet /\ Loaded /\ guest.pc = "run" /\ qemu = "ready" /\ (At("read") => Handling)
  BY <1>2, AtWork
<1>4. l \in Line /\ l.kind = kind /\ l.op = guest.op /\ toHost' = Append(toHost, l)
  BY <1>1, Types DEF Line, GuestRec, Threads
<1> HIDE DEF l
<1>5. /\ toHost' \in Seq(Line) /\ toHost'[Len(toHost')] = l /\ toHost' # <<>>
      /\ Len(toHost') = Len(toHost) + 1 /\ Len(toHost) \in Nat
      /\ \A j \in 1..Len(toHost) : toHost'[j] = toHost[j]
      /\ \A j \in 1..Len(toHost') : j = Len(toHost') \/ j \in 1..Len(toHost)
  BY <1>4, LastLine
<1>6. /\ guest' \in GuestRec /\ guest'.pc = "serve" /\ guest'.op = guest.op
      /\ guest'.floating = guest.floating /\ guest.op \in 0..N
  BY <1>2, Types DEF GuestRec, GuestPlaces
<1>7. ~Working' /\ Loaded'
  BY <1>3, <1>6 DEF Working, Loaded
<1>8. tree' \in Seq(0..N)
  <2>1. CASE Len(tree) \in 1..Len(tree)
    <3>1. tree \in Seq(0..N) /\ guest.op \in 0..N
      BY <1>6, Types
    <3>2. [tree EXCEPT ![Len(tree)] = guest.op] \in Seq(0..N)
      BY <2>1, <3>1, ExceptSeq
    <3> QED
      BY <1>1, <3>1, <3>2
  <2>2. CASE Len(tree) \notin 1..Len(tree)
    <3>1. DOMAIN tree = 1..Len(tree) /\ tree \in [1..Len(tree) -> 0..N]
      BY Types, LenProperties
    <3>2. [tree EXCEPT ![Len(tree)] = guest.op] = tree
      BY <2>2, <3>1
    <3> QED
      BY <1>1, <3>2, Types
  <2> QED
    BY <2>1, <2>2
<1>9. Typed'
  BY <1>2, <1>5, <1>6, <1>8 DEF VmInv, Typed
<1>10. Machine'
  BY <1>2, <1>3, <1>6 DEF VmInv, Machine, Working, At
<1>11. Informed'
  BY <1>2, <1>3, <1>6, <1>7 DEF VmInv, Informed, Loaded, Working, At
<1>12. Served'
  BY <1>2 DEF VmInv, Served, Gone
<1>13. Pausing'
  BY <1>2, <1>3, Waits
<1>14. At("read") => Reading'
  <2> SUFFICES ASSUME At("read") PROVE Reading'
    OBVIOUS
  <2>1. /\ Reading /\ NoAnswer /\ Counted /\ guest.op = host.stage /\ host.stage > 0
        /\ tree = Append(Up(host.stage - 1), 0) /\ toGuest = <<>>
    BY <1>3 DEF Handling, VmInv
  <2>2. Counted'
    <3>1. \A t : Pend(toHost', t) = Pend(toHost, t)
      BY <1>4, PendAppend, Types
    <3> QED
      BY <1>2, <2>1, <3>1 DEF Counted
  <2>3. \A j \in 1..Len(toHost') : toHost'[j].kind = "log" <=> j # Len(toHost')
    <3>1. ASSUME NEW j \in 1..Len(toHost) PROVE toHost'[j].kind = "log" /\ j # Len(toHost')
      BY <1>5, <2>1 DEF NoAnswer
    <3>2. toHost'[Len(toHost')].kind # "log"
      BY <1>4, <1>5
    <3> QED
      BY <1>5, <3>1, <3>2
  <2>4. kind = "ok" => tree' = Up(host.stage)
    BY <1>1, <2>1, Ups, Types
  <2>5. Answered'
    BY <1>2, <1>4, <1>5, <1>7, <2>1, <2>2, <2>3, <2>4 DEF Answered
  <2>6. \A j \in 1..Len(toHost') : toHost'[j].op = host'.stage
    BY <1>2, <1>4, <1>5, <2>1 DEF Reading
  <2> QED
    BY <2>5, <2>6 DEF Reading
<1> QED
  BY <1>2, <1>9, <1>10, <1>11, <1>12, <1>13, <1>14 DEF VmInv, At

-----------------------------------------------------------------------------
LEMMA Steps == VmInv /\ [Next]_vars => VmInv'
<1> SUFFICES ASSUME VmInv, [Next]_vars PROVE VmInv'
  OBVIOUS
<1>1. CASE HostStep
  BY <1>1, StartsShare, StartsQemu, WaitsQmp, Sends, ReadsLog, ReadsAnswer, ReadsEnd, Goes,
     CleansTree, Stops DEF HostStep
<1>2. CASE Killed
  BY <1>2, Stops
<1>3. CASE GuestStep \/ GuestLogs
  BY <1>3, Boots, Updates, RunsStage, StagesEnd, Logs DEF GuestStep
<1>4. CASE QemuReady \/ QemuWedges \/ ShareEnds
  BY <1>4, GetsReady, Wedges, SharesEnd
<1>5. CASE QemuCrashes \/ QemuEnds
  BY <1>5, IsGone DEF QemuCrashes, QemuEnds, Ending
<1>6. CASE UNCHANGED vars
  BY <1>6 DEF vars, VmInv, Typed, Machine, Informed, Served, Pausing, Reading, Asked, Handling,
     Answered, Lost, NoAnswer, Counted, Quiet, Working, Loaded, Gone, At
<1> QED
  BY <1>1, <1>2, <1>3, <1>4, <1>5, <1>6 DEF Next, Over, Hanging

\* A pipeline that build_stages hands to a virtual machine is built as on the host, for
\* any stages, any number of log lines of the two threads of the guest, and wherever the
\* VM crashes, wedges or halts and osbuild is killed: the store of the guest has what each
\* stage needs, answers belong to the request that monitored_request waits for, what is
\* committed or returned holds whole stages in order, the monitor has all lines of a stage
\* that is over, and no directory is taken away under a VM that was not told to end.
THEOREM AsOnHost == Spec => []BuiltAsOnHost
<1>1. VmInv => BuiltAsOnHost
  <2> SUFFICES ASSUME VmInv PROVE BuiltAsOnHost
    OBVIOUS
  <2>1. TypeOK
    BY DEF VmInv, Typed, HostRec, GuestRec, Informed, TypeOK
  <2>2. InputsFound
    BY DEF VmInv, Informed, InputsFound
  <2>3. HostAlone
    <3>1. host.pc \in {"result", "clean", "update"} => guest.pc # "run" /\ toHost = <<>>
      BY DEF VmInv, Pausing, Quiet, Working
    <3>2. DOMAIN toHost = 1..Len(toHost)
      BY Types, LenProperties
    <3> QED
      BY <3>1, <3>2 DEF VmInv, Reading, HostAlone
  <2>4. TreesRight
    BY DEF VmInv, Pausing, TreesRight, Up
  <2>5. LogsShown
    <3> SUFFICES ASSUME host.pc \in {"result", "clean"}, NEW t \in Threads
                 PROVE  logs[t].shown = logs[t].written
      BY DEF LogsShown
    <3>1. Quiet /\ Counted
      BY DEF VmInv, Pausing
    <3>2. logs[t].written = logs[t].shown + 0 /\ logs[t].shown \in Nat
      BY <3>1, PendEmpty, Types DEF Quiet, Counted, Log
    <3> QED
      BY <3>2
  <2>6. SharesOutliveVm
    BY DEF VmInv, Served, Gone, SharesOutliveVm
  <2> QED
    BY <2>1, <2>2, <2>3, <2>4, <2>5, <2>6 DEF BuiltAsOnHost
<1> QED
  BY <1>1, Starts, Steps, PTL DEF Spec
=============================================================================
