--------------------------- MODULE StageRunProofs ---------------------------
(***************************************************************************)
(* Stage.run, for any number of services and any way their resources rest  *)
(* on each other: unless something is killed, the stage has all it needs   *)
(* and nothing is left behind.  A whole run of a stage is a run of its     *)
(* services, so that holds for it; besides, the store endpoint outlives    *)
(* its clients, and no tree is mounted when the directory is deleted.      *)
(* Interrupts may come anywhere, in __enter__ and __exit__ as well.        *)
(*                                                                         *)
(* The inductive invariant of the services says that they are a stack.     *)
(* Those below the top one hold their resources and wait for calls, those  *)
(* above it are over, and only the top one is being called or being        *)
(* stopped.  When the manager's __exit__ was cut short the stack stays as  *)
(* it is; only the service that was waited for may still be at work, and   *)
(* it rests on services that hold their resources.                         *)
(***************************************************************************)
EXTENDS StageRun, TLAPS

\* The sockets that are open: all that are registered, but for the one that is
\* being waited for.
Sockets == sock = IF host = "join" THEN 1..(up - 1) ELSE 1..up

\* A service is being waited for only while one is registered.
Registered == host \in {"wait", "join"} => up > 0

\* Where the host is agrees with the number of services.
Control ==
    /\ Registered
    /\ host = "run" => up = N
    /\ host \in {"enter", "loop", "done"} => up = 0
    /\ host = "done" => loop = "ended"

Below == \A i \in Service : i < up => svc[i] = "serving" /\ res[i] = "held"

\* The service that an interrupted __exit__ was waiting for, or would have been.
Waited(i) == host = "cut" /\ i = up + 1

Above ==
    \A i \in Service : i > up /\ ~Waited(i) =>
        /\ Over(i)
        /\ host \in {"enter", "start", "wait"} => svc[i] = "off" /\ reply[i] = "none"

\* It has its resource only while what it may rest on is held.
Popped ==
    \A i \in Service : Waited(i) =>
        /\ res[i] # "leaked"
        /\ svc[i] \in {"off", "gone", "orphan"} => res[i] = "none"
        /\ ~Over(i) /\ up > 0 => svc[up] = "serving" /\ res[up] = "held"

Top ==
    up > 0 =>
        /\ res[up] # "leaked"
        /\ svc[up] \notin {"off", "orphan"}
        /\ svc[up] = "called" => res[up] = "none" /\ reply[up] = "none"
        /\ svc[up] = "gone" => res[up] = "none" /\ host = "join"
        /\ svc[up] = "serving" /\ reply[up] = "ok" => res[up] = "held"
        /\ host \in {"start", "run"} => svc[up] = "serving" /\ res[up] = "held"

Stack == Sockets /\ Control /\ Below /\ Above /\ Popped /\ Top
IInv == TypeOK /\ Registered /\ (~killed => Stack)

-----------------------------------------------------------------------------
(* Nothing has been started: the invariant holds initially. *)
LEMMA InitIInv == Init => IInv
<1> SUFFICES ASSUME Init PROVE IInv
  OBVIOUS
<1> USE ServiceAssumption DEF Init
<1>1. TypeOK /\ Registered
  <2>1. up \in 0..N /\ sock \subseteq Service
    OBVIOUS
  <2>2. /\ svc \in [Service -> {"off", "called", "serving", "gone", "orphan"}]
        /\ reply \in [Service -> {"none", "ok", "exception"}]
        /\ res \in [Service -> {"none", "held", "leaked"}]
    OBVIOUS
  <2>3. killed \in BOOLEAN
    BY Zenon
  <2> QED
    BY <2>1, <2>2, <2>3 DEF TypeOK, Registered
<1>2. Sockets /\ Control
  <2>1. 1..0 = {} /\ host = "enter"
    OBVIOUS
  <2>2. Sockets
    BY <2>1 DEF Sockets
  <2> QED
    BY <2>1, <2>2 DEF Control, Registered
<1>3. Below /\ Above /\ Popped /\ Top
  BY DEF Below, Above, Popped, Waited, Over, Top, Service
<1> QED
  BY <1>1, <1>2, <1>3 DEF IInv, Stack

(* Every step keeps the types. *)
LEMMA NextTypeOK ==
    TypeOK /\ Registered /\ [Next]_vars => TypeOK' /\ Registered'
<1> SUFFICES ASSUME TypeOK, Registered, [Next]_vars
             PROVE  TypeOK' /\ Registered'
  OBVIOUS
<1> USE ServiceAssumption DEF TypeOK, Registered, Service
<1>1. CASE StartService
  <2>1. up + 1 \in Service
    BY <1>1 DEF StartService
  <2>2. CASE host' = "wait"
    <3>1. up' = up + 1 /\ up' \in 0..N
      BY <1>1, <2>1, <2>2 DEF StartService
    <3>2. /\ sock' = sock \cup {up + 1}
          /\ svc' = [svc EXCEPT ![up + 1] = "called"]
          /\ UNCHANGED <<loop, reply, res, killed>>
      BY <1>1, <2>2 DEF StartService
    <3>3. /\ sock' \subseteq Service
          /\ svc' \in [Service -> {"off", "called", "serving", "gone", "orphan"}]
      BY <2>1, <3>2
    <3> QED
      BY <2>2, <3>1, <3>2, <3>3
  <2>3. CASE host' # "wait"
    BY <1>1, <2>3 DEF StartService
  <2> QED
    BY <2>2, <2>3
<1>2. CASE StopService
  <2>1. sock' \subseteq sock
    BY <1>2 DEF StopService
  <2> QED
    BY <1>2, <2>1 DEF StopService
<1>3. CASE Join
  BY <1>3 DEF Join
<1>4. CASE \/ EnterManager \/ Answer \/ RunStage \/ StageEnds \/ StopLoop \/ Done
           \/ LoopEnds \/ Interrupt \/ EnterInterrupted \/ Kill
  BY <1>4
  DEF EnterManager, Answer, RunStage, StageEnds, StopLoop, Done, LoopEnds,
      Interrupt, EnterInterrupted, Kill
<1>9. CASE StartInterrupted
  <2>1. up + 1 \in Service /\ host' = "unwind"
    BY <1>9 DEF StartInterrupted
  <2>2. UNCHANGED <<loop, reply, res, killed>>
    BY <1>9 DEF StartInterrupted
  <2>3. up' \in 0..N /\ sock' \subseteq Service
    <3>1. CASE up' = up /\ sock' = sock
      BY <3>1
    <3>2. CASE up' = up + 1 /\ sock' = sock \cup {up + 1}
      BY <3>2, <2>1
    <3> QED
      BY <3>1, <3>2, <1>9 DEF StartInterrupted
  <2>4. svc' \in [Service -> {"off", "called", "serving", "gone", "orphan"}]
    BY <1>9, <2>1 DEF StartInterrupted
  <2> QED
    BY <2>1, <2>2, <2>3, <2>4
<1>10. CASE ExitInterrupted
  BY <1>10 DEF ExitInterrupted
<1>5. ASSUME NEW i \in Service, Dispatch(i) PROVE TypeOK' /\ Registered'
  BY <1>5 DEF Dispatch
<1>6. ASSUME NEW i \in Service, Stop(i) PROVE TypeOK' /\ Registered'
  BY <1>6 DEF Stop
<1>7. ASSUME NEW i \in Service, Die(i) PROVE TypeOK' /\ Registered'
  BY <1>7 DEF Die
<1>8. CASE Finished \/ UNCHANGED vars
  BY <1>8 DEF Finished, vars
<1> QED
  BY <1>1, <1>2, <1>3, <1>4, <1>5, <1>6, <1>7, <1>8, <1>9, <1>10
  DEF Next, Host, Interrupts, Serve

(* Every step but a kill keeps the stack of services. *)
LEMMA NextStack == TypeOK /\ Stack /\ ~killed /\ [Next]_vars => killed' \/ Stack'
<1> SUFFICES ASSUME TypeOK, Stack, ~killed, [Next]_vars, ~killed' PROVE Stack'
  OBVIOUS
<1>0. CASE Finished \/ UNCHANGED vars
  <2>1. UNCHANGED <<host, loop, up, sock, svc, reply, res>>
    BY <1>0 DEF Finished, vars
  <2>2. (Sockets' = Sockets) /\ (Control' = Control) /\ (Below' = Below)
    BY <2>1 DEF Sockets, Control, Registered, Below
  <2>3. (Above' = Above) /\ (Popped' = Popped) /\ (Top' = Top)
    BY <2>1 DEF Above, Popped, Top, Waited, Over
  <2> QED
    BY <2>2, <2>3 DEF Stack
<1> USE ServiceAssumption, UsesAssumption
    DEF Stack, TypeOK, Sockets, Registered, Control, Below, Above, Popped, Waited,
        Over, Top, Service
<1>1. CASE StartService \/ StartInterrupted
  <2>1. CASE up' = up /\ svc' = svc
    BY <1>1, <2>1 DEF StartService, StartInterrupted
  <2>2. CASE up' = up + 1
    <3>1. up + 1 \in Service /\ up' \in 0..N
      BY <1>1, <2>2 DEF StartService, StartInterrupted
    <3>2. /\ host = "start" /\ host' \in {"wait", "unwind"}
          /\ sock' = sock \cup {up'}
          /\ UNCHANGED <<loop, reply, res>>
      BY <1>1, <2>2 DEF StartService, StartInterrupted
    <3>3. \/ svc' = [svc EXCEPT ![up'] = "called"]
          \/ svc' = [svc EXCEPT ![up'] = "serving"] /\ host' = "unwind"
      BY <1>1, <2>2 DEF StartService, StartInterrupted
    <3>4. sock' = 1..up'
      BY <3>1, <3>2, <2>2
    <3>5. Below'
      BY <3>1, <3>2, <3>3, <2>2
    <3>6. Above'
      BY <3>1, <3>2, <3>3, <2>2
    <3>7. Top'
      BY <3>1, <3>2, <3>3, <2>2
    <3>8. host' \notin {"join", "cut"}
      BY <3>2
    <3>9. Popped'
      BY <3>8
    <3>10. Control'
      BY <3>1, <3>2, <2>2
    <3>11. Sockets'
      BY <3>4, <3>8
    <3> QED
      BY <3>5, <3>6, <3>7, <3>9, <3>10, <3>11
  <2>3. CASE up' = up /\ svc' = [svc EXCEPT ![up + 1] = "orphan"]
    <3>1. /\ host = "start" /\ host' = "unwind" /\ up + 1 \in Service
          /\ UNCHANGED <<loop, up, sock, reply, res>>
      BY <1>1, <2>3 DEF StartService, StartInterrupted
    <3>2. \A i \in Service : i <= up => svc'[i] = svc[i]
      BY <2>3, <3>1
    <3>3. \A i \in Service : i > up => svc'[i] \in {"off", "gone", "orphan"}
      BY <2>3, <3>1
    <3> QED
      BY <3>1, <3>2, <3>3
  <2> QED
    BY <1>1, <2>1, <2>2, <2>3 DEF StartService, StartInterrupted
<1>2. CASE Answer
  BY <1>2 DEF Answer
<1>3. CASE RunStage
  BY <1>3 DEF RunStage
<1>4. CASE StageEnds \/ EnterManager \/ LoopEnds
  BY <1>4 DEF StageEnds, EnterManager, LoopEnds
<1>5. CASE StopService
  BY <1>5 DEF StopService, NextToStop
<1>6. CASE Join
  BY <1>6 DEF Join, Joined
<1>7. CASE StopLoop \/ Done
  BY <1>7 DEF StopLoop, Done
<1>8. CASE Interrupt \/ EnterInterrupted
  BY <1>8 DEF Interrupt, EnterInterrupted
<1>9. CASE ExitInterrupted
  <2>0. host' = "cut" /\ UNCHANGED <<loop, sock, svc, reply, res>>
    BY <1>9 DEF ExitInterrupted
  <2>1. CASE host = "join"
    <3>1. up \in Service /\ up' = up - 1 /\ up' \in 0..N
      BY <1>9, <2>1 DEF ExitInterrupted
    <3>2. up' > 0 => svc[up'] = "serving" /\ res[up'] = "held"
      BY <3>1
    <3>3. Sockets' /\ Control' /\ Below'
      BY <2>0, <2>1, <3>1
    <3>4. Above'
      BY <2>0, <2>1, <3>1
    <3>5. Popped'
      BY <2>0, <2>1, <3>1, <3>2
    <3>6. Top'
      BY <2>0, <3>1, <3>2
    <3> QED
      BY <3>3, <3>4, <3>5, <3>6
  <2>2. CASE host # "join"
    <3>1. UNCHANGED up /\ host \in {"unwind", "loop"}
      BY <1>9, <2>2 DEF ExitInterrupted
    <3> QED
      BY <2>0, <3>1
  <2> QED
    BY <2>1, <2>2
<1>10. CASE Kill
  BY <1>10 DEF Kill
<1>11. ASSUME NEW i \in Service, Dispatch(i) PROVE Stack'
  <2>0. /\ svc[i] = "called" /\ UNCHANGED <<host, loop, up, sock>>
        /\ svc' = [svc EXCEPT ![i] = "serving"]
    BY <1>11 DEF Dispatch
  <2>1. PICK r \in {"ok", "exception"}, got \in {"held", "none"} :
          /\ r = "ok" => got = "held"
          /\ res' = [res EXCEPT ![i] = got]
          /\ reply' = [reply EXCEPT ![i] = IF i \in sock THEN r ELSE "none"]
    BY <1>11 DEF Dispatch
  <2>2. i = up \/ Waited(i)
    <3>1. ~(i < up)
      BY <2>0
    <3>2. i > up => Waited(i)
      BY <2>0
    <3> QED
      BY <3>1, <3>2
  <2>3. CASE i = up
    <3>1. host \notin {"start", "run"}
      BY <2>0, <2>3
    <3>2. Popped'
      BY <2>0, <2>1, <2>3
    <3> QED
      BY <2>0, <2>1, <2>3, <3>1, <3>2
  <2>4. CASE Waited(i)
    <3>1. i # up /\ host = "cut"
      BY <2>4
    <3>2. Below' /\ Above' /\ Top'
      BY <2>0, <2>1, <2>4, <3>1
    <3>3. Popped'
      BY <2>0, <2>1, <2>4, <3>1
    <3> QED
      BY <2>0, <3>2, <3>3
  <2> QED
    BY <2>2, <2>3, <2>4
<1>12. ASSUME NEW i \in Service, Stop(i) PROVE Stack'
  <2>0. /\ svc[i] \in {"serving", "orphan"} /\ i \notin sock
        /\ UNCHANGED <<host, loop, up, sock, reply>>
        /\ svc' = [svc EXCEPT ![i] = "gone"]
    BY <1>12 DEF Stop
  <2>1. i > up \/ (i = up /\ host = "join")
    BY <2>0
  <2>2. ~Busy(i)
    BY <2>1 DEF Busy
  <2>3. res' = [res EXCEPT ![i] = "none"]
    BY <1>12, <2>2 DEF Stop
  <2>4. CASE i = up /\ host = "join"
    BY <2>0, <2>3, <2>4
  <2>5. CASE i > up
    <3>1. host \notin {"enter", "start", "wait"}
      BY <2>0, <2>5
    <3>2. Below' /\ Top'
      BY <2>0, <2>3, <2>5
    <3>3. Above' /\ Popped'
      BY <2>0, <2>3, <2>5, <3>1
    <3> QED
      BY <2>0, <3>2, <3>3
  <2> QED
    BY <2>1, <2>4, <2>5
<1>13. ASSUME NEW i \in Service, Die(i) PROVE Stack'
  BY <1>13 DEF Die
<1> QED
  BY <1>0, <1>1, <1>2, <1>3, <1>4, <1>5, <1>6, <1>7, <1>8, <1>9, <1>10, <1>11,
     <1>12, <1>13
  DEF Next, Host, Interrupts, Serve

(* The stack of services is an invariant of Stage.run until something is     *)
(* killed.                                                                   *)
LEMMA StackInvariant == Spec => []IInv
<1>1. Init => IInv
  BY InitIInv
<1>2. IInv /\ [Next]_vars => IInv'
  <2>1. [Next]_vars /\ killed => killed'
    BY DEF Next, Host, Interrupts, Serve, EnterManager, StartService, Answer,
       RunStage, StageEnds, StopService, Join, StopLoop, Done, LoopEnds,
       Interrupt, StartInterrupted, EnterInterrupted, ExitInterrupted, Kill,
       Dispatch, Stop, Die, Finished, vars
  <2> QED
    BY <2>1, NextTypeOK, NextStack DEF IInv, Stack, Control
<1> QED
  BY <1>1, <1>2, PTL DEF Spec

-----------------------------------------------------------------------------
(* The variables of Stage.run and its services have the types of TypeOK. *)
THEOREM StageTypes == Spec => []TypeOK
<1>1. IInv => TypeOK
  BY DEF IInv
<1> QED
  BY <1>1, StackInvariant, PTL

(* The resource below one that is held is held: devices are opened after     *)
(* their parents and mounts after their devices, and they are given back in  *)
(* the reverse order.                                                        *)
THEOREM StageFoundation == Spec => []Foundation
<1>1. IInv => Foundation
  <2> SUFFICES ASSUME IInv, ~killed, NEW i \in Service, res[i] = "held",
                      NEW j \in Uses[i]
               PROVE  res[j] = "held"
    BY DEF Foundation
  <2>1. j \in Service /\ j < i
    BY UsesAssumption
  <2>2. i <= up \/ Waited(i)
    BY DEF IInv, Stack, Above, Over, TypeOK, Service
  <2>3. CASE i <= up
    BY <2>1, <2>3, ServiceAssumption DEF IInv, Stack, Below, TypeOK, Service
  <2>4. CASE Waited(i)
    <3>1. i = up + 1 /\ ~Over(i)
      BY <2>4 DEF Waited, Over
    <3>2. up > 0 => res[up] = "held"
      BY <2>4, <3>1 DEF IInv, Stack, Popped
    <3> QED
      BY <2>1, <3>1, <3>2, ServiceAssumption
      DEF IInv, Stack, Below, TypeOK, Service
  <2> QED
    BY <2>2, <2>3, <2>4
<1> QED
  BY <1>1, StackInvariant, PTL

(* build_root.run is reached only with the resources of all inputs, devices  *)
(* and mounts in place.                                                      *)
THEOREM StageComplete == Spec => []StageHasAll
<1>1. IInv => StageHasAll
  BY ServiceAssumption
  DEF IInv, Stack, StageHasAll, Control, Below, Top, TypeOK, Service
<1> QED
  BY <1>1, StackInvariant, PTL

(* However Stage.run ends, by its stage, an exception of a service or an     *)
(* interrupt, no resource is left behind that something rested on, and what  *)
(* the manager is left with is over, whether it was left by its __exit__ or  *)
(* that was interrupted: then for all services but those below the one it    *)
(* was waiting for.                                                          *)
THEOREM StageCleanEnd == Spec => []CleanEnd
<1>1. IInv => CleanEnd
  <2> SUFFICES ASSUME IInv, ~killed PROVE CleanEnd
    BY DEF CleanEnd
  <2> USE ServiceAssumption DEF IInv, Stack, TypeOK, Service
  <2>1. ASSUME NEW i \in Service PROVE res[i] # "leaked"
    <3>1. CASE i < up
      BY <3>1 DEF Below
    <3>2. CASE i = up
      BY <3>2 DEF Top
    <3>3. CASE i > up /\ Waited(i)
      BY <3>3 DEF Popped
    <3>4. CASE i > up /\ ~Waited(i)
      BY <3>4 DEF Above, Over
    <3> QED
      BY <3>1, <3>2, <3>3, <3>4
  <2>2. host = "done" => loop = "ended" /\ \A i \in Service : Over(i)
    BY DEF Control, Above, Waited
  <2>3. ASSUME host = "cut", NEW i \in Service
        PROVE  (i > up + 1 => Over(i)) /\ (Stays(i) => i \in sock)
    BY <2>3 DEF Above, Waited, Sockets, Stays
  <2> QED
    BY <2>1, <2>2, <2>3 DEF CleanEnd
<1> QED
  BY <1>1, StackInvariant, PTL

-----------------------------------------------------------------------------
(* Every step of a run of a stage is a step of StageServices or leaves its   *)
(* variables alone: endpoints, trees and the program only restrict it.       *)
THEOREM RunImplements == RunSpec => Spec
<1>1. RunInit => Init
  BY DEF RunInit
<1>2. [RunNext]_runvars => [Next]_vars
  <2> SUFFICES ASSUME [RunNext]_runvars PROVE [Next]_vars
    OBVIOUS
  <2>1. CASE MainThread
    BY <2>1
    DEF MainThread, EnterStore, Manage, EnterApi, StartProgram, Collect,
        ExitStore, CleanupStore, RemoveTmpdir, ExitApi, Return, Next, Host
  <2>2. CASE RunKill \/ ManagerLoop \/ StoreRound \/ ApiRound \/ Report \/ Exit
    BY <2>2 DEF RunKill, ManagerLoop, StoreRound, ApiRound, Report, Exit, Next
  <2>5. CASE Interrupted
    BY <2>5
    DEF Interrupted, Abort, EnterStoreInterrupted, ExitStoreInterrupted,
        EnterApiInterrupted, ExitApiInterrupted, Next, Interrupts
  <2>3. ASSUME NEW i \in Service, RunServe(i) \/ RunDie(i) PROVE [Next]_vars
    BY <2>3 DEF RunServe, Ask, RunDispatch, RunStop, RunDie, Next, Serve
  <2>4. CASE RunFinished \/ UNCHANGED runvars
    BY <2>4 DEF RunFinished, runvars, vars
  <2> QED
    BY <2>1, <2>2, <2>3, <2>4, <2>5 DEF RunNext
<1> QED
  BY <1>1, <1>2, PTL DEF RunSpec, Spec

(* What is proved of Stage.run and its services, for whole runs: the stage   *)
(* has all its resources, they are given back in order, and nothing is left. *)
COROLLARY RunServices ==
    RunSpec => [](TypeOK /\ Foundation /\ StageHasAll /\ CleanEnd)
  BY RunImplements, StageTypes, StageFoundation, StageComplete, StageCleanEnd, PTL

-----------------------------------------------------------------------------
(* The rounds of the endpoints, the requests and the life of the program     *)
(* keep the types of RunTypeOK.                                              *)
LEMMA InitRunTypeOK == RunInit => RunTypeOK
  BY DEF RunInit, RunTypeOK, Store!Init, Store!TypeOK, Api!Init, Api!TypeOK

LEMMA NextRunTypeOK == RunTypeOK /\ [RunNext]_runvars => RunTypeOK'
<1> SUFFICES ASSUME RunTypeOK, [RunNext]_runvars PROVE RunTypeOK'
  OBVIOUS
<1> USE DEF RunTypeOK, Store!TypeOK, Api!TypeOK
<1>1. CASE EnterStore
  BY <1>1 DEF EnterStore, Store!Enter
<1>2. CASE EnterApi
  BY <1>2 DEF EnterApi, Api!Enter
<1>3. CASE ExitStore
  BY <1>3 DEF ExitStore, Store!Exit
<1>4. CASE ExitApi
  BY <1>4 DEF ExitApi, Api!Exit
<1>5. CASE Manage \/ StartProgram \/ Collect \/ Exit
  BY <1>5 DEF Manage, StartProgram, Collect, Exit
<1>16. CASE CleanupStore
  <2>1. trees' \subseteq trees /\ cut' \subseteq cut \cup {"umount"}
    BY <1>16 DEF CleanupStore
  <2> QED
    BY <1>16, <2>1 DEF CleanupStore
<1>17. CASE RemoveTmpdir \/ Return \/ ManagerLoop
  BY <1>17 DEF RemoveTmpdir, Return, ManagerLoop
<1>6. CASE RunKill
  BY <1>6 DEF RunKill, Store!Killed, Api!Killed
<1>13. CASE Abort \/ ExitStoreInterrupted \/ ExitApiInterrupted
  BY <1>13 DEF Abort, ExitStoreInterrupted, ExitApiInterrupted
<1>14. CASE EnterStoreInterrupted
  BY <1>14 DEF EnterStoreInterrupted, Store!Enter
<1>15. CASE EnterApiInterrupted
  BY <1>15 DEF EnterApiInterrupted, Api!Enter
<1>7. CASE StoreRound
  <2>0. PICK new \in IF store.backlog = {} THEN {{}}
                    ELSE {{c} : c \in store.backlog} :
          store' = [store EXCEPT
                      !.backlog = @ \ new, !.open = @ \cup new,
                      !.done = @ \cup Store!Ready,
                      !.loop = IF store.stop THEN "off" ELSE "on"]
    BY <1>7 DEF StoreRound, Store!Round
  <2>1. new \subseteq store.backlog
    BY <2>0
  <2>2. Store!Ready \subseteq store.open /\ Store!Ready \subseteq Asks
    BY DEF Store!Ready
  <2>3. /\ store'.backlog = store.backlog \ new /\ store'.open = store.open \cup new
        /\ store'.sent = store.sent /\ store'.done = store.done \cup Store!Ready
    BY <2>0, <2>1
  <2>4. store' \in [loop : {"off", "on"}, stop : BOOLEAN,
                  backlog : SUBSET Asks, open : SUBSET Asks,
                  sent : SUBSET Asks, done : SUBSET Asks]
    BY <2>0, <2>1, <2>2
  <2>5. Store!TypeOK'
    BY <2>2, <2>3, <2>4
  <2>6. trees' \subseteq Asks
    BY <1>7, <2>5 DEF StoreRound
  <2> QED
    BY <1>7, <2>5, <2>6 DEF StoreRound
<1>8. CASE ApiRound
  <2>0. PICK new \in IF api.backlog = {} THEN {{}}
                    ELSE {{c} : c \in api.backlog} :
          api' = [api EXCEPT
                    !.backlog = @ \ new, !.open = @ \cup new,
                    !.done = @ \cup Api!Ready,
                    !.loop = IF api.stop THEN "off" ELSE "on"]
    BY <1>8 DEF ApiRound, Api!Round
  <2>1. new \subseteq api.backlog
    BY <2>0
  <2>2. Api!Ready \subseteq api.open /\ Api!Ready \subseteq {"stage"}
    BY DEF Api!Ready
  <2>3. /\ api'.backlog = api.backlog \ new /\ api'.open = api.open \cup new
        /\ api'.sent = api.sent /\ api'.done = api.done \cup Api!Ready
    BY <2>0, <2>1
  <2>4. api' \in [loop : {"off", "on"}, stop : BOOLEAN,
                  backlog : SUBSET {"stage"}, open : SUBSET {"stage"},
                  sent : SUBSET {"stage"}, done : SUBSET {"stage"}]
    BY <2>0, <2>1, <2>2
  <2>5. Api!TypeOK'
    BY <2>2, <2>3, <2>4
  <2> QED
    BY <1>8, <2>5 DEF ApiRound
<1>9. CASE Report
  <2>1. /\ api'.backlog = api.backlog \cup {"stage"}
        /\ api'.sent = api.sent \cup {"stage"}
        /\ api'.open = api.open /\ api'.done = api.done /\ "stage" \notin api.sent
    BY <1>9 DEF Report, Api!Request
  <2>2. api' \in [loop : {"off", "on"}, stop : BOOLEAN,
                  backlog : SUBSET {"stage"}, open : SUBSET {"stage"},
                  sent : SUBSET {"stage"}, done : SUBSET {"stage"}]
    BY <1>9 DEF Report, Api!Request
  <2>3. Api!TypeOK'
    BY <2>1, <2>2
  <2> QED
    BY <1>9, <2>3 DEF Report
<1>10. ASSUME NEW i \in Service, Ask(i) PROVE RunTypeOK'
  <2>1. /\ store'.backlog = store.backlog \cup {i}
        /\ store'.sent = store.sent \cup {i}
        /\ store'.open = store.open /\ store'.done = store.done
        /\ i \notin store.sent /\ i \in Asks
    BY <1>10 DEF Ask, Store!Request
  <2>2. store' \in [loop : {"off", "on"}, stop : BOOLEAN,
                    backlog : SUBSET Asks, open : SUBSET Asks,
                    sent : SUBSET Asks, done : SUBSET Asks]
    BY <1>10, <2>1 DEF Ask, Store!Request
  <2>3. Store!TypeOK'
    BY <2>1, <2>2
  <2> QED
    BY <1>10, <2>3 DEF Ask
<1>11. ASSUME NEW i \in Service, RunDispatch(i) \/ RunStop(i) \/ RunDie(i)
       PROVE  RunTypeOK'
  BY <1>11 DEF RunDispatch, RunStop, RunDie
<1>12. CASE RunFinished \/ UNCHANGED runvars
  BY <1>12 DEF RunFinished, runvars
<1> QED
  BY <1>1, <1>2, <1>3, <1>4, <1>5, <1>6, <1>7, <1>8, <1>9, <1>10, <1>11, <1>12,
     <1>13, <1>14, <1>15, <1>16, <1>17
  DEF RunNext, MainThread, Interrupted, RunServe

(* The variables of a run keep their types: in particular, messages are only *)
(* dispatched after they were sent and their clients accepted.               *)
THEOREM RunTypes == RunSpec => []RunTypeOK
  BY InitRunTypeOK, NextRunTypeOK, PTL DEF RunSpec
-----------------------------------------------------------------------------
\* A service in a call is the one that was started last, while the host waits for
\* its answer or leaves the manager, or the one that an interrupted __exit__ was
\* waiting for.  A call has no answer yet.
Calls ==
    \A i \in Service : svc[i] = "called" =>
        /\ reply[i] = "none"
        /\ \/ i = up /\ host \in {"wait", "unwind", "join", "cut"}
           \/ Waited(i)

\* Services are started one after the other.
Unstarted ==
    host \in {"enter", "start", "wait", "run"} =>
        \A i \in Service : i > up => svc[i] = "off" /\ reply[i] = "none"

\* The store is entered before and left after the manager, and its loop only
\* stops when it is told to.
Around ==
    /\ phase = "enter" => ~store.stop /\ host = "enter"
    /\ phase = "inside" => store.loop = "on" /\ ~store.stop
    /\ phase \in {"store", "tmpdir", "api", "returned"} => host \in {"enter", "done", "cut"}

Alive ==
    phase # "killed" =>
        (host = "join" => up \notin sock) /\ Calls /\ Unstarted /\ Around

\* The thread that mounts trees has ended before they are unmounted.
Mounts ==
    phase \in {"tmpdir", "api", "returned"} =>
        \/ "store" \in cut
        \/ store.loop = "off" /\ (trees = {} \/ "umount" \in cut)

RunInv == Alive /\ Mounts

(* A run starts without services, clients and trees.                         *)
LEMMA InitRunInv == RunInit => RunInv
  BY ServiceAssumption
  DEF RunInit, Init, RunInv, Alive, Calls, Unstarted, Around, Mounts, Store!Init,
      Service

(* The rounds of the store end it only after it was asked to stop.           *)
LEMMA RoundKeeps ==
    RunTypeOK /\ Store!Round =>
        /\ store.loop = "on" /\ store'.stop = store.stop
        /\ store'.loop = "off" => store.stop
<1> SUFFICES ASSUME RunTypeOK, Store!Round
             PROVE  /\ store.loop = "on" /\ store'.stop = store.stop
                    /\ store'.loop = "off" => store.stop
  OBVIOUS
<1>1. PICK new \in IF store.backlog = {} THEN {{}}
                  ELSE {{c} : c \in store.backlog} :
        store' = [store EXCEPT
                    !.backlog = @ \ new, !.open = @ \cup new,
                    !.done = @ \cup Store!Ready,
                    !.loop = IF store.stop THEN "off" ELSE "on"]
  BY DEF Store!Round
<1> QED
  BY <1>1 DEF Store!Round, RunTypeOK, Store!TypeOK

(* The steps of the manager, the host's and interrupts, keep what is known   *)
(* of the calls while the store is entered.                                  *)
LEMMA ManagerInv ==
    ASSUME TypeOK, Registered, Alive, phase = "inside",
           Host \/ Interrupts, UNCHANGED store, phase' # "killed"
    PROVE  (host' = "join" => up' \notin sock') /\ Calls' /\ Unstarted'
<1> USE ServiceAssumption DEF Alive, Calls, Unstarted, Waited, Service, TypeOK
<1>1. CASE StartService \/ StartInterrupted
  <2>1. CASE up' = up
    <3>1. UNCHANGED reply /\ host = "start" /\ host' = "unwind"
      BY <1>1, <2>1 DEF StartService, StartInterrupted
    <3>2. \A i \in Service : svc'[i] = "called" => svc[i] = "called"
      BY <1>1, <2>1 DEF StartService, StartInterrupted
    <3> QED
      BY <2>1, <3>1, <3>2
  <2>2. CASE up' = up + 1
    <3>1. /\ UNCHANGED reply /\ host = "start" /\ up + 1 \in Service
          /\ \/ host' = "wait" /\ svc' = [svc EXCEPT ![up + 1] = "called"]
             \/ host' = "unwind" /\ svc' = [svc EXCEPT ![up + 1] = "serving"]
      BY <1>1, <2>2 DEF StartService, StartInterrupted
    <3>2. \A i \in Service : i # up' => svc'[i] = svc[i]
      BY <2>2, <3>1
    <3> QED
      BY <2>2, <3>1, <3>2
  <2> QED
    BY <1>1, <2>1, <2>2 DEF StartService, StartInterrupted
<1>2. CASE Answer
  <2>1. svc[up] # "called" \/ host' = "unwind"
    BY <1>2 DEF Answer, Registered
  <2> QED
    BY <1>2, <2>1 DEF Answer
<1>3. CASE EnterManager \/ RunStage \/ StageEnds \/ StopLoop \/ Done
  BY <1>3 DEF EnterManager, RunStage, StageEnds, StopLoop, Done
<1>4. CASE StopService
  BY <1>4 DEF StopService, NextToStop
<1>5. CASE Join
  <2>1. up \in 1..N /\ up \notin sock
    BY <1>5 DEF Join, Registered
  <2>2. svc[up] = "gone"
    BY <1>5, <2>1 DEF Join, Joined
  <2>3. \A i \in Service : svc[i] # "called"
    BY <1>5, <2>2 DEF Join
  <2> QED
    BY <1>5, <2>3 DEF Join
<1>6. CASE Interrupt \/ EnterInterrupted
  BY <1>6 DEF Interrupt, EnterInterrupted
<1>7. CASE ExitInterrupted
  BY <1>7 DEF ExitInterrupted
<1> QED
  BY <1>1, <1>2, <1>3, <1>4, <1>5, <1>6, <1>7 DEF Host, Interrupts

(* Every step keeps the invariant of the endpoint and its clients.           *)
LEMMA NextRunInv ==
    RunTypeOK /\ TypeOK /\ Registered /\ RunInv /\ [RunNext]_runvars => RunInv'
<1> SUFFICES ASSUME RunTypeOK, TypeOK, Registered, RunInv, [RunNext]_runvars
             PROVE  RunInv'
  OBVIOUS
<1> USE ServiceAssumption DEF RunInv, Mounts
<1>1. CASE EnterStore
  BY <1>1
  DEF EnterStore, Store!Enter, vars, RunTypeOK, Store!TypeOK, Alive, Calls,
      Unstarted, Around, Waited
<1>2. CASE Manage \/ StartProgram \/ Abort
  <2>1. /\ phase = "inside" /\ (Host \/ Interrupts)
        /\ UNCHANGED <<phase, store, api, trees, cut>>
    BY <1>2 DEF Manage, StartProgram, Abort, Host
  <2>2. (host' = "join" => up' \notin sock') /\ Calls' /\ Unstarted'
    BY <2>1, ManagerInv
  <2> QED
    BY <2>1, <2>2 DEF Alive, Around
<1>3. CASE Collect \/ EnterApiInterrupted
  <2>1. /\ Host \/ Interrupts
        /\ UNCHANGED <<phase, store, trees>> /\ cut \subseteq cut'
        /\ host \in {"run", "start"}
    BY <1>3 DEF Collect, EnterApiInterrupted, Host, Interrupts, StageEnds
  <2>2. phase \in {"inside", "killed"}
    BY <2>1 DEF Alive, Around, RunTypeOK
  <2>3. phase = "inside" => (host' = "join" => up' \notin sock') /\ Calls' /\ Unstarted'
    BY <2>1, ManagerInv
  <2> QED
    BY <2>1, <2>2, <2>3 DEF Alive, Around
<1>4. CASE ExitStore
  BY <1>4
  DEF ExitStore, Left, Store!Exit, vars, RunTypeOK, Store!TypeOK, Alive, Calls,
      Unstarted, Around, Waited
<1>5. CASE CleanupStore
  BY <1>5
  DEF CleanupStore, Store!Ended, vars, Alive, Calls, Unstarted, Around, Waited
<1>6. CASE EnterApi \/ RemoveTmpdir \/ ExitApi \/ Return \/ ApiRound \/ Report \/ Exit
  BY <1>6
  DEF EnterApi, RemoveTmpdir, ExitApi, Return, ApiRound, Report, Exit, vars,
      Alive, Calls, Unstarted, Around, Waited
<1>7. CASE RunKill
  BY <1>7 DEF RunKill, Alive
<1>8. CASE StoreRound
  <2>1. /\ store.loop = "on" /\ store'.stop = store.stop
        /\ store'.loop = "off" => store.stop
        /\ UNCHANGED <<vars, phase, cut>>
    BY <1>8, RoundKeeps DEF StoreRound
  <2>2. store'.loop \in {"on", "off"}
    <3>1. RunTypeOK'
      BY NextRunTypeOK
    <3> QED
      BY <3>1 DEF RunTypeOK, Store!TypeOK
  <2>3. Mounts'
    BY <2>1
  <2>4. Calls' = Calls /\ Unstarted' = Unstarted /\ (up' \notin sock') = (up \notin sock)
    BY <2>1 DEF vars, Calls, Unstarted, Waited
  <2>5. phase # "killed" => Around'
    BY <2>1, <2>2 DEF vars, Alive, Around
  <2> QED
    BY <2>1, <2>3, <2>4, <2>5 DEF vars, Alive
<1>9. CASE ManagerLoop
  BY <1>9 DEF ManagerLoop, LoopEnds, Alive, Calls, Unstarted, Around, Waited
<1>12. CASE EnterStoreInterrupted
  BY <1>12 DEF EnterStoreInterrupted, vars, Alive, Calls, Unstarted, Around, Waited
<1>13. CASE ExitStoreInterrupted \/ ExitApiInterrupted
  BY <1>13
  DEF ExitStoreInterrupted, ExitApiInterrupted, Left, vars, Alive, Calls,
      Unstarted, Around, Waited
<1>14. ASSUME NEW i \in Service, Ask(i) PROVE RunInv'
  BY <1>14
  DEF Ask, Store!Request, vars, RunTypeOK, Store!TypeOK, Alive, Calls, Unstarted,
      Around, Waited
<1>10. ASSUME NEW i \in Service, RunDispatch(i) \/ RunStop(i) \/ RunDie(i)
       PROVE  RunInv'
  <2>1. /\ UNCHANGED <<host, up, sock, phase, store, trees, cut>>
        /\ svc[i] # "off"
        /\ svc' = [svc EXCEPT ![i] = svc'[i]] /\ svc'[i] \in {"serving", "gone"}
        /\ reply' = reply \/ (svc[i] = "called" /\ reply' = [reply EXCEPT ![i] = reply'[i]])
    BY <1>10 DEF RunDispatch, Dispatch, RunStop, Stop, RunDie, Die, TypeOK
  <2>2. phase # "killed" => Calls'
    BY <2>1 DEF Alive, Calls, Waited, TypeOK
  <2>3. phase # "killed" => Unstarted'
    BY <2>1 DEF Alive, Unstarted, TypeOK
  <2> QED
    BY <2>1, <2>2, <2>3 DEF Alive, Around
<1>11. CASE RunFinished \/ UNCHANGED runvars
  BY <1>11 DEF RunFinished, runvars, Alive, Calls, Unstarted, Around, Waited
<1> QED
  BY <1>1, <1>2, <1>3, <1>4, <1>5, <1>6, <1>7, <1>8, <1>9, <1>10, <1>11, <1>12,
     <1>13, <1>14
  DEF RunNext, MainThread, Interrupted, RunServe

(* A run of a stage keeps the invariant.                                     *)
LEMMA RunInvariant == RunSpec => []RunInv
<1>1. RunSpec => [](TypeOK /\ Registered)
  <2>1. IInv => TypeOK /\ Registered
    BY DEF IInv
  <2> QED
    BY <2>1, RunImplements, StackInvariant, PTL
<1>2. RunTypeOK /\ (TypeOK /\ Registered) /\ RunInv /\ [RunNext]_runvars => RunInv'
  BY NextRunInv
<1> QED
  BY <1>1, <1>2, RunTypes, InitRunInv, PTL DEF RunSpec

(* The store endpoint outlives its clients: nothing waits for an answer of a *)
(* thread that is being stopped (Stage.run leaves the service manager before *)
(* it leaves the store API), but for a service that an interrupted __exit__  *)
(* of the manager left in its call.                                          *)
THEOREM RunStoreOutlivesClients == RunSpec => []StoreOutlivesClients
<1>1. TypeOK /\ RunTypeOK /\ RunInv => StoreOutlivesClients
  <2> SUFFICES ASSUME TypeOK, RunTypeOK, RunInv, phase # "killed",
                      store.stop \/ store.loop = "off",
                      NEW i \in Service, svc[i] = "called"
               PROVE  host = "cut" /\ i \in {up, up + 1}
    BY DEF StoreOutlivesClients
  <2>1. host \in {"enter", "done", "cut"}
    BY DEF RunInv, Alive, Around, RunTypeOK, Store!TypeOK
  <2> QED
    BY <2>1 DEF RunInv, Alive, Calls, Waited
<1> QED
  BY <1>1, RunInvariant, RunServices, RunTypes, PTL

(* Nothing of the store is mounted below the temporary directory when that   *)
(* is deleted, whether the manager's exit was interrupted or not (_cleanup   *)
(* of the StoreServer runs before it is, unless that exit is interrupted).   *)
THEOREM RunTmpdirUnmounted == RunSpec => []TmpdirUnmounted
<1>1. RunInv => TmpdirUnmounted
  BY DEF RunInv, Mounts, TmpdirUnmounted
<1> QED
  BY <1>1, RunInvariant, PTL

(* Both together: the store is left last, and its mounts before the          *)
(* directory they are in, whatever ends Stage.run, but for what an           *)
(* interrupted exit leaves.                                                  *)
THEOREM RunStoreLeftLast == RunSpec => []StoreLeftLast
<1>1. StoreOutlivesClients /\ TmpdirUnmounted => StoreLeftLast
  BY DEF StoreLeftLast
<1> QED
  BY <1>1, RunStoreOutlivesClients, RunTmpdirUnmounted, PTL
=============================================================================
