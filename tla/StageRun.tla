------------------------------ MODULE StageRun ------------------------------
(***************************************************************************)
(* A whole run of a stage: Stage.run of osbuild/pipeline.py with the       *)
(* program of the stage in its build root, its services (StageServices)    *)
(* and two API endpoints (ApiServer).  Inputs ask the store endpoint for   *)
(* trees, which it mounts for them; the program reports an exception to    *)
(* the endpoint "osbuild" before it exits.                                 *)
(*                                                                         *)
(* Stage.run enters the contexts in the order store API, services, API     *)
(* and leaves them in the order services, store API, directory, API.  An   *)
(* interrupt while one of them is entered or left cuts that one short; the *)
(* exit stack goes on with the next.                                       *)
(***************************************************************************)
EXTENDS StageServices

CONSTANT Asks      \* the services that ask the store for a tree

ASSUME AsksAssumption == Asks \subseteq Service

VARIABLES
    phase,     \* which contexts of Stage.run are entered or being left
    store,     \* the endpoint "store"
    api,       \* the endpoint "osbuild"
    trees,     \* inputs whose tree StoreServer has mounted
    stage,     \* the program of the stage
    cut        \* what was cut short: "store", its "umount", "api"

runvars == <<host, loop, up, sock, svc, reply, res, killed, phase, store, api,
             trees, stage, cut>>

Store == INSTANCE ApiServer WITH Client <- Asks, srv <- store
Api == INSTANCE ApiServer WITH Client <- {"stage"}, srv <- api

RunInit ==
    /\ Init
    /\ phase = "enter"
    /\ Store!Init /\ Api!Init
    /\ trees = {}
    /\ stage = "none"
    /\ cut = {}

-----------------------------------------------------------------------------
(***************************************************************************)
(* Stage.run                                                               *)
(***************************************************************************)

\* cm.enter_context(storeapi)
EnterStore ==
    /\ phase = "enter"
    /\ Store!Enter
    /\ phase' = "inside"
    /\ UNCHANGED <<vars, api, trees, stage, cut>>

\* The service manager: __enter__, inputs, devices and mounts, and __exit__.
Manage ==
    /\ phase = "inside"
    /\ \/ EnterManager \/ StartService \/ Answer
       \/ StopService \/ Join \/ StopLoop \/ Done
    /\ UNCHANGED <<phase, store, api, trees, stage, cut>>

\* build_root.register_api(api)
EnterApi ==
    /\ phase = "inside" /\ host = "start" /\ up = N
    /\ Api!Enter
    /\ UNCHANGED <<vars, phase, store, trees, stage, cut>>

\* build_root.run starts bwrap ...
StartProgram ==
    /\ phase = "inside" /\ api.loop = "on"
    /\ RunStage
    /\ stage' = "running"
    /\ UNCHANGED <<phase, store, api, trees, cut>>

\* ... and returns when its output ends and it has exited.
Collect ==
    /\ stage = "exited"
    /\ StageEnds
    /\ stage' = "collected"
    /\ UNCHANGED <<phase, store, api, trees, cut>>

\* The manager has been left, one way or another.
Left == host \in {"done", "cut"}

\* A mutation of ExitStore: the store is closed before its clients are.
ExitStoreEarly ==
    /\ phase = "inside" /\ (host = "unwind" \/ Left)
    /\ Store!Exit
    /\ phase' = IF Left THEN "store" ELSE phase
    /\ UNCHANGED <<vars, api, trees, stage, cut>>
\* storeapi.__exit__: stop the loop and wait for the thread ...
ExitStore ==
    /\ phase = "inside" /\ Left
    /\ Store!Exit
    /\ phase' = "store"
    /\ UNCHANGED <<vars, api, trees, stage, cut>>

\* ... and _cleanup(): umount what was mounted for the inputs.  When that fails
\* or is interrupted some stay; when deleting tmproot does, which comes first,
\* all stay.
CleanupStore ==
    /\ phase = "store" /\ Store!Ended
    /\ \E left \in SUBSET trees :
          /\ trees' = left
          /\ cut' = IF left = {} THEN cut ELSE cut \cup {"umount"}
    /\ phase' = "tmpdir"
    /\ UNCHANGED <<vars, store, api, stage>>

\* The directory that the trees were mounted in is deleted recursively.
RemoveTmpdir ==
    /\ phase = "tmpdir"
    /\ phase' = "api"
    /\ UNCHANGED <<vars, store, api, trees, stage, cut>>

\* The build root leaves the contexts of its APIs.
ExitApi ==
    /\ phase = "api" /\ "api" \notin cut
    /\ Api!Exit
    /\ UNCHANGED <<vars, phase, store, trees, stage, cut>>

Return ==
    /\ phase = "api"
    /\ api.loop = "off" \/ "api" \in cut
    /\ phase' = "returned"
    /\ UNCHANGED <<vars, store, api, trees, stage, cut>>

-----------------------------------------------------------------------------
(***************************************************************************)
(* Interrupts and kills                                                    *)
(***************************************************************************)

\* In the context of the manager or in its methods.  The TimeoutError of
\* read_with_timeout does the same: nobody waits for the program.
Abort ==
    /\ phase = "inside"
    /\ Interrupts
    /\ UNCHANGED <<phase, store, api, trees, stage, cut>>

\* In storeapi.__enter__: the thread may be there, but nobody will stop it.
EnterStoreInterrupted ==
    /\ phase = "enter"
    /\ Store!Enter \/ UNCHANGED store
    /\ phase' = "tmpdir"
    /\ cut' = cut \cup {"store"}
    /\ UNCHANGED <<vars, api, trees, stage>>

\* In storeapi.__exit__, before the loop is told to stop or while the thread is
\* joined: there is no _cleanup().
ExitStoreInterrupted ==
    /\ (phase = "inside" /\ Left) \/ phase = "store"
    /\ phase' = "tmpdir"
    /\ cut' = cut \cup {"store"}
    /\ UNCHANGED <<vars, store, api, trees, stage>>

\* In __enter__ of an API of the build root
EnterApiInterrupted ==
    /\ phase = "inside" /\ host = "start" /\ up = N
    /\ Api!Enter
    /\ Interrupt
    /\ cut' = cut \cup {"api"}
    /\ UNCHANGED <<phase, store, trees, stage>>

\* In __exit__ of an API of the build root, told to stop or not
ExitApiInterrupted ==
    /\ phase = "api" /\ api.loop = "on" /\ "api" \notin cut
    /\ cut' = cut \cup {"api"}
    /\ phase' = "returned"
    /\ UNCHANGED <<vars, store, api, trees, stage>>

\* osbuild is killed.
RunKill ==
    /\ phase # "killed"
    /\ Kill
    /\ phase' = "killed"
    /\ Store!Killed /\ Api!Killed
    /\ UNCHANGED <<trees, stage, cut>>

-----------------------------------------------------------------------------
(***************************************************************************)
(* The threads, the services and the program                               *)
(***************************************************************************)

ManagerLoop == LoopEnds /\ UNCHANGED <<phase, store, api, trees, stage, cut>>

\* StoreServer: mounting a tree works or fails.
StoreRound ==
    /\ Store!Round
    /\ \E new \in SUBSET (store'.done \ store.done) : trees' = trees \cup new
    /\ UNCHANGED <<vars, phase, api, stage, cut>>

ApiRound == Api!Round /\ UNCHANGED <<vars, phase, store, trees, stage, cut>>

\* StoreClient: an input asks for its tree ...
Ask(i) ==
    /\ i \in Asks /\ svc[i] = "called"
    /\ Store!Request(i)
    /\ UNCHANGED <<vars, phase, api, trees, stage, cut>>

\* ... waits for the answer and replies to its call.  When it cannot have the
\* tree it raises.
RunDispatch(i) ==
    /\ Dispatch(i)
    /\ i \in Asks =>
          \/ i \in store.done /\ (i \notin trees => reply'[i] # "ok")
          \/ store.loop = "off" /\ reply'[i] # "ok"
    /\ UNCHANGED <<phase, store, api, trees, stage, cut>>

RunStop(i) == Stop(i) /\ UNCHANGED <<phase, store, api, trees, stage, cut>>
RunDie(i) == Die(i) /\ UNCHANGED <<phase, store, api, trees, stage, cut>>

\* exception_handler of the runner: send the exception, then exit.
Report ==
    /\ stage = "running"
    /\ Api!Request("stage")
    /\ stage' = "reported"
    /\ UNCHANGED <<vars, phase, store, trees, cut>>

Exit ==
    /\ stage \in {"running", "reported"}
    /\ stage' = "exited"
    /\ UNCHANGED <<vars, phase, store, api, trees, cut>>

-----------------------------------------------------------------------------
MainThread ==
    \/ EnterStore \/ Manage \/ EnterApi \/ StartProgram \/ Collect \/ ExitStore
    \/ CleanupStore \/ RemoveTmpdir \/ ExitApi \/ Return
Interrupted ==
    \/ Abort \/ EnterStoreInterrupted \/ ExitStoreInterrupted
    \/ EnterApiInterrupted \/ ExitApiInterrupted
RunServe(i) == Ask(i) \/ RunDispatch(i) \/ RunStop(i)

\* The thread of the store is gone and event_loop.close() was skipped: nobody
\* answers the client, and its socket stays open as long as osbuild likes.
Forgotten(i) ==
    /\ phase # "killed" /\ "store" \in cut /\ store.loop = "off"
    /\ svc[i] = "called" /\ i \in store.open \ store.done

\* The services and the program have ended, but for the services of a manager
\* whose __exit__ was cut short, which wait for their socket to be closed.
Ended ==
    /\ phase \in {"returned", "killed"}
    /\ \A i \in Service :
          \/ svc[i] \in {"off", "gone"}
          \/ Stays(i) /\ svc[i] = "serving"
          \/ Forgotten(i)
    /\ stage \in {"none", "exited", "collected"}

RunFinished == Ended /\ UNCHANGED runvars

RunNext ==
    \/ MainThread \/ Interrupted \/ RunKill
    \/ ManagerLoop \/ StoreRound \/ ApiRound \/ Report \/ Exit
    \/ \E i \in Service : RunServe(i) \/ RunDie(i)
    \/ RunFinished

RunSpec == RunInit /\ [][RunNext]_runvars

\* Threads and processes are scheduled, mounting a tree ends, stages end.
RunFairSpec ==
    /\ RunSpec
    /\ WF_runvars(MainThread) /\ WF_runvars(ManagerLoop)
    /\ WF_runvars(StoreRound) /\ WF_runvars(ApiRound)
    /\ WF_runvars(Exit)
    /\ \A i \in Service : WF_runvars(RunServe(i) /\ ~Forgotten(i))

-----------------------------------------------------------------------------
(***************************************************************************)
(* Properties                                                              *)
(***************************************************************************)

\* Types of the variables of the model of Stage.run as a whole.
RunTypeOK ==
    /\ phase \in {"enter", "inside", "store", "tmpdir", "api", "returned",
                  "killed"}
    /\ Store!TypeOK /\ Api!TypeOK
    /\ trees \subseteq Asks
    /\ stage \in {"none", "running", "reported", "exited", "collected"}
    /\ cut \subseteq {"store", "umount", "api"}

\* The store endpoint outlives its clients: no service of Stage.run is in a call
\* while the thread that answers its questions is being stopped, whether the
\* stage ended, a service raised or died, or the user interrupted it.  When
\* ServiceManager.__exit__ was interrupted, it can only be the service which that
\* waited for or was about to stop first.
StoreOutlivesClients ==
    phase # "killed" /\ (store.stop \/ store.loop = "off") =>
        \A i \in Service : svc[i] = "called" => host = "cut" /\ i \in {up, up + 1}

\* No tree of the store is mounted below the temporary directory when that is
\* deleted recursively, not even one that was mounted for an input which was
\* interrupted before it used it, or which the manager left running because it
\* was interrupted itself.  The exceptions are an interrupt of the endpoint's
\* __exit__, which skips _cleanup, and a failure of _cleanup.
TmpdirUnmounted ==
    phase \in {"tmpdir", "api", "returned"} =>
        trees = {} \/ cut \cap {"store", "umount"} # {}

\* Stage.run returns or raises and every service, thread and stage ends, even when
\* osbuild is killed: nobody waits for somebody who waits for him.  What stays is
\* what an interrupted __exit__ or __enter__ leaves: services that are still
\* connected to it or wait for its answer, and threads that nobody told to stop.
RunEnds ==
    <>[](/\ Ended
         /\ loop \in {"on", "stop"} => host = "cut" /\ loop = "on"
         /\ store.loop = "on" => "store" \in cut /\ ~store.stop
         /\ api.loop = "on" => "api" \in cut /\ ~api.stop)

\* An exception that a stage reported before it exited is in its result: "Error
\* not set" (test_exception).
ErrorRecorded ==
    phase = "returned" /\ stage = "collected" /\ host = "done" /\ cut = {}
    /\ "stage" \in api.sent => "stage" \in api.done

\* Whatever ends Stage.run, the store endpoint is left after its clients and has
\* taken its mounts away before the directory that they are in, but for what an
\* interrupted __exit__ leaves.
StoreLeftLast == StoreOutlivesClients /\ TmpdirUnmounted
=============================================================================
