--------------------------- MODULE StageServices ----------------------------
(***************************************************************************)
(* The host services of one stage: Stage.run (osbuild/pipeline.py), the    *)
(* input, device and mount managers, and the service manager, client and   *)
(* service of osbuild/host.py.                                             *)
(*                                                                         *)
(* Every input, device and mount of a stage has a process of its own that  *)
(* acquires a resource of the host when it is called (a bind mount, a loop *)
(* device, a mounted file system) and gives it back in stop(), when the    *)
(* host closes its end of the socket.  A resource may rest on others: a    *)
(* device on its parent, a mount on its device and on the mounts above it. *)
(* Giving back a resource that something rests on fails, and it stays      *)
(* behind on the host.                                                     *)
(*                                                                         *)
(* A KeyboardInterrupt may come at any place.  Where Stage.run is inside   *)
(* the manager's context it makes the exit stack unwind; where it is in    *)
(* __enter__ or __exit__ of the manager, which undo nothing and go on with *)
(* nothing, that method is cut short.                                      *)
(***************************************************************************)
EXTENDS Naturals

CONSTANTS
    N,             \* number of services, in the order in which they start
    Uses           \* Uses[i]: the services whose resources that of i rests on

Service == 1..N

ASSUME ServiceAssumption == N \in Nat
\* sort_devices puts parents first; devices are opened before mounts.
ASSUME UsesAssumption ==
    Uses \in [Service -> SUBSET Service] /\
    \A i \in Service : \A j \in Uses[i] : j < i

VARIABLES
    host,      \* where Stage.run is
    loop,      \* the event-loop thread of the service manager
    up,        \* services 1..up are registered with the service manager
    sock,      \* sockets to services that the host has open
    svc,       \* what each service process does
    reply,     \* the answer of each service to its one call
    res,       \* the resource of each service
    killed     \* a service or osbuild was killed

vars == <<host, loop, up, sock, svc, reply, res, killed>>

Init ==
    /\ host = "enter"
    /\ loop = "off"
    /\ up = 0
    /\ sock = {}
    /\ svc = [i \in Service |-> "off"]
    /\ reply = [i \in Service |-> "none"]
    /\ res = [i \in Service |-> "none"]
    /\ killed = FALSE

-----------------------------------------------------------------------------
(***************************************************************************)
(* The host                                                                *)
(***************************************************************************)

\* ServiceManager.__enter__ starts the thread and waits for it
EnterManager ==
    /\ host = "enter"
    /\ host' = "start"
    /\ loop' = "on"
    /\ UNCHANGED <<up, sock, svc, reply, res, killed>>

\* ServiceManager.start for the next input, device or mount, and client.call;
\* the executable may be missing.
StartService ==
    /\ host = "start" /\ up < N
    /\ \/ /\ up' = up + 1
          /\ sock' = sock \cup {up + 1}
          /\ svc' = [svc EXCEPT ![up + 1] = "called"]
          /\ host' = "wait"
       \/ /\ host' = "unwind"
          /\ UNCHANGED <<up, sock, svc>>
    /\ UNCHANGED <<loop, reply, res, killed>>

\* A mutation of Answer: what the service raised is not raised again.
AnswerAccepted ==
    /\ host = "wait"
    /\ reply[up] # "none" \/ svc[up] = "gone"
    /\ host' = "start"
    /\ UNCHANGED <<loop, up, sock, svc, reply, res, killed>>
\* call_with_fds returns the reply, or raises what the service raised, or an
\* error when the service is gone.
Answer ==
    /\ host = "wait"
    /\ \/ reply[up] = "ok" /\ host' = "start"
       \/ reply[up] = "exception" /\ host' = "unwind"
       \/ reply[up] = "none" /\ svc[up] = "gone" /\ host' = "unwind"
    /\ UNCHANGED <<loop, up, sock, svc, reply, res, killed>>

\* Everything is in place: build_root.run
RunStage ==
    /\ host = "start" /\ up = N
    /\ host' = "run"
    /\ UNCHANGED <<loop, up, sock, svc, reply, res, killed>>

StageEnds ==
    /\ host = "run"
    /\ host' = "unwind"
    /\ UNCHANGED <<loop, up, sock, svc, reply, res, killed>>

\* A mutation of NextToStop: popitem(last=False)
FirstToStop == CHOOSE i \in sock : \A j \in sock : i <= j
\* ServiceManager.__exit__ takes the service that was started last.
NextToStop == up

\* A mutation of StopService: the socket stays open.
StopServiceConnected ==
    /\ host = "unwind" /\ up > 0
    /\ host' = "join"
    /\ UNCHANGED <<loop, up, sock, svc, reply, res, killed>>
\* srv.stop() closes the socket ...
StopService ==
    /\ host = "unwind" /\ up > 0
    /\ sock' = sock \ {NextToStop}
    /\ host' = "join"
    /\ UNCHANGED <<loop, up, svc, reply, res, killed>>

\* A mutation of Joined: the process is not waited for.
JoinedAtOnce == TRUE
Joined == \A i \in 1..up : i \notin sock => svc[i] = "gone"

\* ... and waits for the process.
Join ==
    /\ host = "join"
    /\ Joined
    /\ up' = up - 1
    /\ host' = "unwind"
    /\ UNCHANGED <<loop, sock, svc, reply, res, killed>>

\* All are stopped: tell the event loop to stop ...
StopLoop ==
    /\ host = "unwind" /\ up = 0
    /\ host' = "loop"
    /\ loop' = "stop"
    /\ UNCHANGED <<up, sock, svc, reply, res, killed>>

\* ... and wait for its thread.
Done ==
    /\ host = "loop" /\ loop = "ended"
    /\ host' = "done"
    /\ UNCHANGED <<loop, up, sock, svc, reply, res, killed>>

\* The thread of the event loop
LoopEnds ==
    /\ loop = "stop"
    /\ loop' = "ended"
    /\ UNCHANGED <<host, up, sock, svc, reply, res, killed>>

-----------------------------------------------------------------------------
(***************************************************************************)
(* Interrupts and kills                                                    *)
(***************************************************************************)

\* KeyboardInterrupt: the exit stack of Stage.run unwinds
Interrupt ==
    /\ host \in {"start", "wait", "run"}
    /\ host' = "unwind"
    /\ UNCHANGED <<loop, up, sock, svc, reply, res, killed>>

\* In ServiceManager.start: the process runs, but is not registered and its
\* socket is closed; or it is registered and not called yet.
StartInterrupted ==
    /\ host = "start" /\ up < N
    /\ host' = "unwind"
    /\ \/ /\ svc' = [svc EXCEPT ![up + 1] = "orphan"]
          /\ UNCHANGED <<up, sock>>
       \/ /\ svc' = [svc EXCEPT ![up + 1] = "serving"]
          /\ up' = up + 1
          /\ sock' = sock \cup {up + 1}
    /\ UNCHANGED <<loop, reply, res, killed>>

\* In __enter__: the thread may have been started, but __exit__ is not called.
EnterInterrupted ==
    /\ host = "enter"
    /\ host' = "cut"
    /\ loop' \in {"off", "on"}
    /\ UNCHANGED <<up, sock, svc, reply, res, killed>>

\* In __exit__: what is registered stays so, connected to the manager, and a
\* thread that was not told to stop goes on.  The service that was waited for is
\* not registered any more.
ExitInterrupted ==
    /\ host \in {"unwind", "join", "loop"}
    /\ host' = "cut"
    /\ up' = IF host = "join" THEN up - 1 ELSE up
    /\ UNCHANGED <<loop, sock, svc, reply, res, killed>>

\* osbuild is killed: the kernel closes all sockets at once.
Kill ==
    /\ host # "killed"
    /\ host' = "killed"
    /\ loop' = "ended"
    /\ sock' = {}
    /\ killed' = TRUE
    /\ UNCHANGED <<up, svc, reply, res>>

-----------------------------------------------------------------------------
(***************************************************************************)
(* The services                                                            *)
(***************************************************************************)

\* dispatch of "open", "mount" or "map".  It may raise after it acquired the
\* resource.  A reply that cannot be sent any more ends the service.
Dispatch(i) ==
    /\ svc[i] = "called"
    /\ \E r \in {"ok", "exception"}, got \in {"held", "none"} :
          /\ r = "ok" => got = "held"
          /\ res' = [res EXCEPT ![i] = got]
          /\ reply' = [reply EXCEPT ![i] = IF i \in sock THEN r ELSE "none"]
    /\ svc' = [svc EXCEPT ![i] = "serving"]
    /\ UNCHANGED <<host, loop, up, sock, killed>>

\* Something still rests on the resource of i.
Busy(i) == \E j \in Service : i \in Uses[j] /\ res[j] = "held"

\* The socket is at its end: leave serve() and call stop().  Signals do not end
\* a service.
Stop(i) ==
    /\ svc[i] \in {"serving", "orphan"}
    /\ i \notin sock
    /\ res' = [res EXCEPT ![i] = IF @ = "none" THEN "none"
                                 ELSE IF Busy(i) THEN "leaked" ELSE "none"]
    /\ svc' = [svc EXCEPT ![i] = "gone"]
    /\ UNCHANGED <<host, loop, up, sock, reply, killed>>

\* A service that is killed does not get to stop().
Die(i) ==
    /\ svc[i] \in {"called", "serving"}
    /\ svc' = [svc EXCEPT ![i] = "gone"]
    /\ res' = [res EXCEPT ![i] = IF @ = "held" THEN "leaked" ELSE @]
    /\ killed' = TRUE
    /\ UNCHANGED <<host, loop, up, sock, reply>>

Host ==
    \/ EnterManager \/ StartService \/ Answer \/ RunStage \/ StageEnds
    \/ StopService \/ Join \/ StopLoop \/ Done
Interrupts ==
    Interrupt \/ StartInterrupted \/ EnterInterrupted \/ ExitInterrupted
Serve(i) == Dispatch(i) \/ Stop(i)

\* A service of a manager whose __exit__ was cut short.
Stays(i) == host = "cut" /\ i <= up

Finished ==
    /\ host \in {"done", "cut", "killed"}
    /\ \A i \in Service : svc[i] \in {"off", "gone"} \/ Stays(i)
    /\ UNCHANGED vars

Next ==
    \/ Host \/ LoopEnds \/ Interrupts \/ Kill
    \/ \E i \in Service : Serve(i) \/ Die(i)
    \/ Finished

Spec == Init /\ [][Next]_vars

-----------------------------------------------------------------------------
(***************************************************************************)
(* Properties                                                              *)
(***************************************************************************)

\* Types of the variables of the model of Stage.run and its services.
TypeOK ==
    /\ host \in {"enter", "start", "wait", "run", "unwind", "join", "loop",
                "done", "cut", "killed"}
    /\ loop \in {"off", "on", "stop", "ended"}
    /\ up \in 0..N
    /\ sock \subseteq Service
    /\ svc \in [Service -> {"off", "called", "serving", "gone", "orphan"}]
    /\ reply \in [Service -> {"none", "ok", "exception"}]
    /\ res \in [Service -> {"none", "held", "leaked"}]
    /\ killed \in BOOLEAN

\* Unless something was killed, what a held resource rests on is held as well:
\* the host never gives a device back under a mount.
Foundation ==
    ~killed => \A i \in Service : res[i] = "held" =>
        \A j \in Uses[i] : res[j] = "held"

\* The stage runs only with the resources of all its inputs, devices and mounts.
StageHasAll == ~killed /\ host = "run" => \A i \in Service : res[i] = "held"

\* Services that have ended, or end for want of a call, without a resource.
Over(i) == svc[i] \in {"off", "gone", "orphan"} /\ res[i] = "none"

\* Unless something is killed, no resource is left behind that could not be given
\* back because something still rested on it: services are stopped in the reverse
\* order of their start and each one is waited for, wherever the stage fails or
\* is interrupted.  When the manager is left, nothing of it is left on the host,
\* neither a process nor a resource nor its thread.  When its __exit__ is cut
\* short, all is over of the services above the one that was waited for, and
\* those below it are still connected.
CleanEnd ==
    ~killed =>
        /\ \A i \in Service : res[i] # "leaked"
        /\ host = "done" => loop = "ended" /\ \A i \in Service : Over(i)
        /\ host = "cut" => \A i \in Service :
              (i > up + 1 => Over(i)) /\ (Stays(i) => i \in sock)
=============================================================================
