------------------------------ MODULE VmBuild -------------------------------
(***************************************************************************)
(* A pipeline whose stages run in a virtual machine: the in_vm path of     *)
(* Pipeline.build_stages (osbuild/pipeline.py), the processes that Qemu    *)
(* and Virtiofsd (osbuild/qemu.py) start and stop, the loop of serve() and *)
(* the handlers in the guest (osbuild/vm.py), and the finished objects     *)
(* that ObjectStore.export_floating and load_floating (osbuild/            *)
(* objectstore.py) hand from the one store to the other.                   *)
(*                                                                         *)
(* The host and the guest exchange lines over a serial port.  The guest    *)
(* writes log lines from two threads while a stage runs: the stage's own   *)
(* and that of its host services.                                          *)
(***************************************************************************)
EXTENDS Integers, Sequences, FiniteSets

CONSTANTS
    Stages,        \* sequence of [needs : objects, checkpoint : BOOLEAN]
    Shares,        \* sequence of the directories that virtiofsd serves
    Finished,      \* objects of this run in read mode
    Stored,        \* objects that the cache has
    Tree,          \* the object being built, in write mode
    Build,         \* the object that is the build tree
    MaxLogs        \* bound on the log lines of a stage and a thread

ASSUME VmAssumption ==
    /\ Stages \in Seq([needs : SUBSET (Finished \cup Stored), checkpoint : BOOLEAN])
    /\ Build \in Finished \cup Stored /\ Tree \notin Finished \cup Stored
    /\ MaxLogs \in Nat

VARIABLES
    host,      \* pc and local variables of build_stages and of Qemu
    qemu,      \* the process: off, starting, ready, wedged, gone
    told,      \* signals that were sent to it
    fsd,       \* per share: its virtiofsd process: off, on, told, gone
    tmpdir,    \* Qemu._tmpdir exists
    guest,     \* the guest: pc, the request it handles, its floating objects
    toGuest,   \* the serial port: lines not read yet
    toHost,
    tree,      \* the stages whose work is in the tree; 0 is that of one not done
    cache,     \* checkpoints: pairs of stage and tree
    logs       \* per thread: lines written, and what the monitor was given

vars == <<host, qemu, told, fsd, tmpdir, guest, toGuest, toHost, tree, cache, logs>>
procs == <<qemu, told, fsd, tmpdir>>
lines == <<toGuest, toHost, logs>>

N == Len(Stages)
Threads == {"stage", "services"}

\* Qemu.__init__ made the temporary directory and the command line.
Init ==
    /\ host = [pc |-> "shares", share |-> 1, stage |-> 0, result |-> "none"]
    /\ qemu = "off" /\ told = {}
    /\ fsd = [i \in DOMAIN Shares |-> "off"]
    /\ tmpdir = TRUE
    /\ guest = [pc |-> "off", op |-> 0, floating |-> {}]
    /\ toGuest = <<>> /\ toHost = <<>>
    /\ tree = <<>> /\ cache = {}
    /\ logs = [t \in Threads |-> [written |-> 0, shown |-> 0]]

At(l) == host.pc = l
Goto(l) == host' = [host EXCEPT !.pc = l]
\* An exception leaves the block of the VM.
Raise == host' = [host EXCEPT !.pc = "stop", !.result = "raised"]

-----------------------------------------------------------------------------
(***************************************************************************)
(* Qemu.start                                                              *)
(***************************************************************************)

\* virtfsd.start() for the next share; Popen may fail.  An exception in
\* __enter__ is followed by __del__, not by __exit__.
StartShare ==
    /\ At("shares") /\ host.share <= Len(Shares)
    /\ \/ /\ fsd' = [fsd EXCEPT ![host.share] = "on"]
          /\ host' = [host EXCEPT !.share = @ + 1]
       \/ /\ host' = [host EXCEPT !.pc = "dropped", !.result = "raised"]
          /\ UNCHANGED fsd
    /\ UNCHANGED <<qemu, told, tmpdir, guest, lines, tree, cache>>

StartQemu ==
    /\ At("shares") /\ host.share > Len(Shares)
    /\ qemu' = "starting"
    /\ Goto("qmp")
    /\ UNCHANGED <<told, fsd, tmpdir, guest, lines, tree, cache>>

\* wait_for_qmp: the socket answers, or 10 seconds pass.  Then qemu is told to
\* end, and not waited for.
WaitQmp ==
    /\ At("qmp")
    /\ \/ qemu = "ready" /\ Goto("update") /\ UNCHANGED told
       \/ /\ told' = told \cup {"TERM"}
          /\ host' = [host EXCEPT !.pc = "dropped", !.result = "raised"]
    /\ UNCHANGED <<qemu, fsd, tmpdir, guest, lines, tree, cache>>

-----------------------------------------------------------------------------
(***************************************************************************)
(* Requests                                                                *)
(***************************************************************************)

\* export_floating: the objects in read mode
Exported == Finished

\* The request update_store, number 0, and run_stage of the next stage.
Request == [op |-> host.stage, floating |-> IF host.stage = 0 THEN Exported ELSE {}]

\* send_request: a line to the socket of qemu; EPIPE when it is gone.
Send ==
    /\ At("update")
    /\ \/ /\ qemu \in {"ready", "wedged"}
          /\ toGuest' = Append(toGuest, Request)
          /\ Goto("read")
       \/ qemu = "gone" /\ Raise /\ UNCHANGED toGuest
    /\ UNCHANGED <<procs, guest, toHost, logs, tree, cache>>

\* monitored_request: a log line goes to the monitor.
ReadLog ==
    /\ At("read") /\ toHost # <<>> /\ Head(toHost).kind = "log"
    /\ logs' = [logs EXCEPT ![Head(toHost).from].shown = @ + 1]
    /\ toHost' = Tail(toHost)
    /\ UNCHANGED <<host, procs, guest, toGuest, tree, cache>>

\* A mutation of ReadAnswer: an answer is an answer.
ReadAnswerAny ==
    /\ At("read") /\ toHost # <<>> /\ Head(toHost).kind # "log"
    /\ toHost' = Tail(toHost) /\ Goto("result")
    /\ UNCHANGED <<procs, guest, toGuest, logs, tree, cache>>
\* The next line with "ok" is the answer: an error raises, as does the end of the
\* lines of a qemu that is gone; the result of a stage may be a failure.
ReadAnswer ==
    /\ At("read") /\ toHost # <<>> /\ Head(toHost).kind # "log"
    /\ toHost' = Tail(toHost)
    /\ CASE Head(toHost).kind = "error"   -> Raise
         [] Head(toHost).kind = "failed"  -> host' = [host EXCEPT !.pc = "clean",
                                                                 !.result = "failed"]
         [] Head(toHost).kind = "ok"      -> Goto("result")
    /\ UNCHANGED <<procs, guest, toGuest, logs, tree, cache>>

ReadEnd ==
    /\ At("read") /\ toHost = <<>> /\ qemu = "gone"
    /\ Raise
    /\ UNCHANGED <<procs, guest, lines, tree, cache>>

\* The stage succeeded: commit a checkpoint, which the cache takes or not; then
\* the next stage, or finalize() and the end of the block.
NextStage ==
    /\ At("result")
    /\ \/ /\ host.stage > 0 /\ Stages[host.stage].checkpoint
          /\ cache' = cache \cup {<<host.stage, tree>>}
       \/ UNCHANGED cache
    /\ host' = IF host.stage < N
               THEN [host EXCEPT !.pc = "update", !.stage = @ + 1]
               ELSE [host EXCEPT !.pc = "stop", !.result = "built"]
    /\ UNCHANGED <<procs, guest, lines, tree>>

\* The stage failed: cleanup(build_tree, tree) makes a lazy map that nobody goes
\* through, so nothing is closed here; the trees stay until the store is closed.
CleanTree ==
    /\ At("clean")
    /\ Goto("stop")
    /\ UNCHANGED <<procs, guest, lines, tree, cache>>

-----------------------------------------------------------------------------
(***************************************************************************)
(* Qemu.stop and cleanup                                                   *)
(***************************************************************************)

Gone == qemu \in {"gone", "off"}

\* A mutation of Stop: a qemu that is told to end is waited for without limit.
StopPatiently ==
    /\ \/ /\ At("stop") /\ ~Gone /\ told' = told \cup {"TERM"} /\ Goto("wait")
       \/ At("stop") /\ Gone /\ Goto("cleanup") /\ UNCHANGED told
       \/ At("wait") /\ Gone /\ Goto("cleanup") /\ UNCHANGED told
    /\ host.pc \in {"stop", "wait"}
    /\ UNCHANGED <<qemu, fsd, tmpdir, guest, lines, tree, cache>>
\* proc.terminate(); wait 5 seconds; then proc.kill() without waiting
Stop ==
    /\ \/ /\ At("stop") /\ ~Gone /\ told' = told \cup {"TERM"} /\ Goto("wait")
       \/ At("stop") /\ Gone /\ Goto("cleanup") /\ UNCHANGED told
       \/ At("wait") /\ Gone /\ Goto("cleanup") /\ UNCHANGED told
       \/ At("wait") /\ ~Gone /\ told' = told \cup {"KILL"} /\ Goto("cleanup")
    /\ UNCHANGED <<qemu, fsd, tmpdir, guest, lines, tree, cache>>

\* __del__ of a Qemu whose __enter__ raised: _proc is None, so stop() goes
\* straight to cleanup().
Drop ==
    /\ At("dropped")
    /\ Goto("cleanup")
    /\ UNCHANGED <<procs, guest, lines, tree, cache>>

\* A mutation of StopShare: cleanup takes down the directory only.
StopShareNever ==
    /\ At("cleanup") /\ tmpdir
    /\ tmpdir' = FALSE /\ Goto("over")
    /\ UNCHANGED <<fsd, qemu, told, guest, lines, tree, cache>>
\* virtfsd.stop() for each share: SIGTERM, wait, SIGKILL; then the directory.
StopShare ==
    /\ At("cleanup")
    /\ \/ \E i \in DOMAIN Shares :
            /\ fsd[i] = "on" /\ \A j \in 1..(i - 1) : fsd[j] # "on"
            /\ fsd' = [fsd EXCEPT ![i] = "told"]
            /\ UNCHANGED <<host, tmpdir>>
       \/ /\ \A i \in DOMAIN Shares : fsd[i] # "on"
          /\ tmpdir' = FALSE /\ Goto("over")
          /\ UNCHANGED fsd
    /\ UNCHANGED <<qemu, told, guest, lines, tree, cache>>

\* osbuild is killed: the kernel sends SIGTERM to qemu (set_pdeathsig).
Killed ==
    /\ host.pc \notin {"over", "killed"}
    /\ Goto("killed")
    /\ told' = IF qemu = "off" THEN told ELSE told \cup {"TERM"}
    /\ UNCHANGED <<qemu, fsd, tmpdir, guest, lines, tree, cache>>

-----------------------------------------------------------------------------
(***************************************************************************)
(* The processes (external): qemu gets ready, wedges, or crashes; it ends  *)
(* when told, by SIGTERM unless it is wedged.  virtiofsd ends when told or *)
(* when the qemu it serves is gone.  What qemu had not passed on is lost.  *)
(***************************************************************************)
QemuReady ==
    /\ qemu = "starting" /\ qemu' = "ready"
    /\ guest' = [guest EXCEPT !.pc = "boot"]
    /\ UNCHANGED <<host, told, fsd, tmpdir, lines, tree, cache>>

QemuWedges ==
    /\ qemu \in {"starting", "ready"} /\ qemu' = "wedged"
    /\ guest' = [guest EXCEPT !.pc = "halted"]
    /\ UNCHANGED <<host, told, fsd, tmpdir, lines, tree, cache>>

QemuGone ==
    /\ qemu' = "gone"
    /\ guest' = [guest EXCEPT !.pc = "off"]
    /\ \E n \in 0..Len(toHost) : toHost' = SubSeq(toHost, 1, n)
    /\ toGuest' = <<>>
    /\ UNCHANGED <<host, told, fsd, tmpdir, logs, tree, cache>>
QemuCrashes == qemu \in {"starting", "ready"} /\ QemuGone
Ending == IF qemu = "wedged" THEN "KILL" \in told
          ELSE qemu \in {"starting", "ready"} /\ told # {}
QemuEnds == Ending /\ QemuGone

Left(i) == fsd[i] = "told" \/ (fsd[i] = "on" /\ qemu = "gone")
ShareEnds ==
    /\ \E i \in DOMAIN Shares : Left(i) /\ fsd' = [fsd EXCEPT ![i] = "gone"]
    /\ UNCHANGED <<host, qemu, told, tmpdir, guest, lines, tree, cache>>

-----------------------------------------------------------------------------
(***************************************************************************)
(* The guest                                                               *)
(***************************************************************************)

\* vm.py mounts the shares, opens the store and the port, and serves; or fails,
\* and the kernel panics without ending qemu.
Boot ==
    /\ guest.pc = "boot"
    /\ \E l \in {"serve", "halted"} : guest' = [guest EXCEPT !.pc = l]
    /\ UNCHANGED <<host, procs, lines, tree, cache>>

Answer(kind) == toHost' = Append(toHost, [kind |-> kind, from |-> "stage", op |-> guest.op])

\* load_floating replaces the objects that the store knew of
LoadFloating(objs) == [guest EXCEPT !.floating = objs]

\* op_update_store
UpdateStore ==
    /\ guest.pc = "serve" /\ toGuest # <<>> /\ Head(toGuest).op = 0
    /\ toGuest' = Tail(toGuest)
    /\ guest' = LoadFloating(Head(toGuest).floating)
    /\ toHost' = Append(toHost, [kind |-> "ok", from |-> "stage", op |-> 0])
    /\ UNCHANGED <<host, procs, logs, tree, cache>>

\* ObjectStore.get in the guest: the floating objects, then the cache.
Visible == guest.floating \cup Stored

\* op_run_stage: the stage starts on the tree, which the store shares.
RunStage ==
    /\ guest.pc = "serve" /\ toGuest # <<>> /\ Head(toGuest).op > 0
    /\ toGuest' = Tail(toGuest)
    /\ guest' = [guest EXCEPT !.op = Head(toGuest).op,
          !.pc = IF Stages[Head(toGuest).op].needs \cup {Build} \subseteq Visible
                 THEN "run" ELSE "missing"]
    /\ tree' = Append(tree, 0)
    /\ UNCHANGED <<host, procs, toHost, logs, cache>>

\* VMMonitor.log, in the thread of the stage and in that of its services
GuestLogs ==
    /\ guest.pc = "run"
    /\ \E t \in Threads :
          /\ logs[t].written < MaxLogs
          /\ logs' = [logs EXCEPT ![t].written = @ + 1]
          /\ toHost' = Append(toHost, [kind |-> "log", from |-> t, op |-> guest.op])
    /\ UNCHANGED <<host, procs, guest, toGuest, tree, cache>>

\* The stage is over and its ServiceManager stopped, so nobody else writes any
\* more; the handler returns the result, or raises and serve() sends the error.
StageEnds ==
    /\ \/ /\ guest.pc = "run" /\ Answer("ok")
          /\ tree' = [tree EXCEPT ![Len(tree)] = guest.op]
       \/ /\ guest.pc = "run" /\ \E kind \in {"failed", "error"} : Answer(kind)
          /\ UNCHANGED tree
       \/ guest.pc = "missing" /\ Answer("error") /\ UNCHANGED tree
    /\ guest' = [guest EXCEPT !.pc = "serve"]
    /\ UNCHANGED <<host, procs, toGuest, logs, cache>>

-----------------------------------------------------------------------------
HostStep ==
    \/ StartShare \/ StartQemu \/ WaitQmp \/ Send \/ ReadLog \/ ReadAnswer
    \/ ReadEnd \/ NextStage \/ CleanTree \/ Stop \/ Drop \/ StopShare
GuestStep == Boot \/ UpdateStore \/ RunStage \/ StageEnds
Over == /\ host.pc \in {"over", "killed"} /\ ~Ending /\ \A i \in DOMAIN Shares : ~Left(i)
        /\ UNCHANGED vars
Hanging == At("read") /\ guest.pc = "halted" /\ UNCHANGED vars

Next ==
    \/ HostStep \/ Killed \/ GuestStep \/ GuestLogs
    \/ QemuReady \/ QemuWedges \/ QemuCrashes \/ QemuEnds \/ ShareEnds
    \/ Over \/ Hanging

Spec == Init /\ [][Next]_vars

\* osbuild and vm.py go on unless they wait for a line; processes end when told.
FairSpec ==
    /\ Spec /\ WF_vars(HostStep) /\ WF_vars(GuestStep)
    /\ WF_vars(QemuEnds) /\ WF_vars(ShareEnds)

-----------------------------------------------------------------------------
(***************************************************************************)
(* Properties                                                              *)
(***************************************************************************)

\* Types of the variables; the guest is given finished objects only, and there is
\* one request at a time.
TypeOK ==
    /\ qemu \in {"off", "starting", "ready", "wedged", "gone"}
    /\ told \subseteq {"TERM", "KILL"}
    /\ fsd \in [DOMAIN Shares -> {"off", "on", "told", "gone"}]
    /\ host.stage \in 0..N /\ host.result \in {"none", "built", "failed", "raised"}
    /\ guest.op \in 0..N /\ guest.floating \subseteq Finished
    /\ Len(toGuest) <= 1

\* A stage in the VM has the trees that the same stage on the host would have:
\* an input or a build tree that this run finished, or the cache has, is found
\* by the store of the guest (build_stages: "Update the object store in the VM
\* to match the active floating objects").
InputsFound == guest.pc # "missing"

\* While the host works on the tree, commits it or removes it, no stage in the
\* VM is writing to it, and no answer is left over: the answer that
\* monitored_request takes is always the one to its own request.
HostAlone ==
    /\ host.pc \in {"result", "clean", "update"} => guest.pc # "run" /\ toHost = <<>>
    /\ At("read") => \A j \in DOMAIN toHost : toHost[j].op = host.stage

\* What is committed as the checkpoint of a stage, and what is finalized, has
\* run exactly the stages up to it, in order, whatever the guest did.
TreesRight ==
    /\ \A c \in cache : c[2] = [k \in 1..c[1] |-> k]
    /\ host.result = "built" => tree = [k \in 1..N |-> k]

\* When a request is answered the monitor has been given all lines of the stage,
\* from both threads of the guest.
LogsShown ==
    host.pc \in {"result", "clean"} =>
        \A t \in Threads : logs[t].shown = logs[t].written

\* A directory is served for as long as the VM has not been told to end: stop()
\* ends qemu first and cleanup() the virtiofsd processes after it.
SharesOutliveVm ==
    (\E i \in DOMAIN Shares : fsd[i] = "told") => qemu \in {"off", "gone"} \/ told # {}

\* When osbuild is through with the VM, or was killed, all processes end.  What
\* can survive is a qemu that did not react to SIGTERM, when osbuild was killed or
\* gave up the start; and the virtiofsd processes, when osbuild was killed before
\* there was a qemu.
NothingRunsOn ==
    [](host.pc \in {"over", "killed"} =>
         <>(\/ Gone /\ \A i \in DOMAIN Shares : fsd[i] \in {"off", "gone"}
            \/ qemu = "wedged" /\ told = {"TERM"}
            \/ At("killed") /\ qemu = "off"))

\* The block of the VM ends, unless osbuild waits for an answer from a guest that
\* is no more: read_response has no time-out.
BlockEnds == <>(host.pc \in {"over", "killed"} \/ (At("read") /\ guest.pc = "halted"))

\* A build in a VM is the build on the host: the same trees for every stage, made
\* one at a time, with all that the stages log, while the directories are there.
BuiltAsOnHost ==
    TypeOK /\ InputsFound /\ HostAlone /\ TreesRight /\ LogsShown /\ SharesOutliveVm
=============================================================================
