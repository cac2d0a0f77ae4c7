---------------------------- MODULE LoopDevices ----------------------------
(***************************************************************************)
(* Loop devices: classes Loop and LoopControl of osbuild/loop.py, the      *)
(* remote loop server of osbuild/remoteloop.py and the inhibition of udev  *)
(* rules of osbuild/util/udev.py, as the loopback device service uses      *)
(* them.                                                                   *)
(*                                                                         *)
(* A user wants one loop device for one backing file.  Users in Services   *)
(* are loopback services, one process each; users in Requests are requests *)
(* to one LoopServer, which serves them one after the other and keeps      *)
(* their devices until it is cleaned up.  Anybody else on the machine      *)
(* (udev, losetup) opens and removes devices at any time, MaxMeddling      *)
(* times in all.                                                           *)
(***************************************************************************)
EXTENDS Naturals, FiniteSets

CONSTANTS
    Minors,        \* the minor numbers of loop devices
    Services,      \* users with a loopback service of their own
    Requests,      \* users of the LoopServer
    Locking,       \* the users that ask for an exclusive lock
    Legacy,        \* the kernels run on: TRUE knows no LOOP_CONFIGURE
    MaxMeddling    \* how often others open or remove a device

Users == Services \cup Requests

NoUser == "nobody"
Other == "other"
NoMinor == "closed"

ASSUME LoopAssumption ==
    /\ Services \cap Requests = {}
    /\ {NoUser, Other} \cap Users = {} /\ NoMinor \notin Minors
    /\ Locking \subseteq Users
    /\ Legacy \in (SUBSET BOOLEAN) \ {{}}
    /\ MaxMeddling \in Nat

VARIABLES
    dev,        \* the kernel's devices
    user,       \* where each user is, and the minor number of its Loop object
    inhibited,  \* the minor numbers that have a lock file in LOCKDIR
    lost,       \* users whose last writes never reached the backing file
    server,     \* "up", "cleanup" or "down"
    legacy,     \* the kernel is an old one
    meddling    \* what others may still do

vars == <<dev, user, inhibited, lost, server, legacy, meddling>>

\* file: whose file backs the device; flushed: the buffer cache is clean;
\* drained: no page of a file bound earlier is left.
Device == [present : BOOLEAN, file : Users \cup {NoUser}, autoclear : BOOLEAN,
           opened : SUBSET (Users \cup {Other}), locked : Users \cup {NoUser},
           flushed : BOOLEAN, drained : BOOLEAN]

Creating == {"init", "setup", "lock", "configure", "status", "clear"}
Using == {"bound", "use"}
Closing == {"flush", "clear_fd", "get_status", "close"}
Ended == {"closed", "failed", "killed"}

\* Types of the variables; a Loop object has one device at a time.
TypeOK ==
    /\ dev \in [Minors -> Device]
    /\ user \in [Users -> [at : {"idle", "exit"} \cup Creating \cup Using
                                 \cup Closing \cup Ended,
                           minor : Minors \cup {NoMinor}]]
    /\ inhibited \subseteq Minors
    /\ lost \subseteq Users
    /\ server \in {"up", "cleanup", "down"}
    /\ legacy \in BOOLEAN
    /\ meddling \in 0..MaxMeddling

Init ==
    /\ dev = [m \in Minors |->
                [present |-> FALSE, file |-> NoUser, autoclear |-> FALSE,
                 opened |-> {}, locked |-> NoUser, flushed |-> TRUE,
                 drained |-> TRUE]]
    /\ user = [u \in Users |-> [at |-> "idle", minor |-> NoMinor]]
    /\ inhibited = {} /\ lost = {}
    /\ server = "up"
    /\ legacy \in Legacy
    /\ meddling = MaxMeddling

-----------------------------------------------------------------------------
(***************************************************************************)
(* What the kernel does with a device.                                     *)
(***************************************************************************)

Opened(d, u) == [d EXCEPT !.opened = @ \cup {u}]

Unbound(d) == [d EXCEPT !.file = NoUser, !.autoclear = FALSE,
                        !.flushed = TRUE]

\* The last close writes the buffer cache back; autoclear unbinds then.
Released(d, u) ==
    LET e == [d EXCEPT !.opened = @ \ {u},
                       !.locked = IF @ = u THEN NoUser ELSE @]
    IN  IF e.opened # {} THEN e
        ELSE IF d.autoclear THEN Unbound(e) ELSE [e EXCEPT !.flushed = TRUE]

\* LOOP_CLR_FD: while others hold the device open it is only marked.
Cleared(d, u) ==
    IF d.opened = {u} THEN Unbound(d) ELSE [d EXCEPT !.autoclear = TRUE]

\* Clearing drops what the buffer cache still holds.
Dropped(d, u) ==
    IF d.opened = {u} /\ ~d.flushed THEN {d.file} ELSE {}

Bound(d, u, flags) == [d EXCEPT !.file = u, !.autoclear = flags]

-----------------------------------------------------------------------------
Goes(u, place) == user' = [user EXCEPT ![u].at = place]
Kernel(u, d) == dev' = [dev EXCEPT ![user[u].minor] = d]
DeviceOf(u) == dev[user[u].minor]

\* The thread of the LoopServer is inside loop_for_fd for another request.
ServerBusy(u) ==
    \E r \in Requests \ {u} : user[r].at \in Creating \cup {"bound"}

\* udev.UdevInhibitor.release, the on_close of a loopback service's Loop.
\* setup_loop set it, so a Loop that is closed before has none.
Release(u) == IF u \in Services THEN inhibited \ {user[u].minor} ELSE inhibited
\* Loop.close, and what comes after it.
CloseLoop(u, place) ==
    /\ Kernel(u, Released(DeviceOf(u), u))
    /\ inhibited' = Release(u)
    /\ user' = [user EXCEPT ![u] = [at |-> place, minor |-> NoMinor]]

\* LoopControl.get_unbound: the first device that is not bound, a new one if
\* all are.  More devices than Minors are not modelled.
GetUnbound(u) ==
    /\ user[u].at = "idle"
    /\ u \in Requests => server = "up" /\ ~ServerBusy(u)
    /\ \E m \in Minors :
        /\ IF \E n \in Minors : dev[n].present /\ dev[n].file = NoUser
           THEN dev[m].present /\ dev[m].file = NoUser
           ELSE ~dev[m].present
        /\ dev' = [dev EXCEPT ![m].present = TRUE]
        /\ user' = [user EXCEPT ![u] = [at |-> "init", minor |-> m]]
    /\ UNCHANGED <<inhibited, lost, server, legacy, meddling>>

\* Loop.__init__.  The device may be gone: the exception leaves loop_for_fd.
OpenLoop(u) ==
    /\ user[u].at = "init"
    /\ IF DeviceOf(u).present
       THEN Kernel(u, Opened(DeviceOf(u), u)) /\ Goes(u, "setup")
       ELSE /\ user' = [user EXCEPT ![u] = [at |-> "failed", minor |-> NoMinor]]
            /\ UNCHANGED dev
    /\ UNCHANGED <<inhibited, lost, server, legacy, meddling>>

\* The callback setup: UdevInhibitor.for_device touches the lock file.
Setup(u) ==
    /\ user[u].at = "setup"
    /\ inhibited' = IF u \in Services THEN inhibited \cup {user[u].minor}
                    ELSE inhibited
    /\ Goes(u, IF u \in Locking THEN "lock" ELSE "configure")
    /\ UNCHANGED <<dev, lost, server, legacy, meddling>>

\* lo.flock(LOCK_EX | LOCK_NB); another device is tried when it fails.
Lock(u) ==
    /\ user[u].at = "lock"
    /\ IF DeviceOf(u).locked = NoUser
       THEN /\ Kernel(u, [DeviceOf(u) EXCEPT !.locked = u])
            /\ Goes(u, "configure")
            /\ UNCHANGED inhibited
       ELSE CloseLoop(u, "idle")
    /\ UNCHANGED <<lost, server, legacy, meddling>>

\* A mutation of Configure: a bound device is configured anew.
ConfigureOver(u) ==
    /\ user[u].at = "configure"
    /\ Kernel(u, Bound(DeviceOf(u), u, ~legacy))
    /\ Goes(u, IF legacy THEN "status" ELSE "bound")
    /\ UNCHANGED <<inhibited, lost, server, legacy, meddling>>

\* Loop.configure with autoclear=True: LOOP_CONFIGURE in one step, or
\* LOOP_SET_FD on an old kernel.  EBUSY: close and try the next device.
Configure(u) ==
    LET d == DeviceOf(u)
        busy == d.file # NoUser \/ (~legacy /\ ~d.drained)
    IN  /\ user[u].at = "configure"
        /\ IF busy THEN CloseLoop(u, "idle")
           ELSE /\ Kernel(u, Bound(d, u, ~legacy))
                /\ Goes(u, IF legacy THEN "status" ELSE "bound")
                /\ UNCHANGED inhibited
        /\ UNCHANGED <<lost, server, legacy, meddling>>

\* A mutation of SetStatus: autoclear is not set.
SetStatusPlain(u) ==
    /\ user[u].at = "status"
    /\ Goes(u, "bound")
    /\ UNCHANGED <<dev, inhibited, lost, server, legacy, meddling>>

\* LOOP_SET_STATUS64 of the fallback: EAGAIN while pages are left.
SetStatus(u) ==
    /\ user[u].at = "status"
    /\ IF DeviceOf(u).drained
       THEN Kernel(u, Bound(DeviceOf(u), u, TRUE)) /\ Goes(u, "bound")
       ELSE UNCHANGED dev /\ Goes(u, "clear")
    /\ UNCHANGED <<inhibited, lost, server, legacy, meddling>>

\* except BlockingIOError: lo.clear_fd(), lo.close(), next device.
GiveBack(u) ==
    /\ user[u].at = "clear"
    /\ dev' = [dev EXCEPT ![user[u].minor] = Released(Cleared(@, u), u)]
    /\ inhibited' = Release(u)
    /\ user' = [user EXCEPT ![u] = [at |-> "idle", minor |-> NoMinor]]
    /\ UNCHANGED <<lost, server, legacy, meddling>>

\* Loop.mknod puts the device in the directory of the stage, bind mounted
\* from the host's /dev or as a node of its own; either names the minor.
Mknod(u) ==
    /\ user[u].at = "bound"
    /\ Goes(u, "use")
    /\ UNCHANGED <<dev, inhibited, lost, server, legacy, meddling>>

\* The stage writes through the node.
Write(u) ==
    /\ user[u].at = "use"
    /\ DeviceOf(u).flushed
    /\ Kernel(u, [DeviceOf(u) EXCEPT !.flushed = FALSE, !.drained = FALSE])
    /\ UNCHANGED <<user, inhibited, lost, server, legacy, meddling>>

-----------------------------------------------------------------------------
(***************************************************************************)
(* LoopbackService.close: flush_buf, clear_fd_wait and Loop.close.         *)
(***************************************************************************)

FlushBuf(u) ==
    /\ u \in Services
    /\ user[u].at \in {"use", "flush"}
    /\ Kernel(u, [DeviceOf(u) EXCEPT !.flushed = TRUE])
    /\ Goes(u, "clear_fd")
    /\ UNCHANGED <<inhibited, lost, server, legacy, meddling>>

\* clear_fd of clear_fd_wait; ENXIO, the device is not bound, returns.
ClearFd(u) ==
    LET d == DeviceOf(u)
    IN  /\ user[u].at = "clear_fd"
        /\ IF d.file = NoUser THEN Goes(u, "close") /\ UNCHANGED <<dev, lost>>
           ELSE /\ Kernel(u, Cleared(d, u))
                /\ lost' = lost \cup Dropped(d, u)
                /\ Goes(u, "get_status")
        /\ UNCHANGED <<inhibited, server, legacy, meddling>>

\* A mutation of GetStatus: asked again, but not cleared again.
GetStatusPoll(u) ==
    /\ user[u].at = "get_status"
    /\ Goes(u, IF DeviceOf(u).file = u THEN "get_status" ELSE "close")
    /\ UNCHANGED <<dev, inhibited, lost, server, legacy, meddling>>

\* get_status and is_bound_to: not bound, or bound by somebody else, returns.
GetStatus(u) ==
    /\ user[u].at = "get_status"
    /\ Goes(u, IF DeviceOf(u).file = u THEN "clear_fd" ELSE "close")
    /\ UNCHANGED <<dev, inhibited, lost, server, legacy, meddling>>

\* Others held the device for the whole time-out.  The exception is the
\* answer to the manager; the device is closed when the service exits.
TimeOut(u) ==
    /\ user[u].at = "get_status"
    /\ DeviceOf(u).file = u
    /\ Goes(u, "exit")
    /\ UNCHANGED <<dev, inhibited, lost, server, legacy, meddling>>

Close(u) ==
    /\ user[u].at \in {"close", "exit"}
    /\ CloseLoop(u, IF user[u].at = "close" THEN "closed" ELSE "failed")
    /\ UNCHANGED <<lost, server, legacy, meddling>>

-----------------------------------------------------------------------------
(***************************************************************************)
(* LoopServer: when its clients are done _cleanup closes all devices.      *)
(***************************************************************************)

Cleanup ==
    /\ server = "up"
    /\ \A r \in Requests : user[r].at \in {"use"} \cup Ended
    /\ server' = "cleanup"
    /\ UNCHANGED <<dev, user, inhibited, lost, legacy, meddling>>

CloseDevice(u) ==
    /\ u \in Requests /\ server = "cleanup"
    /\ user[u].at = "use"
    /\ CloseLoop(u, "closed")
    /\ UNCHANGED <<lost, server, legacy, meddling>>

CleanedUp ==
    /\ server = "cleanup"
    /\ \A r \in Requests : user[r].at \in Ended
    /\ server' = "down"
    /\ UNCHANGED <<dev, user, inhibited, lost, legacy, meddling>>

\* A process is killed: the kernel closes its files, no callback runs.
Holders(gang) == {u \in gang : user[u].at \notin Ended}
Crash(gang) ==
    /\ Holders(gang) # {}
    /\ dev' = [m \in Minors |->
                 IF \E u \in gang : user[u].minor = m /\ u \in dev[m].opened
                 THEN Released(dev[m], CHOOSE u \in gang : user[u].minor = m
                                                           /\ u \in dev[m].opened)
                 ELSE dev[m]]
    /\ user' = [u \in Users |-> IF u \in Holders(gang)
                                THEN [at |-> "killed", minor |-> NoMinor]
                                ELSE user[u]]
    /\ server' = IF gang = Requests THEN "down" ELSE server
    /\ UNCHANGED <<inhibited, lost, legacy, meddling>>

Kill ==
    \/ \E u \in Services : Crash({u})
    \/ server # "down" /\ Crash(Requests)

-----------------------------------------------------------------------------
(***************************************************************************)
(* Others: udev probes a device, losetup removes one (LoopControl.remove)  *)
(* or adds one (LoopControl.add); the kernel drops the pages of a file.    *)
(***************************************************************************)

Probe(m) ==
    /\ meddling > 0 /\ dev[m].present /\ Other \notin dev[m].opened
    /\ dev' = [dev EXCEPT ![m] = Opened(@, Other)]
    /\ meddling' = meddling - 1
    /\ UNCHANGED <<user, inhibited, lost, server, legacy>>

ProbeEnds(m) ==
    /\ Other \in dev[m].opened
    /\ dev' = [dev EXCEPT ![m] = Released(@, Other)]
    /\ UNCHANGED <<user, inhibited, lost, server, legacy, meddling>>

Remove(m) ==
    /\ meddling > 0
    /\ dev[m].present /\ dev[m].file = NoUser /\ dev[m].opened = {}
    /\ dev' = [dev EXCEPT ![m].present = FALSE]
    /\ meddling' = meddling - 1
    /\ UNCHANGED <<user, inhibited, lost, server, legacy>>

Add(m) ==
    /\ meddling > 0 /\ ~dev[m].present
    /\ dev' = [dev EXCEPT ![m].present = TRUE]
    /\ meddling' = meddling - 1
    /\ UNCHANGED <<user, inhibited, lost, server, legacy>>

Drain(m) ==
    /\ ~dev[m].drained
    /\ \A u \in Users : user[u].minor = m => user[u].at \notin Using \cup Closing
    /\ dev' = [dev EXCEPT ![m].drained = TRUE]
    /\ UNCHANGED <<user, inhibited, lost, server, legacy, meddling>>

Done ==
    /\ \A u \in Users : user[u].at \in Ended
    /\ server = "down"
    /\ UNCHANGED vars

Advance(u) ==
    \/ GetUnbound(u) \/ OpenLoop(u) \/ Setup(u) \/ Lock(u) \/ Configure(u)
    \/ SetStatus(u) \/ GiveBack(u) \/ Mknod(u) \/ FlushBuf(u) \/ ClearFd(u)
    \/ GetStatus(u) \/ Close(u) \/ CloseDevice(u)

Next ==
    \/ \E u \in Users : Advance(u) \/ Write(u) \/ TimeOut(u)
    \/ Cleanup \/ CleanedUp \/ Kill \/ Done
    \/ \E m \in Minors : Probe(m) \/ ProbeEnds(m) \/ Remove(m) \/ Add(m) \/ Drain(m)

Spec == Init /\ [][Next]_vars

\* The processes run, udev lets go of a device, the kernel frees pages.
FairSpec ==
    /\ Spec
    /\ \A u \in Users : WF_vars(Advance(u))
    /\ WF_vars(Cleanup) /\ WF_vars(CleanedUp)
    /\ \A m \in Minors : WF_vars(ProbeEnds(m)) /\ WF_vars(Drain(m))

-----------------------------------------------------------------------------
\* "The created loopback device is guaranteed to be bound to the given
\* backing file descriptor for the lifetime of the LoopServer object"
\* (remoteloop.py:34), and a stage's node leads to the file of that stage:
\* whatever two users, udev and losetup do between LOOP_CTL_GET_FREE and
\* LOOP_CONFIGURE, nobody takes or unbinds the device of another.
BoundWhileUsed ==
    \A u \in Users : user[u].at \in Using => DeviceOf(u).file = u

\* A device nobody has open is not bound, however its user ended: configure
\* asks for autoclear.  Only an old kernel leaves a device bound for ever,
\* when its user is killed between LOOP_SET_FD and LOOP_SET_STATUS64.
NothingStaysBound ==
    \A m \in Minors : dev[m].opened = {} /\ dev[m].file # NoUser
        => legacy /\ user[dev[m].file].at = "killed"

\* A stage whose device was closed finds what it wrote in the file:
\* LoopbackService.close flushes before clear_fd unbinds.
WritesReachFile == lost = {}

\* A user of a lock has the device to itself among those that ask for locks,
\* from before it configures it until it closes it (loop_for_fd, lock).
LockHeld ==
    \A u \in Locking : user[u].at \in {"configure", "status"} \cup Using
        => DeviceOf(u).locked = u

\* The lock files left behind are those of services that were killed: each
\* close of a Loop releases what its setup touched.
LockFilesReleased ==
    (\A u \in Users : user[u].at \in {"closed", "failed"}) => inhibited = {}

\* loop_for_fd stops retrying and clear_fd_wait stops waiting, as long as one
\* device is not left behind by NothingStaysBound's exception.
UsersEnd ==
    <>(\/ \A u \in Users : user[u].at \in Ended
       \/ \A m \in Minors : dev[m].opened = {} /\ dev[m].file # NoUser)

\* "For each device a lock file is created" (util/udev.py:17): the rules are
\* inhibited as long as a loopback service uses the device.
InhibitedWhileUsed ==
    \A u \in Services : user[u].at \in Using => user[u].minor \in inhibited

\* From the moment a user of the loop control configures a device until it closes
\* it, the device is that user's: its file, its lock, and what is written to it.
DeviceIsMine == BoundWhileUsed /\ LockHeld /\ WritesReachFile

\* What users leave behind: no bound device and no lock file, however they end,
\* but for the exceptions above.
LeftClean == TypeOK /\ NothingStaysBound /\ LockFilesReleased
=============================================================================
