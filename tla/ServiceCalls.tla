--------------------------- MODULE ServiceCalls -----------------------------
(***************************************************************************)
(* Method calls between osbuild and a host service: ServiceClient and      *)
(* Service (osbuild/host.py) over a pair of jsoncomm sockets               *)
(* (osbuild/util/jsoncomm.py).                                             *)
(*                                                                         *)
(* A packet carries a JSON text and file descriptors.  A text larger than  *)
(* the send buffer travels in a memfd, the first descriptor of a packet    *)
(* that has only a marker as its text.  The kernel gives a received file   *)
(* the lowest descriptor that is free, so a descriptor that is closed too  *)
(* often or too early is soon another file.                                *)
(***************************************************************************)
EXTENDS Integers, Sequences, SequencesExt, FiniteSets, TLC

CONSTANTS
    Methods,       \* what the methods of the service do; a subset of AllMethods
    MaxCalls,      \* calls of the client
    MaxSignals,    \* signals of a call
    Cap            \* packets that a socket holds

AllMethods == {"value",    \* returns a value
               "open",     \* opens a file and returns its descriptor
               "steal",    \* takes the descriptor it got and returns it
               "back",     \* returns the descriptor it got, but leaves it in the set
               "wrong",    \* returns a descriptor that is not open
               "raise",    \* raises
               "unfit"}    \* returns what JSON cannot express

ASSUME CallsAssumption ==
    /\ Methods \subseteq AllMethods
    /\ MaxCalls \in Nat /\ MaxSignals \in Nat /\ Cap \in Nat \ {0}

VARIABLES
    cli,       \* the client: pc, its open files, the call, what it returned
    svc,       \* the service: pc, its open files, the message it handles
    chan,      \* per receiver: packets under way
    up,        \* per side: its end of the pair is open
    cause      \* why the service, or a message, was lost

vars == <<cli, svc, chan, up, cause>>

-----------------------------------------------------------------------------
(***************************************************************************)
(* Descriptors                                                             *)
(***************************************************************************)

\* open maps descriptors to files.  The n lowest that are free, in order:
Free(open, n) ==
    LET free == 0..(Cardinality(DOMAIN open) + n - 1) \ DOMAIN open IN
    SubSeq(SetToSortSeq(free, LAMBDA d, e : d < e), 1, n)
Install(open, files) ==
    LET new == Free(open, Len(files)) IN
    [d \in DOMAIN open \cup {new[j] : j \in DOMAIN new} |->
        IF d \in DOMAIN open THEN open[d]
        ELSE files[CHOOSE j \in DOMAIN new : new[j] = d]]

Stolen == -1
\* FdSet.close: all entries that were not stolen
Closed(open, set) ==
    [d \in DOMAIN open \ {set[j] : j \in DOMAIN set} |-> open[d]]

\* _check_fds
Valid(open, fds) == \A j \in DOMAIN fds : fds[j] \in DOMAIN open

-----------------------------------------------------------------------------
(***************************************************************************)
(* Socket.send and Socket.recv                                             *)
(***************************************************************************)

\* Sizes of texts in units of 4096 bytes; the send buffer has room for SendBuffer.
Sizes == {1, 3, 5}
SendBuffer == 4
Marker == 1

\* _send_via_fd makes a memfd of the text before the files of fds are looked up, and
\* closes it when the packet is sent; _send_via_sendmsg needs none.
Sending(open, size) == IF size > SendBuffer THEN Install(open, <<"memfd">>) ELSE open
Packet(msg, size, open, fds) ==
    LET files == [j \in DOMAIN fds |-> Sending(open, size)[fds[j]]]
    IN  IF size > SendBuffer
        THEN [msg |-> msg, viaFd |-> TRUE, size |-> Marker, files |-> <<"memfd">> \o files]
        ELSE [msg |-> msg, viaFd |-> FALSE, size |-> size, files |-> files]

\* recv looks at the packet with a buffer that doubles until it has room.
Room(size) ==
    LET Double[n \in Nat] == IF n >= size THEN n ELSE Double[2 * n] IN Double[1]

\* A mutation of Received: the payload stays open, and the set begins with it.
ReceivedWithPayload(open, pkt, n) ==
    LET all == Install(open, SubSeq(pkt.files, 1, n)) IN
    [open |-> all, set |-> Free(open, n),
     ok |-> n = Len(pkt.files) /\ Room(pkt.size) >= pkt.size]
\* A packet of which the kernel passes on the first n files.  The payload is read
\* from the first one and that closed; the others make the FdSet.  Without the
\* payload, or with a part of the text or of the files, the message is an error
\* and the set is closed (__del__).
Received(open, pkt, n) ==
    LET fds == Free(open, n)
        all == Install(open, SubSeq(pkt.files, 1, n))
        set == IF pkt.viaFd /\ n > 0 THEN Tail(fds) ELSE fds
        rest == IF pkt.viaFd /\ n > 0 THEN Closed(all, <<fds[1]>>) ELSE all
        whole == n = Len(pkt.files) /\ Room(pkt.size) >= pkt.size
    IN  [open |-> IF whole THEN rest ELSE Closed(rest, set), set |-> set, ok |-> whole]

-----------------------------------------------------------------------------
(***************************************************************************)
(* ServiceClient                                                           *)
(***************************************************************************)
OwnFiles == (0 :> "socket") @@ (1 :> "arg")
ServiceFiles == (0 :> "socket")

Init ==
    /\ cli = [pc |-> "idle", open |-> OwnFiles, call |-> 0, method |-> "none",
              set |-> <<>>, got |-> <<>>, files |-> <<>>, seen |-> <<>>]
    /\ svc = [pc |-> "recv", open |-> ServiceFiles, call |-> 0, method |-> "none",
              set |-> <<>>, signals |-> 0, reply |-> "none", fds |-> <<>>]
    /\ chan = [host |-> <<>>, service |-> <<>>]
    /\ up = [host |-> TRUE, service |-> TRUE]
    /\ cause = "none"

\* call_with_fds: encode_method and send.  What the previous call returned is no
\* longer referred to.
Call ==
    /\ cli.pc = "idle" /\ cli.call < MaxCalls
    /\ \E m \in Methods, size \in Sizes, withFd \in BOOLEAN :
          /\ m \in {"steal", "back"} => withFd
          /\ IF ~up.service THEN cli' = [cli EXCEPT !.pc = "failed"] /\ UNCHANGED chan
             ELSE /\ Len(chan.service) < Cap
                  /\ chan' = [chan EXCEPT !.service = Append(@, Packet(
                        [kind |-> "method", call |-> cli.call + 1, method |-> m,
                         signals |-> 0],
                        size, cli.open, IF withFd THEN <<1>> ELSE <<>>))]
                  /\ cli' = [cli EXCEPT !.pc = "wait", !.call = @ + 1, !.method = m,
                       !.got = <<>>, !.seen = <<>>, !.files = <<>>,
                       !.open = Closed(@, cli.set), !.set = <<>>]
    /\ UNCHANGED <<svc, up, cause>>

\* decode_message
Decode(msg) == msg.kind

\* The loop of call_with_fds: signals are handed to on_signal, until there is a
\* reply or an exception.  recv returns None when the service is gone.  The FdSet of
\* the previous message is there until recv has returned the next one.
ClientRecv ==
    /\ cli.pc = "wait" /\ chan.host # <<>>
    /\ LET pkt == Head(chan.host) IN \E n \in 0..Len(pkt.files) :
       LET r == Received(cli.open, pkt, n)
           kind == Decode(pkt.msg)
           kept == Closed(r.open, cli.set)
       IN cli' = [cli EXCEPT
            !.open = IF r.ok /\ kind # "exception" THEN kept ELSE Closed(kept, r.set),
            !.set = IF r.ok /\ kind # "exception" THEN r.set ELSE <<>>,
            !.pc = CASE ~r.ok -> "failed"
                     [] r.ok /\ kind = "signal" -> "wait"
                     [] r.ok /\ kind # "signal" -> "idle",
            !.got = IF r.ok /\ kind # "signal" THEN <<pkt.msg>> ELSE @,
            !.files = IF r.ok /\ kind = "reply"
                      THEN [j \in DOMAIN r.set |-> r.open[r.set[j]]] ELSE @,
            !.seen = IF r.ok /\ kind = "signal" THEN Append(@, pkt.msg.signals) ELSE @]
          /\ cause' = IF n < Len(pkt.files) THEN "withheld" ELSE cause
    /\ chan' = [chan EXCEPT !.host = Tail(@)]
    /\ UNCHANGED <<svc, up>>

ClientEnd ==
    /\ cli.pc = "wait" /\ chan.host = <<>> /\ ~up.service
    /\ cli' = [cli EXCEPT !.pc = "failed"]
    /\ UNCHANGED <<svc, chan, up, cause>>

\* ServiceClient.stop, after the calls, an error, or an interrupt
Stop ==
    /\ cli.pc \in {"idle", "wait", "failed"}
    /\ cli' = [cli EXCEPT !.pc = "join"]
    /\ up' = [up EXCEPT !.host = FALSE]
    /\ chan' = [chan EXCEPT !.host = <<>>]
    /\ UNCHANGED <<svc, cause>>

Join ==
    /\ cli.pc = "join" /\ svc.pc = "gone"
    /\ cli' = [cli EXCEPT !.pc = "done"]
    /\ UNCHANGED <<svc, chan, up, cause>>

-----------------------------------------------------------------------------
(***************************************************************************)
(* Service.serve                                                           *)
(***************************************************************************)
ServiceRecv ==
    /\ svc.pc = "recv" /\ chan.service # <<>>
    /\ LET pkt == Head(chan.service) IN \E n \in 0..Len(pkt.files) :
       LET r == Received(svc.open, pkt, n)
       IN /\ svc' = [svc EXCEPT !.open = r.open, !.set = r.set, !.signals = 0,
               !.call = pkt.msg.call, !.method = pkt.msg.method,
               !.pc = IF r.ok THEN "dispatch" ELSE "stop"]
          /\ cause' = IF n < Len(pkt.files) THEN "withheld" ELSE cause
    /\ chan' = [chan EXCEPT !.service = Tail(@)]
    /\ UNCHANGED <<cli, up>>

\* The host closed its end: recv returns None, or raises ECONNRESET at once when
\* the host left something unread.
ServiceEnd ==
    /\ svc.pc = "recv" /\ ~up.host
    /\ svc' = [svc EXCEPT !.pc = "stop"]
    /\ UNCHANGED <<cli, chan, up, cause>>

\* emit_signal, with the descriptor of the request or none; EPIPE raises in dispatch.
Message(kind) == [kind |-> kind, call |-> svc.call, method |-> svc.method,
                  signals |-> svc.signals]
Emit ==
    /\ svc.pc = "dispatch" /\ svc.signals < MaxSignals
    /\ IF up.host
       THEN /\ Len(chan.host) < Cap
            /\ svc' = [svc EXCEPT !.signals = @ + 1]
            /\ \E size \in Sizes,
                  fds \in {<<>>} \cup {<<svc.set[j]>> : j \in DOMAIN svc.set} :
                 chan' = [chan EXCEPT !.host = Append(@, Packet(
                    [Message("signal") EXCEPT !.signals = @ + 1], size, svc.open, fds))]
       ELSE svc' = [svc EXCEPT !.pc = "check", !.reply = "exception"] /\ UNCHANGED chan
    /\ UNCHANGED <<cli, up, cause>>

\* dispatch() of the service returns a reply and descriptors, or raises.
Returns(reply, fds) == svc' = [svc EXCEPT !.pc = "check", !.reply = reply, !.fds = fds]
Dispatch ==
    /\ svc.pc = "dispatch"
    /\ \/ svc.method = "value" /\ Returns("reply", <<>>)
       \/ svc.method = "raise" /\ Returns("exception", <<>>)
       \/ svc.method = "unfit" /\ Returns("unfit", <<>>)
       \/ svc.method = "wrong" /\ Returns("reply", <<99>>)
       \/ svc.method = "back" /\ Returns("reply", <<svc.set[1]>>)
       \/ /\ svc.method = "open"
          /\ svc' = [svc EXCEPT !.pc = "check", !.reply = "reply",
                       !.fds = Free(svc.open, 1), !.open = Install(@, <<"result">>)]
       \/ /\ svc.method = "steal"
          /\ svc' = [svc EXCEPT !.pc = "check", !.reply = "reply",
                       !.fds = <<svc.set[1]>>, !.set = [@ EXCEPT ![1] = Stolen]]
    /\ UNCHANGED <<cli, chan, up, cause>>

\* Mutations of Handled: the request's descriptors stay open, or are closed and
\* stay in the set, to be closed once more.
HandledKept ==
    /\ svc.pc = "check"
    /\ LET valid == Valid(svc.open, svc.fds) IN
       svc' = [svc EXCEPT !.pc = "send", !.set = <<>>,
         !.reply = IF valid THEN @ ELSE "exception",
         !.fds = IF valid THEN @ ELSE <<>>,
         !.open = IF valid THEN @ ELSE Closed(@, svc.fds)]
    /\ UNCHANGED <<cli, chan, up, cause>>
\* _check_fds(reply_fds): an exception closes them and becomes the reply; finally
\* fds.close()
Handled ==
    /\ svc.pc = "check"
    /\ LET valid == Valid(svc.open, svc.fds) IN
       svc' = [svc EXCEPT !.pc = "send", !.set = <<>>,
         !.reply = IF valid THEN @ ELSE "exception",
         !.fds = IF valid THEN @ ELSE <<>>,
         !.open = Closed(IF valid THEN @ ELSE Closed(@, svc.fds), svc.set)]
    /\ UNCHANGED <<cli, chan, up, cause>>

\* json.dumps and sendmsg succeed.  A descriptor that fds.close() has just closed is
\* open again when the memfd of the text has taken its number.
Sendable(size) == svc.reply # "unfit" /\ Valid(Sending(svc.open, size), svc.fds)
Sends ==
    /\ up.host /\ Len(chan.host) < Cap
    /\ \E size \in Sizes :
        /\ Sendable(size)
        /\ chan' = [chan EXCEPT !.host =
                      Append(@, Packet(Message(svc.reply), size, svc.open, svc.fds))]
    /\ svc' = [svc EXCEPT !.pc = "recv", !.open = Closed(@, svc.fds), !.fds = <<>>]
    /\ UNCHANGED cause

\* A mutation of Send: BrokenPipeError is taken for a full socket.
SendAgain == svc.pc = "send" /\ Sends /\ UNCHANGED <<cli, up>>
\* sock.send, finally _close_all(reply_fds): EPIPE leaves the loop; a reply that is
\* no JSON, or a descriptor that is not open, raises out of serve().
Send ==
    /\ svc.pc = "send"
    /\ \/ Sends
       \/ /\ \E size \in Sizes :
                /\ ~up.host \/ ~Sendable(size)
                /\ cause' = IF Sendable(size) THEN cause ELSE "unsendable"
          /\ svc' = [svc EXCEPT !.pc = "stop", !.open = Closed(@, svc.fds), !.fds = <<>>]
          /\ UNCHANGED chan
    /\ UNCHANGED <<cli, up>>

\* Service.main: finally self.stop(), and the process ends; or it is killed.
Gone ==
    /\ svc' = [svc EXCEPT !.pc = "gone", !.open = <<>>, !.set = <<>>, !.fds = <<>>]
    /\ up' = [up EXCEPT !.service = FALSE]
    /\ chan' = [chan EXCEPT !.service = <<>>]
    /\ UNCHANGED cli
ServiceStop == svc.pc = "stop" /\ Gone /\ UNCHANGED cause
ServiceKilled == svc.pc # "gone" /\ Gone /\ cause' = "killed"

-----------------------------------------------------------------------------
ClientStep == Call \/ ClientRecv \/ ClientEnd \/ Join
ServiceStep ==
    ServiceRecv \/ ServiceEnd \/ Dispatch \/ Handled \/ Send \/ ServiceStop
Done == cli.pc = "done" /\ UNCHANGED vars

Next == ClientStep \/ Stop \/ ServiceStep \/ Emit \/ ServiceKilled \/ Done

Spec == Init /\ [][Next]_vars

\* The processes go on; dispatch() ends; nobody owes an
\* interrupt, but the context of the service manager is left after the calls.
FairSpec ==
    Spec /\ WF_vars(ClientStep) /\ WF_vars(ServiceStep)
    /\ WF_vars(cli.pc # "wait" /\ Stop)

-----------------------------------------------------------------------------
(***************************************************************************)
(* Properties                                                              *)
(***************************************************************************)

\* Types; a descriptor in a set is open, or was stolen.
TypeOK ==
    /\ cli.pc \in {"idle", "wait", "failed", "join", "done"}
    /\ svc.pc \in {"recv", "dispatch", "check", "send", "stop", "gone"}
    /\ cause \in {"none", "withheld", "unsendable", "killed"}
    /\ \A r \in DOMAIN chan : Len(chan[r]) <= Cap
    /\ ToSet(cli.set) \subseteq DOMAIN cli.open
    /\ ToSet(svc.set) \subseteq DOMAIN svc.open \cup {Stolen}

\* What a call returns is the answer to this call; on_signal was given every signal
\* the service emitted for it, in order; and the descriptors it returns are the
\* files that the service meant, however large the messages were.  A method that
\* returns a descriptor and leaves it in the set is excepted: it is closed before
\* the reply is sent, and when the reply is large the client can get the memfd of
\* its text for it.
Meant(method) ==
    CASE method = "open" -> <<"result">> [] method = "steal" -> <<"arg">> [] OTHER -> <<>>
AnswersMatch ==
    (cli.pc = "idle" /\ cli.got # <<>>) =>
        /\ cli.got[1].call = cli.call
        /\ cli.seen = [k \in 1..cli.got[1].signals |-> k]
        /\ cli.got[1].kind = "reply" /\ cli.method # "back" =>
                cli.files = Meant(cli.method)

\* Between two messages a service has no descriptor but its own open; the client
\* has those it was returned and its own ("we do not leak FDs in case the message
\* handling fails for other reasons").
NothingLeaks ==
    /\ svc.pc = "recv" => svc.open = ServiceFiles
    /\ cli.pc \in {"idle", "failed"} =>
          /\ DOMAIN cli.open = DOMAIN OwnFiles \cup ToSet(cli.set)
          /\ \A d \in DOMAIN OwnFiles : cli.open[d] = OwnFiles[d]

\* A call raises an error that the service did not send only if the service was
\* killed, its answer could not be sent, or the kernel withheld a descriptor.
FailsForCause == cli.pc = "failed" => cause # "none"

\* A call ends, whatever the service does and wherever one of the two is
\* interrupted or killed; and stop(), which waits for the process, does.
CallsEnd == (cli.pc = "wait" ~> cli.pc # "wait") /\ <>(cli.pc = "done")

\* A descriptor that cannot be sent is noticed before the reply is sent ("Catch
\* invalid file descriptors early so that we send an error reply instead of
\* throwing an exception in `sock.send` later").
InvalidFdsAnswered == svc.pc = "send" => Valid(svc.open, svc.fds)

\* What a call of ServiceClient.call_with_fds gives its caller: its own answer, or
\* an error that has a cause.
CallsAnswered == AnswersMatch /\ FailsForCause

\* Descriptors are closed once, on both sides and on every path.
DescriptorsClosed == TypeOK /\ NothingLeaks
=============================================================================
