---------------------------- MODULE BuildOutput ----------------------------
(***************************************************************************)
(* Where the output of a build goes: Manifest.download and Pipeline.run of *)
(* osbuild/pipeline.py report to the monitor; ServiceManager of            *)
(* osbuild/host.py forwards what services print, from the thread of its    *)
(* event loop; BuildRoot.run of osbuild/buildroot.py reads what a stage    *)
(* prints.                                                                 *)
(*                                                                         *)
(* Jobs are the sources, in order, and after them one pipeline.  Manager 0 *)
(* has the services of the sources; Stage.run enters manager k for those   *)
(* of the inputs, devices and mounts of stage k.  One is left before the   *)
(* next is entered.                                                        *)
(***************************************************************************)
EXTENDS Monitor, FiniteSets

CONSTANTS
    Stages,      \* what each stage of the pipeline prints, as a sequence of
                 \* "c", a character, or "h" and "t", the bytes of one
    Lines,       \* how many lines each service of each manager prints
    PipeSize     \* lines a pipe holds, each as long as two bytes of a stage

Managers == 0..Len(Stages)
Sources == 1..Len(Lines[0])
Pipeline == Len(Lines[0]) + 1
Service == UNION {{<<m, i>> : i \in 1..Len(Lines[m])} : m \in Managers}
Prints(s) == Lines[s[1]][s[2]]

ASSUME OutputAssumption ==
    /\ Threads = {Main, "loop"} /\ Main # "loop"
    /\ Stages \in Seq(Seq({"c", "h", "t"})) /\ PipeSize \in Nat \ {0}
    /\ Lines \in [Managers -> Seq(Nat)] /\ Lines[0] # <<>>

VARIABLES
    main,     \* where the main thread is: the job, the stage (0 before the
              \* first), the success, and whether an exception is on its way
    svc,      \* each service and its output pipe
    loop,     \* the event loop of the service manager, and its thread
    prog,     \* the program of the stage and its output pipe
    result    \* what BuildRoot.run has collected of each stage

vars == <<monitor, main, svc, loop, prog, result>>

Init ==
    /\ MonitorInit
    /\ main = [at |-> "enter", job |-> 1, stage |-> 0, success |-> TRUE,
               raised |-> FALSE]
    /\ svc = [s \in Service |->
                [at |-> "none", left |-> Prints(s), pipe |-> <<>>, text |-> <<>>]]
    /\ loop = [at |-> "ended", todo |-> {}, readers |-> {}, stop |-> FALSE]
    /\ prog = [at |-> "none", left |-> <<>>, pipe |-> <<>>]
    /\ result = <<>>

-----------------------------------------------------------------------------
(***************************************************************************)
(* The main thread.  It does nothing else while it is inside a log call.   *)
(***************************************************************************)
At(place) == main.at = place /\ Quiet(Main)
Goes(place) == main' = [main EXCEPT !.at = place]
\* An exception: the service manager is left.
Raise == main' = [main EXCEPT !.at = "exit", !.raised = TRUE]

OfMain == "osbuild.monitor"
OfStage == "stages"
Say(text) == Log(Main, <<text, main.job, main.stage>>, OfMain)

\* Manifest.download and Pipeline.run: monitor.begin, in three steps for the
\* two fields of set_pipeline and the message.
BeginName ==
    /\ At("begin")
    /\ SetName(main.job)
    /\ Goes("begin pid")
    /\ UNCHANGED <<history, progress, mutex, call, out, svc, loop, prog, result>>

BeginPid ==
    /\ At("begin pid")
    /\ SetPid(main.job)
    /\ Goes("begin log")
    /\ UNCHANGED <<history, progress, mutex, call, out, svc, loop, prog, result>>

BeginLog ==
    /\ At("begin log")
    /\ IF main.job = Pipeline THEN SubProgress(Len(Stages)) ELSE UNCHANGED progress
    /\ Say("begin")
    /\ Goes(IF main.job = Pipeline THEN "stage" ELSE "start")
    /\ UNCHANGED <<context, history, mutex, out, svc, loop, prog, result>>

\* ServiceManager.__enter__: a new event loop, and a new thread that runs it.
EnterManager ==
    /\ At("enter")
    /\ loop' = [at |-> "select", todo |-> {}, readers |-> {}, stop |-> FALSE]
    /\ Goes(IF main.job = Pipeline THEN "start" ELSE "begin")
    /\ UNCHANGED <<monitor, svc, prog, result>>

\* The services of the manager that is entered, in the order of their start.
Started == {s \in Service : s[1] = main.stage /\ svc[s].at # "none"}
Newest == <<main.stage, Cardinality(Started)>>
Following == <<main.stage, Cardinality(Started) + 1>>

\* ServiceManager.start and ServiceClient.call: of Source.download, and of the
\* inputs, devices and mounts in Stage.run.  After them the stage is run.
StartService ==
    /\ At("start")
    /\ \/ /\ Following \in Service
          /\ svc' = [svc EXCEPT ![Following].at = "run"]
          /\ loop' = [loop EXCEPT !.readers = @ \cup {Following}]
          /\ Goes("call")
       \/ /\ Following \notin Service
          /\ Goes("run")
          /\ UNCHANGED <<svc, loop>>
    /\ UNCHANGED <<monitor, prog, result>>

\* SourceResults.from_dict(reply): a source may report that it failed.  The next
\* service of a stage is started.
Replied ==
    /\ At("call")
    /\ svc[Newest].at = "replied"
    /\ \/ /\ main.job # Pipeline
          /\ \E success \in BOOLEAN : main' = [main EXCEPT !.at = "result",
                                                           !.success = @ /\ success]
       \/ main.job = Pipeline /\ Goes("start")
    /\ UNCHANGED <<monitor, svc, loop, prog, result>>

\* The service has sent an exception: call raises RemoteError.
CallRaises ==
    /\ At("call")
    /\ svc[Newest].at = "replied"
    /\ Raise
    /\ UNCHANGED <<monitor, svc, loop, prog, result>>

\* monitor.result.
Result ==
    /\ At("result")
    /\ IncrSub
    /\ Say("result")
    /\ Goes(IF main.job # Pipeline THEN "finish"
            ELSE IF main.success /\ main.stage < Len(Stages) THEN "stage" ELSE "finish")
    /\ UNCHANGED <<context, history, mutex, out, svc, loop, prog, result>>

\* monitor.finish; after the last source its service manager is left.
Finish ==
    /\ At("finish")
    /\ Incr
    /\ Say("finish")
    /\ main' = [main EXCEPT !.at = IF main.job = Pipeline THEN "done"
                                   ELSE IF main.job + 1 = Pipeline THEN "exit"
                                   ELSE "begin",
                            !.job = IF main.job + 1 < Pipeline THEN @ + 1 ELSE @]
    /\ UNCHANGED <<context, history, mutex, out, svc, loop, prog, result>>

\* ServiceManager.__exit__: the last service first; each is waited for.
Running == {s \in Service : svc[s].at \in {"run", "replied", "exit"}}

ExitServices ==
    /\ At("exit")
    /\ \E s \in Running :
        /\ \A r \in Running : r[2] <= s[2]
        /\ svc[s].at = "replied"
        /\ svc' = [svc EXCEPT ![s].at = "exit"]
    /\ UNCHANGED <<monitor, main, loop, prog, result>>

\* A mutation of ExitLoop: the event loop is stopped before the services are.
ExitLoopFirst ==
    /\ At("exit")
    /\ loop' = [loop EXCEPT !.stop = TRUE]
    /\ IF Running = {} THEN Goes("join") ELSE UNCHANGED main
    /\ UNCHANGED <<monitor, svc, prog, result>>

\* call_soon_threadsafe(stop), after the last of the services has exited.
ExitLoop ==
    /\ At("exit")
    /\ Running = {}
    /\ loop' = [loop EXCEPT !.stop = TRUE]
    /\ Goes("join")
    /\ UNCHANGED <<monitor, svc, prog, result>>

\* thread.join() of ServiceManager.__exit__; Manifest.build goes on with the
\* pipeline when no source failed, build_stages with the result of the stage.
ExitJoin ==
    /\ At("join")
    /\ loop.at = "ended"
    /\ IF main.raised THEN Goes("raised")
       ELSE IF main.job = Pipeline THEN Goes("result")
       ELSE IF main.success THEN main' = [main EXCEPT !.at = "begin", !.job = Pipeline]
       ELSE Goes("done")
    /\ UNCHANGED <<monitor, svc, loop, prog, result>>

\* JSONSeqMonitor._module: set_stage (no service manager is entered: both
\* fields are read by this thread only) and the message; then Stage.run.
BeginStage ==
    /\ At("stage")
    /\ SetStage(main.stage + 1)
    /\ main' = [main EXCEPT !.at = "enter", !.stage = @ + 1]
    /\ Log(Main, <<"stage", main.job, main.stage + 1>>, OfMain)
    /\ UNCHANGED <<history, progress, mutex, out, svc, loop, prog, result>>

-----------------------------------------------------------------------------
(***************************************************************************)
(* BuildRoot.run                                                           *)
(***************************************************************************)

\* subprocess.Popen of bwrap.
RunProgram ==
    /\ At("run")
    /\ prog' = [at |-> "run", left |-> Stages[main.stage], pipe |-> <<>>]
    /\ result' = Append(result, <<>>)
    /\ Goes("read")
    /\ UNCHANGED <<monitor, svc, loop>>

\* bytes.decode of a part of the output.
Decodes(bytes) ==
    \A i \in 1..Len(bytes) :
        /\ bytes[i] = "h" => i < Len(bytes) /\ bytes[i + 1] = "t"
        /\ bytes[i] = "t" => i > 1 /\ bytes[i - 1] = "h"

\* data.write and monitor.log of the text; the log may not be missing.
Collected(bytes) ==
    /\ result' = [result EXCEPT ![main.stage] = @ \o bytes]
    /\ Log(Main, <<"output", bytes, Len(result[main.stage])>>, OfStage)

\* read_with_timeout returns what it got, up to all that is in the pipe.
\* A part that ends inside a character raises UnicodeDecodeError.
Read ==
    /\ At("read")
    /\ prog.pipe # <<>>
    /\ \E n \in 1..Len(prog.pipe) :
        LET bytes == SubSeq(prog.pipe, 1, n)
        IN  /\ prog' = [prog EXCEPT !.pipe = SubSeq(@, n + 1, Len(@))]
            /\ IF Decodes(bytes) THEN Collected(bytes) /\ UNCHANGED main
               ELSE Raise /\ UNCHANGED <<result, call>>
    /\ UNCHANGED <<context, history, progress, mutex, out, svc, loop>>

\* Nothing came before the end of the time-out.
TimeOut ==
    /\ At("read")
    /\ prog.pipe = <<>> /\ prog.at = "run"
    /\ prog' = [prog EXCEPT !.at = "ended"]
    /\ Raise
    /\ UNCHANGED <<monitor, svc, loop, result>>

\* The program has closed its output: communicate reads what is left, waits
\* for it, and the empty rest is logged too.  The stage may have failed.
Communicate ==
    /\ At("read")
    /\ prog.at = "ended" /\ prog.pipe = <<>>
    /\ Collected(<<>>)
    /\ \E success \in BOOLEAN : main' = [main EXCEPT !.at = "exit",
                                                     !.success = success]
    /\ UNCHANGED <<context, history, progress, mutex, out, svc, loop, prog>>

\* The program of the stage prints, and ends.
StagePrints ==
    /\ prog.at = "run"
    /\ prog.left # <<>> /\ Len(prog.pipe) < 2 * PipeSize
    /\ prog' = [prog EXCEPT !.left = Tail(@), !.pipe = Append(@, Head(prog.left))]
    /\ UNCHANGED <<monitor, main, svc, loop, result>>

End ==
    /\ prog.at = "run" /\ prog.left = <<>>
    /\ prog' = [prog EXCEPT !.at = "ended"]
    /\ UNCHANGED <<monitor, main, svc, loop, result>>

-----------------------------------------------------------------------------
(***************************************************************************)
(* The services, and the thread that reads their output.                   *)
(***************************************************************************)

\* A line is written while the call is served, or when the service stops.
PrintLine(s) ==
    /\ svc[s].at \in {"run", "exit"}
    /\ svc[s].left > 0 /\ Len(svc[s].pipe) < PipeSize
    /\ svc' = [svc EXCEPT ![s].left = @ - 1, ![s].pipe = Append(@, svc[s].left)]
    /\ UNCHANGED <<monitor, main, loop, prog, result>>

Reply(s) ==
    /\ svc[s].at = "run"
    /\ svc' = [svc EXCEPT ![s].at = "replied"]
    /\ UNCHANGED <<monitor, main, loop, prog, result>>

Leave(s) ==
    /\ svc[s].at = "exit" /\ svc[s].left = 0
    /\ svc' = [svc EXCEPT ![s].at = "ended"]
    /\ UNCHANGED <<monitor, main, loop, prog, result>>

\* asyncio: the readers whose pipes can be read, then their callbacks; stop
\* ends the loop after the callbacks of the round it is seen in.
Readable(s) == s \in loop.readers /\ (svc[s].pipe # <<>> \/ svc[s].at = "ended")

Select ==
    /\ loop.at = "select"
    /\ loop.stop \/ \E s \in Service : Readable(s)
    /\ loop' = [loop EXCEPT !.at = IF loop.stop THEN "last" ELSE "round",
                            !.todo = {s \in Service : Readable(s)}]
    /\ UNCHANGED <<monitor, main, svc, prog, result>>

\* A mutation of StdoutReady: a text wrapper that gives a line that was just read a second time.
StdoutReadyAgain(s) ==
    LET text == svc[s].text \o svc[s].pipe
    IN  /\ loop.at \in {"round", "last"} /\ Quiet("loop")
        /\ s \in loop.todo
        /\ IF text = <<>>
           THEN /\ loop' = [loop EXCEPT !.todo = @ \ {s}, !.readers = @ \ {s}]
                /\ UNCHANGED <<svc, call>>
           ELSE /\ loop' = [loop EXCEPT !.todo = @ \ {s}]
                /\ svc' = [svc EXCEPT ![s].pipe = <<>>,
                                     ![s].text = IF svc[s].text = <<>> THEN text ELSE Tail(text)]
                /\ Log("loop", <<"line", s, Head(text)>>, Shared)
        /\ UNCHANGED <<context, history, progress, mutex, out, main, prog, result>>

\* _stdout_ready reads one line.  The text wrapper reads all that is in the
\* pipe, and only when it has no line left.
StdoutReady(s) ==
    LET text == IF svc[s].text = <<>> THEN svc[s].pipe ELSE svc[s].text
        pipe == IF svc[s].text = <<>> THEN <<>> ELSE svc[s].pipe
    IN  /\ loop.at \in {"round", "last"} /\ Quiet("loop")
        /\ s \in loop.todo
        /\ IF text = <<>>
           THEN /\ loop' = [loop EXCEPT !.todo = @ \ {s}, !.readers = @ \ {s}]
                /\ UNCHANGED <<svc, call>>
           ELSE /\ loop' = [loop EXCEPT !.todo = @ \ {s}]
                /\ svc' = [svc EXCEPT ![s].text = Tail(text), ![s].pipe = pipe]
                /\ Log("loop", <<"line", s, Head(text)>>, Shared)
        /\ UNCHANGED <<context, history, progress, mutex, out, main, prog, result>>

RoundEnds ==
    /\ loop.at \in {"round", "last"} /\ Quiet("loop")
    /\ loop.todo = {}
    /\ loop' = [loop EXCEPT !.at = IF @ = "last" THEN "ended" ELSE "select"]
    /\ UNCHANGED <<monitor, main, svc, prog, result>>

Ended == main.at \in {"done", "raised"} /\ Quiet(Main)

Done == Ended /\ UNCHANGED vars

MainStep ==
    \/ EnterManager \/ BeginName \/ BeginPid \/ BeginLog
    \/ StartService \/ Replied \/ CallRaises \/ Result
    \/ Finish \/ ExitServices \/ ExitLoop \/ ExitJoin \/ BeginStage
    \/ RunProgram \/ Read \/ Communicate

Logging(t) == LogStep(t) /\ UNCHANGED <<main, svc, loop, prog, result>>
LoopStep == Select \/ (\E s \in Service : StdoutReady(s)) \/ RoundEnds
ServiceStep(s) == PrintLine(s) \/ Reply(s) \/ Leave(s)

Next ==
    \/ MainStep \/ TimeOut \/ StagePrints \/ End
    \/ LoopStep \/ \E s \in Service : ServiceStep(s)
    \/ \E t \in Threads : Logging(t)
    \/ Done

Spec == Init /\ [][Next]_vars

\* Threads and programs run; a time-out need not come.
FairSpec ==
    /\ Spec
    /\ WF_vars(MainStep) /\ WF_vars(LoopStep) /\ WF_vars(StagePrints \/ End)
    /\ \A s \in Service : WF_vars(ServiceStep(s))
    /\ \A t \in Threads : WF_vars(Logging(t))

-----------------------------------------------------------------------------
\* Types of the variables; jobs are done in order, at most one thread has the lock.
TypeOK ==
    /\ main.at \in {"enter", "begin", "begin pid", "begin log", "start", "call",
                    "result", "finish", "exit", "join", "stage", "run", "read",
                    "raised", "done"}
    /\ main.job \in 1..Pipeline /\ main.stage \in 0..Len(Stages)
    /\ loop.todo \subseteq loop.readers /\ loop.readers \subseteq Service
    /\ progress.done \in 0..Pipeline
    /\ mutex \in Threads \cup {"none"}

\* The records of the main thread, read with the contexts the stream has
\* given before, belong to the job they are about: the copies of with_origin
\* have ids of their own and the other thread does not spoil them.
MainContexts ==
    LET records == Records
    IN  \A i \in 1..Len(records) :
            LET r == records[i]
                m == Meaning(records, i)
            IN  r.by = Main /\ r.text[1] # "output" =>
                    /\ m # NoId
                    /\ m.name = r.text[2] /\ m.id = r.text[2] /\ m.origin = OfMain
                    /\ r.text[2] = Pipeline => m.stage = r.text[3]

\* "Finished pipeline" number i says i steps done (JSONSeqMonitor.finish), and
\* stages are counted within their pipeline.
ProgressTold ==
    /\ \A k \in 1..Len(out) :
        out[k][1].text[1] = "finish" => out[k][1].done = out[k][1].text[2]
    /\ progress.sub.done <= progress.sub.total
    /\ main.at = "done" /\ main.job = Pipeline /\ main.success =>
        progress.done = Pipeline /\ progress.sub = NoSub

LinesOf(s) ==
    SelectSeq(out, LAMBDA p : p[2] = 1 /\ p[1].text[1] = "line" /\ p[1].text[2] = s)

\* What a service prints is logged in its order, no line twice or before an
\* earlier one.
LinesInOrder ==
    \A s \in Service :
        LET lines == LinesOf(s)
        IN  \A i \in 1..Len(lines) : lines[i][1].text[3] = Prints(s) - i + 1

\* Whether the main thread is outside of all service managers.
Outside ==
    \/ main.at \in {"enter", "raised", "done"}
    \/ main.job = Pipeline
       /\ main.at \in {"begin", "begin pid", "begin log", "stage", "result", "finish"}

\* The event loop's thread logs while a service manager is entered and never
\* outside of one, whatever its services still print: the pipeline and the stage
\* are set, and the results told, by a thread that has the monitor to itself.
QuietOutside == Outside => Quiet("loop") /\ loop.at = "ended"

\* So a line that a service of a stage prints is told with that stage, though it
\* is logged with the context that the main thread has set for its own messages.
LinesOfStage ==
    LET records == Records
    IN  \A i \in 1..Len(records) :
            LET r == records[i]
                m == Meaning(records, i)
            IN  r.by = "loop" /\ r.text[2][1] > 0 =>
                    m # NoId /\ m.name = Pipeline /\ m.stage = r.text[2][1]

\* The output of a stage that was run to its end is what the stage printed,
\* and the output records of the stream say the same.
StageOutput ==
    \A k \in 1..Len(result) :
        \/ k < main.stage
        \/ ~main.raised /\ main.at \in {"exit", "join", "result", "finish", "done", "stage"}
        => result[k] = Stages[k]

\* The build ends: no service waits for ever on a full pipe, and the main
\* thread waits neither for it nor for the event loop for ever.
BuildEnds == <>Ended

\* "stdout and stderr of the service will be forwarded to the monitor"
\* (host.py:405): when the manager was left, all lines are logged.
LinesForwarded ==
    Outside => \A s \in Service : svc[s].at = "ended" => Len(LinesOf(s)) = Prints(s)

\* "@id" of a context that was given before in full (Context.as_dict): every
\* record that only names a context comes after the one that describes it.
ContextsDescribed == \A i \in 1..Len(Records) : Meaning(Records, i) # NoId

\* The stream of the JSON monitor: whole records (RecordsWhole of Monitor) that
\* belong to their job, and progress that counts what was done.
StreamRight == TypeOK /\ RecordsWhole /\ MainContexts /\ ProgressTold

\* The output of programs: the lines of services in their order, with the stage they
\* belong to and not beyond the life of their manager, the output of a stage as it
\* was printed.
OutputRight == LinesInOrder /\ LinesOfStage /\ QuietOutside /\ StageOutput
=============================================================================
