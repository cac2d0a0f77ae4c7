------------------------------ MODULE Monitor ------------------------------
(***************************************************************************)
(* The JSONSeqMonitor of osbuild/monitor.py: one log call at a time per    *)
(* thread, of the threads that share one monitor.  A log call reads the    *)
(* context, asks for its id, tells whether this id was reported before,    *)
(* reads the progress and writes the record under a lock; between these    *)
(* the other thread runs.                                                  *)
(*                                                                         *)
(* An id is a hash of the fields of a context and stands for them: ids     *)
(* are equal exactly when the fields are.                                  *)
(***************************************************************************)
EXTENDS Naturals, Sequences

CONSTANTS
    Threads,     \* the threads that call log
    Main         \* the thread that runs the manifest, the only one that
                 \* changes context and progress

ASSUME MonitorAssumption == Main \in Threads

VARIABLES
    context,     \* the shared Context: its fields and the id it has cached
    history,     \* Context._id_history, shared by all copies
    progress,    \* steps done, and the sub-progress, if any
    mutex,       \* who holds _jsonseq_mu
    call,        \* the log call of each thread
    out          \* the file: <<record, part>> for each part written

monitor == <<context, history, progress, mutex, call, out>>

NoId == [origin |-> "none"]
NoSub == [done |-> 0, total |-> 0]
Shared == "org.osbuild"      \* the origin the monitor was created with

\* call.field, .id and .short are the local variables of as_dict.
Idle == [at |-> "idle"]

\* Context._dict: the origin, what set_pipeline wrote and what set_stage wrote.
Fields(origin) == [origin |-> origin, name |-> context.name, id |-> context.pid,
                   stage |-> context.stage]

MonitorInit ==
    /\ context = [name |-> 0, pid |-> 0, stage |-> 0, id |-> NoId]
    /\ history = {}
    /\ progress = [done |-> 0, sub |-> NoSub]
    /\ mutex = "none"
    /\ call = [t \in Threads |-> Idle]
    /\ out = <<>>

Quiet(t) == call[t].at = "idle"

\* log_entry: the context as it was found, then progress.as_dict.
Entry(t, fields, id, short) ==
    call' = [call EXCEPT ![t] = [at |-> "lock", record |->
                [by |-> t, text |-> @.text, origin |-> @.origin,
                 fields |-> IF short THEN NoId ELSE fields, id |-> id,
                 done |-> progress.done]]]

\* LogMonitor and JSONSeqMonitor.log: the call starts.
Log(t, text, origin) ==
    call' = [call EXCEPT ![t] = [at |-> "context", text |-> text, origin |-> origin]]

(***************************************************************************)
(* Context.with_origin: another origin gives a copy with an id of its own, *)
(* which no other thread touches; the same origin gives the shared one.    *)
(* The main thread is the only one that asks for copies, and the only one  *)
(* that writes the fields: nothing comes between the steps of a copy.      *)
(***************************************************************************)
CopyId(origin) == Fields(origin)

AsDictCopy(t) ==
    LET id == CopyId(call[t].origin)
    IN  /\ call[t].at = "context" /\ call[t].origin # Shared
        /\ history' = history \cup {id}
        /\ Entry(t, Fields(call[t].origin), id, id \in history)
        /\ UNCHANGED <<context, progress, mutex, out>>

\* as_dict of the shared context: d = self._dict() ...
AsDict(t) ==
    /\ call[t].at = "context" /\ call[t].origin = Shared
    /\ call' = [call EXCEPT ![t] =
                  [at |-> "check", text |-> @.text, origin |-> @.origin,
                   fields |-> Fields(@.origin), id |-> NoId, hash |-> NoId, short |-> FALSE]]
    /\ UNCHANGED <<context, history, progress, mutex, out>>

\* ... then self.id, three times: the property hashes the fields of now when
\* nothing is cached, and caches what it hashed.  Its store may come after a
\* write of the main thread that has just reset the cache.
Asking == {"check", "name", "add"}

IdHash(t) ==
    /\ call[t].at \in Asking /\ call[t].origin = Shared
    /\ context.id = NoId
    /\ call' = [call EXCEPT ![t].at = "store " \o @, ![t].hash = Fields(Shared)]
    /\ UNCHANGED <<context, history, progress, mutex, out>>

IdStore(t) ==
    /\ \E a \in Asking :
        /\ call[t].at = "store " \o a
        /\ call' = [call EXCEPT ![t].at = "read " \o a]
    /\ context' = [context EXCEPT !.id = call[t].hash]
    /\ UNCHANGED <<history, progress, mutex, out>>

\* The id is returned: compared with the history, put into the record, or
\* added to the history.
IdRead(t) ==
    /\ \E a \in Asking :
        /\ \/ call[t].at = a /\ context.id # NoId
           \/ call[t].at = "read " \o a
        /\ CASE a = "check" ->
                  /\ call' = [call EXCEPT ![t].at = "name", ![t].short = context.id \in history]
                  /\ UNCHANGED history
             [] a = "name" ->
                  /\ IF call[t].short THEN Entry(t, NoId, context.id, TRUE)
                     ELSE call' = [call EXCEPT ![t].at = "add", ![t].id = context.id]
                  /\ UNCHANGED history
             [] a = "add" ->
                  /\ Entry(t, call[t].fields, call[t].id, FALSE)
                  /\ history' = history \cup {context.id}
    /\ UNCHANGED <<context, progress, mutex, out>>

\* A mutation of Acquire: the lock is not taken.
AcquireNot(t) ==
    /\ call[t].at = "lock"
    /\ call' = [call EXCEPT ![t].at = "write"]
    /\ UNCHANGED <<context, history, progress, mutex, out>>

\* _jsonseq: with self._jsonseq_mu.
Acquire(t) ==
    /\ call[t].at = "lock"
    /\ mutex = "none"
    /\ mutex' = t
    /\ call' = [call EXCEPT ![t].at = "write"]
    /\ UNCHANGED <<context, history, progress, out>>

\* TextWriter.write: os.write takes a part of the record or all that is left.
\* A record has two parts; the records of one thread differ in their text.
Written(t) == Len(SelectSeq(out, LAMBDA p : p[1] = call[t].record))
Write(t) ==
    /\ call[t].at = "write"
    /\ \E n \in Written(t) + 1 .. 2 :
        /\ out' = out \o [i \in 1..(n - Written(t)) |-> <<call[t].record, Written(t) + i>>]
        /\ IF n < 2 THEN UNCHANGED <<call, mutex>>
           ELSE /\ call' = [call EXCEPT ![t] = Idle]
                /\ mutex' = "none"
    /\ UNCHANGED <<context, history, progress>>

LogStep(t) ==
    \/ AsDictCopy(t) \/ AsDict(t) \/ IdHash(t) \/ IdStore(t) \/ IdRead(t)
    \/ Acquire(t) \/ Write(t)

-----------------------------------------------------------------------------
(***************************************************************************)
(* What the main thread writes between its log calls.  Each assignment of  *)
(* a field resets the cached id (__setattr__).                             *)
(***************************************************************************)
SetName(name) == context' = [context EXCEPT !.name = name, !.id = NoId]
SetPid(pid) == context' = [context EXCEPT !.pid = pid, !.id = NoId]
SetStage(stage) == context' = [context EXCEPT !.stage = stage, !.id = NoId]

\* Progress.incr of the pipelines and sources: the sub-progress ends with it.
Incr == progress' = [done |-> progress.done + 1, sub |-> NoSub]

SubProgress(total) ==
    progress' = [progress EXCEPT !.sub = IF total = 0 THEN @ ELSE [done |-> 0, total |-> total]]

\* result() increments the sub-progress when there is one.
IncrSub ==
    progress' = IF progress.sub = NoSub THEN progress
                ELSE [progress EXCEPT !.sub.done = @ + 1]

-----------------------------------------------------------------------------
(***************************************************************************)
(* What a consumer of the stream reads.                                    *)
(***************************************************************************)
Records ==
    LET heads == SelectSeq(out, LAMBDA p : p[2] = 1)
    IN  [i \in 1..Len(heads) |-> heads[i][1]]

\* The fields a record stands for: its own, or those that came with its id.
Meaning(records, i) ==
    LET r == records[i]
        known == {j \in 1..i : records[j].id = r.id /\ records[j].fields # NoId}
    IN  IF r.fields # NoId \/ known = {} THEN r.fields
        ELSE records[CHOOSE j \in known : \A k \in known : k <= j].fields

\* A record is written as one piece: "follow rfc7464" (monitor.py:415), with
\* two threads that log at the same time and writes that are cut short.
RecordsWhole ==
    \A k \in 1..Len(out) : out[k][2] = 2 => k > 1 /\ out[k - 1] = <<out[k][1], 1>>
=============================================================================
