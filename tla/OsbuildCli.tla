---------------------------- MODULE OsbuildCli ------------------------------
(***************************************************************************)
(* osbuild_cli (osbuild/main_cli.py): from the command line to the exit    *)
(* status, with the formats (FormatV1, FormatV2), the index they validate  *)
(* with (ModuleIndex), the manifest they load (ManifestModel), and the     *)
(* results of its build: DownloadResult and SourceResults, PipelineResult  *)
(* and ManifestBuildResult.  What a build does to trees is the subject of  *)
(* ManifestBuild; here it only succeeds or fails.                          *)
(*                                                                         *)
(* Others use the cache too: they may commit and may evict objects.        *)
(***************************************************************************)
EXTENDS ManifestModel

CONSTANTS
    MaxOthers,     \* bound on what others do to the cache
    Inputs         \* command lines with their manifests:
                   \*  [version, desc, malformed, options], where options is
                   \*  [exports, outdir, patterns, inspect, json, user, rundir]

V1 == INSTANCE FormatV1
V2 == INSTANCE FormatV2

VARIABLES
    input,     \* the command line and the file it names
    pc,        \* where osbuild_cli is; "exit" when it has ended
    exit,      \* its status, or what raised the exception that it ended with
    rundir,    \* args.rundir, once they are parsed
    index,     \* the Index: schemata that it has made
    todo,      \* modules to validate; later pipelines to build; later exports
    errors,    \* paths in the ValidationResult
    manifest,  \* the loaded manifest
    cache,     \* ids that the cache has
    others,    \* <<"put", id>> and <<"took", id>>: what others did to the cache
    held,      \* ids that the ObjectStore holds: built by this process
    result,    \* the ManifestBuildResult
    exported,  \* names of pipelines whose trees are in the output directory
    report     \* what was printed with --json or --inspect

vars == <<input, pc, exit, rundir, index, todo, errors, manifest, cache, others, held,
          result, exported, report>>

opts == input.options
Version1 == input.version = None \/ input.version[1] = "1"

NoManifest == [pipelines |-> <<>>, sources |-> <<>>]
NoResult == [success |-> TRUE, download |-> <<>>, pipelines |-> <<>>]

Init ==
    /\ input \in Inputs
    /\ pc = "start" /\ exit = "none" /\ rundir = None
    /\ index = EmptyIndex /\ todo = <<>> /\ errors = {}
    /\ manifest = NoManifest /\ cache = {} /\ others = {} /\ held = {}
    /\ result = NoResult /\ exported = {} /\ report = None

Statuses == {"0", "1", "2", "130"}
\* What the process does not catch: of validate, of load, of depsolve, of a service of
\* a source, of Stage.run, of ObjectStore.commit, of the cp of an export, of the
\* output of format 1; a tree that the store does not have, where it is needed or
\* exported; and Control-C.
Exceptions ==
    {"validate", "load", "depsolve", "source", "stage", "commit", "copy", "output",
     "tree", "export", "interrupt"}
Exit(status) == pc' = "exit" /\ exit' = status
Goto(l) == pc' = l /\ UNCHANGED exit

-----------------------------------------------------------------------------
(***************************************************************************)
(* Up to the manifest                                                      *)
(***************************************************************************)

\* The arguments.  A user who is not root runs osbuild again in a user namespace,
\* where it looks as if it was root; so the directory of the user is added to the
\* command line, unless there is an argument that is "--rundir".
Start ==
    /\ pc = "start"
    /\ rundir' = LET default == IF opts.user = "root" THEN <<"system">> ELSE <<"user">> IN
                 CASE opts.rundir = "default" -> default
                   [] opts.rundir = "--rundir DIR" -> <<"given">>
                   [] OTHER -> IF opts.user = "mapped" THEN default ELSE <<"given">>
    /\ Goto("detect")
    /\ UNCHANGED <<input, index, todo, errors, manifest, cache, others, held, result, exported, report>>

\* detect_format_info, and what validate is going to look at.
Detect ==
    /\ pc = "detect"
    /\ \/ DetectFormat(input.version) = None /\ Exit("2") /\ UNCHANGED <<todo, errors>>
       \/ /\ DetectFormat(input.version) # None
          /\ errors' = IF input.malformed THEN {<<>>} ELSE {}
          /\ IF IF Version1 THEN V1!ValidateRaises(input.desc) ELSE V2!ValidateRaises(input.desc)
             THEN Exit("validate") /\ UNCHANGED todo
             ELSE /\ todo' = IF Version1 THEN V1!Visits(input.desc) ELSE V2!Visits(input.desc)
                  /\ Goto("validate")
    /\ UNCHANGED <<input, rundir, index, manifest, cache, others, held, result, exported, report>>

Unusable(schema) == IF Len(schema) = 1 THEN schema[1].broken ELSE schema = Raises

\* get_schema and validate of the next module; a file that cannot be parsed or has no
\* schema for the version is an exception, and so is one whose references lead nowhere.
Validate ==
    /\ pc = "validate" /\ todo # <<>>
    /\ LET v == Head(todo)
           got == GetSchema(index, v.klass, v.name, IF Version1 THEN "1" ELSE "2")
       IN \/ /\ Unusable(got.schema)
             /\ Exit("validate") /\ UNCHANGED <<index, errors>>
          \/ /\ ~Unusable(got.schema)
             /\ index' = got.index
             /\ errors' = IF Accepts(got.schema, v.options) THEN errors
                          ELSE errors \cup {v.path}
             /\ Goto("validate")
    /\ todo' = Tail(todo)
    /\ UNCHANGED <<input, rundir, manifest, cache, others, held, result, exported, report>>

\* The manifest is not valid: 2; else it is loaded.
LoadDescription ==
    /\ pc = "validate" /\ todo = <<>>
    /\ LET raises == IF Version1 THEN V1!LoadRaises(input.desc) ELSE V2!LoadRaises(input.desc) IN
       IF errors # {} \/ raises
       THEN Exit(IF errors # {} THEN "2" ELSE "load") /\ UNCHANGED manifest
       ELSE /\ manifest' = IF Version1 THEN V1!LoadManifest(input.desc) ELSE V2!LoadManifest(input.desc)
            /\ Goto("loaded")
    /\ UNCHANGED <<input, rundir, index, todo, errors, cache, others, held, result, exported, report>>

-----------------------------------------------------------------------------
(***************************************************************************)
(* What is asked for                                                       *)
(***************************************************************************)

Unknown == {e \in ToSet(opts.exports) : GetNamed(manifest, e) = None}

\* Exports and checkpoints must be there.
Mark ==
    /\ pc = "loaded"
    /\ LET marked == Selected(manifest, opts.patterns) IN
       \/ Unknown # {} /\ Exit("1") /\ UNCHANGED manifest
       \/ Unknown = {} /\ opts.patterns # {} /\ marked = {} /\ Exit("1") /\ UNCHANGED manifest
       \/ /\ Unknown = {} /\ (opts.patterns = {} \/ marked # {})
          /\ manifest' = MarkCheckpoints(manifest, opts.patterns)
          /\ Goto("marked")
    /\ UNCHANGED <<input, rundir, index, todo, errors, cache, others, held, result, exported, report>>

\* --inspect: describe with ids, where a reference in format 2 that leads nowhere does
\* no harm; else exports need a directory.
Inspect ==
    /\ pc = "marked"
    /\ \/ /\ opts.inspect /\ Exit("0")
          /\ report' = <<IF Version1 THEN V1!Describe(manifest) ELSE manifest>>
       \/ ~opts.inspect /\ opts.exports # <<>> /\ ~opts.outdir /\ Exit("1") /\ UNCHANGED report
       \/ /\ ~opts.inspect /\ (opts.exports = <<>> \/ opts.outdir)
          /\ Goto("store") /\ UNCHANGED report
    /\ UNCHANGED <<input, rundir, index, todo, errors, manifest, cache, others, held, result, exported>>

-----------------------------------------------------------------------------
(***************************************************************************)
(* With the object store                                                   *)
(***************************************************************************)

StageIds(m) == UNION {{StageId(s) : s \in ToSet(p.stages)} : p \in ToSet(m.pipelines)}
Has == cache \cup held

\* The cache has any part of what the manifest makes; depsolve looks, and raises for
\* a reference that leads nowhere.
OpenStore ==
    /\ pc = "store"
    /\ \E c \in SUBSET StageIds(manifest) :
          LET d == Depsolve(manifest, opts.exports, c) IN
          /\ cache' = c
          /\ IF d.broken THEN Exit("depsolve") /\ UNCHANGED todo
             ELSE todo' = d.build /\ Goto("download")
    /\ UNCHANGED <<input, rundir, index, errors, manifest, others, held, result, exported, report>>

\* SourceResults: what the service of a source says of its items.
SourceResult(s, bad) ==
    [name |-> s.name, success |-> bad = {},
     items |-> [k \in 1..Cardinality(s.items) |->
                   [item |-> SetToSeq(s.items)[k], success |-> SetToSeq(s.items)[k] \notin bad]]]

\* Manifest.download: all sources, whatever happens to the items of one of them; a
\* service that raises ends it (RemoteError).
Download ==
    /\ pc = "download"
    /\ \/ /\ \E bad \in [DOMAIN manifest.sources ->
                           SUBSET UNION {s.items : s \in ToSet(manifest.sources)}] :
             /\ \A k \in DOMAIN bad : bad[k] \subseteq manifest.sources[k].items
             /\ result' = [success |-> \A k \in DOMAIN bad : bad[k] = {},
                           download |-> [k \in DOMAIN bad |-> SourceResult(manifest.sources[k], bad[k])],
                           pipelines |-> <<>>]
          /\ Goto("build")
       \/ manifest.sources # <<>> /\ Exit("source") /\ UNCHANGED result
    /\ UNCHANGED <<input, rundir, index, todo, errors, manifest, cache, others, held, exported, report>>

\* Where a build of p begins: after its last stage that the store has.
FirstStage(p) ==
    Max({0} \cup {k \in DOMAIN p.stages : StageId(p.stages[k]) \in Has}) + 1
\* The results of the stages a..b of p, of which the last failed or not.
Results(p, a, b, ok) ==
    [k \in 1..(b - a + 1) |-> [id |-> StageId(p.stages[a + k - 1]), success |-> ok \/ k < b - a + 1]]
\* What a build of the stages a..b commits.
Committed(p, a, b) ==
    {StageId(p.stages[k]) : k \in {x \in a..b : p.stages[x].checkpoint}}

\* Trees that the stages a..b of p need and the store does not have.
Lacking(ids) == (ids \ {NoId}) \ Has
Missing(p, a, b) == Lacking({p.build} \cup UNION {Dependencies(p.stages[k]) : k \in a..b})

\* An exception in build_stages: the build tree is not in the store; or stage b cannot
\* have a tree that is its input, something raises in Stage.run (a service; the program
\* takes too long), or the stage is done and its commit fails.  What the stages before
\* it have committed stays.
BuildRaises(p, a) ==
    \/ Lacking({p.build}) # {} /\ Exit("tree") /\ UNCHANGED cache
    \/ \E b \in a..Len(p.stages) :
          /\ Missing(p, a, b - 1) = {}
          /\ \/ Missing(p, b, b) # {} /\ Exit("tree")
             \/ Exit("stage")
             \/ Missing(p, b, b) = {} /\ p.stages[b].checkpoint /\ Exit("commit")
          /\ cache' = cache \cup Committed(p, a, b - 1)

\* Pipeline.run of the next one: nothing to do if the store has its tree by now; else
\* its stages, of which one may fail, or raise.
BuildPipeline ==
    /\ pc = "build" /\ result.success /\ todo # <<>>
    /\ LET p == Head(todo)
           a == FirstStage(p)
           n == Len(p.stages)
           Add(stages, ok) ==
               result' = [result EXCEPT !.success = ok,
                                        !.pipelines = Append(@, [id |-> PipelineId(p), stages |-> stages])]
       IN \/ /\ a > n
             /\ Add(<<>>, TRUE) /\ Goto("build") /\ UNCHANGED <<cache, held>>
          \/ /\ a <= n /\ Missing(p, a, n) = {}
             /\ Add(Results(p, a, n, TRUE), TRUE)
             /\ held' = held \cup {PipelineId(p)}
             /\ cache' = cache \cup Committed(p, a, n)
             /\ Goto("build")
          \/ \E b \in a..n :
                /\ Missing(p, a, b) = {}
                /\ Add(Results(p, a, b, FALSE), FALSE)
                /\ cache' = cache \cup Committed(p, a, b - 1)
                /\ Goto("build") /\ UNCHANGED held
          \/ a <= n /\ BuildRaises(p, a) /\ UNCHANGED <<result, held>>
    /\ todo' = Tail(todo)
    /\ UNCHANGED <<input, rundir, index, errors, manifest, others, exported, report>>

\* export of the next one: the store may have lost its tree, or cp fails, which is an
\* exception.
Export ==
    /\ pc = "build" /\ result.success /\ todo = <<>>
    /\ \E name \in ToSet(opts.exports) \ exported :
          LET id == PipelineId(GetNamed(manifest, name)[1]) IN
          \/ id \in Has /\ exported' = exported \cup {name} /\ Goto("build")
          \/ id \notin Has /\ Exit("export") /\ UNCHANGED exported
          \/ id \in Has /\ Exit("copy") /\ UNCHANGED exported
    /\ UNCHANGED <<input, rundir, index, todo, errors, manifest, cache, others, held, result, report>>

\* A mutation of Finish: osbuild is through when all is built.
FinishEarly ==
    /\ pc = "build"
    /\ ~result.success \/ todo = <<>>
    /\ IF opts.json /\ Version1 /\ V1!OutputRaises(manifest, result)
       THEN Exit("output") /\ UNCHANGED report
       ELSE /\ report' = IF ~opts.json THEN None
                         ELSE <<IF Version1 THEN V1!Output(manifest, result)
                                ELSE V2!Output(manifest, result, Has)>>
            /\ Exit(IF result.success THEN "0" ELSE "1")
    /\ UNCHANGED <<input, rundir, index, todo, errors, manifest, cache, others, held, result, exported>>
\* The report and the status.
Finish ==
    /\ pc = "build"
    /\ ~result.success \/ (todo = <<>> /\ exported = ToSet(opts.exports))
    /\ IF opts.json /\ Version1 /\ V1!OutputRaises(manifest, result)
       THEN Exit("output") /\ UNCHANGED report
       ELSE /\ report' = IF ~opts.json THEN None
                         ELSE <<IF Version1 THEN V1!Output(manifest, result)
                                ELSE V2!Output(manifest, result, Has)>>
            /\ Exit(IF result.success THEN "0" ELSE "1")
    /\ UNCHANGED <<input, rundir, index, todo, errors, manifest, cache, others, held, result, exported>>

\* Control-C: caught while there is an object store.
Interrupt ==
    /\ pc # "exit"
    /\ Exit(IF pc \in {"store", "download", "build"} THEN "130" ELSE "interrupt")
    /\ UNCHANGED <<input, rundir, index, todo, errors, manifest, cache, others, held, result, exported, report>>

\* Another osbuild evicts an object (external).
Evict ==
    /\ pc \in {"download", "build"} /\ Cardinality(others) < MaxOthers
    /\ \E id \in cache : cache' = cache \ {id} /\ others' = others \cup {<<"took", id>>}
    /\ UNCHANGED <<input, pc, exit, rundir, index, todo, errors, manifest, held, result, exported, report>>

\* Another osbuild builds and commits an object of this manifest (external).
Commit ==
    /\ pc \in {"download", "build"} /\ Cardinality(others) < MaxOthers
    /\ \E id \in StageIds(manifest) \ cache : cache' = cache \cup {id} /\ others' = others \cup {<<"put", id>>}
    /\ UNCHANGED <<input, pc, exit, rundir, index, todo, errors, manifest, held, result, exported, report>>

Over == pc = "exit" /\ UNCHANGED vars

Next ==
    \/ Start \/ Detect \/ Validate \/ LoadDescription \/ Mark \/ Inspect
    \/ OpenStore \/ Download \/ BuildPipeline \/ Export \/ Finish
    \/ Interrupt \/ Evict \/ Commit \/ Over

Spec == Init /\ [][Next]_vars

-----------------------------------------------------------------------------
(***************************************************************************)
(* Properties                                                              *)
(***************************************************************************)

\* Types of the variables; a manifest that is not valid is not loaded, and the store
\* is opened for loaded manifests only.
TypeOK ==
    /\ IF pc = "exit" THEN exit \in Statuses \cup Exceptions ELSE exit = "none"
    /\ rundir \in {None, <<"given">>, <<"user">>, <<"system">>}
    /\ errors # {} => manifest = NoManifest
    /\ cache \subseteq StageIds(manifest) /\ held \subseteq StageIds(manifest)
    /\ exported \subseteq ToSet(opts.exports)

Loaded == manifest # NoManifest
Stages == UNION {ToSet(p.stages) : p \in ToSet(manifest.pipelines)}

\* Everything that the description of a loaded manifest names was validated: a fresh
\* index has a schema for it, which accepts its options.  (load looks modules up
\* without a check; format 1 adds inputs without any.)
Fits(klass, x) ==
    Accepts(MakeSchema(EmptyIndex, klass, x.type, IF Version1 THEN "1" ELSE "2"), x.options)
NothingUnchecked ==
    Loaded =>
        /\ \A p \in ToSet(manifest.pipelines) : \A s \in ToSet(p.stages) :
              Fits(IF Version1 /\ p.name = "assembler" THEN "Assembler" ELSE "Stage", s)
        /\ ~Version1 => \A s \in Stages :
              /\ \A x \in ToSet(s.devices) : Fits("Device", x)
              /\ \A x \in ToSet(s.inputs) : Fits("Input", x)
              /\ \A x \in ToSet(s.mounts) : Fits("Mount", x)

\* Different modules of a description are reported at different places.
PlacesDiffer ==
    pc = "validate" => \A j, k \in DOMAIN todo : j # k => todo[j].path # todo[k].path

\* The Index answers as a fresh one would, whatever was asked before, although
\* get_schema takes definitions out of what the module was loaded with.
SchemaStable ==
    pc = "validate" /\ todo # <<>> =>
        LET v == Head(todo)
            version == IF Version1 THEN "1" ELSE "2"
        IN GetSchema(index, v.klass, v.name, version).schema
               = MakeSchema(EmptyIndex, v.klass, v.name, version)

\* In format 2 a stage gets all devices of its description with their parents, in an
\* order in which parents are opened first.
DevicesRight ==
    Loaded /\ ~Version1 =>
        \A i \in DOMAIN manifest.pipelines : \A k \in DOMAIN manifest.pipelines[i].stages :
            LET devices == manifest.pipelines[i].stages[k].devices IN
            /\ {<<d.name, d.parent>> : d \in ToSet(devices)}
                   = {<<d.name, d.parent>> : d \in ToSet(input.desc.pipelines[i].stages[k].devices)}
            /\ \A j \in DOMAIN devices :
                  devices[j].parent # None => devices[j].parent[1] \in Names(SubSeq(devices, 1, j - 1))

\* Every stage is the same in a virtual machine as on the host: its dictionary gives
\* the same devices with the same parents, the same mounts and the same id.
SameInVm ==
    Loaded => \A s \in Stages : FromDict(ToDict(s)) = s

\* What a pipeline is built with and from are earlier pipelines, however the manifest
\* orders and names them, unless a stage has the tree of its own pipeline as input.
OwnTree(i) ==
    ~Version1 /\ \E s \in ToSet(input.desc.pipelines[i].stages) : \E x \in ToSet(s.inputs) :
        x.origin = "pipeline" /\ <<"name", manifest.pipelines[i].name>> \in x.refs
RefsResolve ==
    Loaded => \A i \in DOMAIN manifest.pipelines :
        LET p == manifest.pipelines[i] IN
        \/ OwnTree(i)
        \/ \A r \in ({p.build} \ {NoId}) \cup UNION {Dependencies(s) : s \in ToSet(p.stages)} :
              \E j \in 1..(i - 1) : PipelineId(manifest.pipelines[j]) = r

\* A pipeline runs with the runner that belongs to its build pipeline: in format 2 it
\* is named there, in format 1 with the reference to it.  (The comment in load: "it is
\* what runner to use for it".)  Without a build pipeline it is the host's, in format 2;
\* and of several build pipelines with one id, any may name it.
RunnerOf(x) == IF x.runner = None THEN <<HostRunner>> ELSE x.runner
RunnersRight ==
    Loaded => \A i \in DOMAIN manifest.pipelines :
        LET p == manifest.pipelines[i] IN
        IF Version1
        THEN p.runner = RunnerOf(input.desc.levels[Max({1, Len(input.desc.levels) + 1 - i})])
        ELSE IF p.build = NoId THEN p.runner = <<HostRunner>>
        ELSE \E j \in DOMAIN manifest.pipelines :
                /\ PipelineId(manifest.pipelines[j]) = p.build
                /\ p.runner = RunnerOf(input.desc.pipelines[j])

\* Loading what describe says of a manifest gives that manifest again, except for the
\* parents of devices and for epochs, which describe leaves out; and, in format 1, for
\* the runner of a pipeline that has no build pipeline and for build pipelines
\* without stages.
Plain(m) ==
    [m EXCEPT !.pipelines = [i \in DOMAIN @ |->
        [@[i] EXCEPT !.runner = IF Version1 /\ m.pipelines[i].build = NoId THEN None ELSE @]]]
Describable ==
    /\ \A p \in ToSet(manifest.pipelines) : p.epoch = None
    /\ \A s \in Stages : \A d \in ToSet(s.devices) : d.parent = None
    /\ IF Version1
       THEN \A p \in ToSet(manifest.pipelines) : p.stages = <<>> => p.name = "tree"
       ELSE ~V2!DescribeRaises(manifest)
RoundTrip ==
    pc = "loaded" /\ Describable =>
        IF Version1
        THEN Plain(V1!LoadManifest(V1!Describe(manifest))) = Plain(manifest)
        ELSE /\ ~V2!LoadRaises(V2!Describe(manifest))
             /\ V2!LoadManifest(V2!Describe(manifest)) = manifest

\* The directory for temporary data is the one that was asked for, or that of the user
\* who runs osbuild, who is root in the namespace only; unless it was asked for with
\* "--rundir=DIR", which the re-executed osbuild does not see.
RundirKept ==
    rundir # None /\ opts.rundir # "--rundir=DIR" =>
        rundir = CASE opts.rundir = "--rundir DIR" -> <<"given">>
                   [] opts.user = "root" -> <<"system">>
                   [] OTHER -> <<"user">>

\* Success means that nothing failed and all exports are there; a failure is that of
\* the command line, of a source or of a stage, and it is told by the status and never
\* lost in an exception of what comes after it.
StageFailed == \E r \in ToSet(result.pipelines) : \E x \in ToSet(r.stages) : ~x.success
SourceFailed == \E s \in ToSet(result.download) : \E x \in ToSet(s.items) : ~x.success
Asked == Loaded /\ (Unknown # {} \/ opts.patterns # {} \/ (opts.exports # <<>> /\ ~opts.outdir))
ExitTells ==
    /\ exit = "0" => \/ opts.inspect
                     \/ ~StageFailed /\ ~SourceFailed /\ exported = ToSet(opts.exports)
    /\ exit = "1" => StageFailed \/ SourceFailed \/ (Asked /\ result = NoResult)
    /\ exit = "2" => ~Loaded
    /\ exit \in Exceptions => ~StageFailed /\ ~SourceFailed

\* A service or a stage that raises, a commit or a copy that fails, is an exception of
\* osbuild.  But a tree that depsolve has counted on or that was built is missing where
\* it is needed or exported only if another osbuild took one from the cache, or if the
\* pipeline that is exported has no stages; format 1 has no result of an assembler only
\* if another osbuild put its tree there; and depsolve knows all references but those of
\* a stage to its own pipeline.
Took == \E x \in others : x[1] = "took"
NoSurprise ==
    /\ exit = "tree" => Took
    /\ exit = "export" => Took \/ \E e \in ToSet(opts.exports) :
                                    PipelineId(GetNamed(manifest, e)[1]) = NoId
    /\ exit = "output" => \E a \in ToSet(GetNamed(manifest, "assembler")) :
                             <<"put", PipelineId(a)>> \in others
    /\ exit = "depsolve" => \E i \in DOMAIN manifest.pipelines : OwnTree(i)

\* The report agrees with the status.  In format 2 the error it names is one that
\* happened, of the stage that was last; in format 1 a failure in the report is one.
ReportTells ==
    report # None /\ ~opts.inspect =>
        /\ Version1 => (~report[1].success => exit = "1")
        /\ ~Version1 =>
              /\ report[1].success <=> exit = "0"
              /\ SourceFailed =>
                    \E s \in ToSet(result.download) : \E x \in ToSet(s.items) :
                        ~x.success /\ report[1].error = <<[source |-> s.name, item |-> x.item]>>
              /\ StageFailed =>
                    \E r \in ToSet(result.pipelines) : \E x \in ToSet(r.stages) :
                        ~x.success /\ report[1].error = <<[stage |-> x.id]>>

\* In format 1 a success in the report is one, too.
SuccessIsSuccess ==
    report # None /\ ~opts.inspect => (report[1].success <=> exit = "0")

\* Validation: all of the modules of a manifest, each under a place and by a schema
\* of its own (validate of both formats, Index.get_schema).
ValidatedRight == NothingUnchecked /\ PlacesDiffer /\ SchemaStable

\* Loading: what a loaded manifest says is what its description means (load of both
\* formats, Stage.from_dict).
LoadedRight == DevicesRight /\ SameInVm /\ RefsResolve /\ RunnersRight

\* What osbuild_cli tells the caller about the build, and where it worked.
OutcomeTold == TypeOK /\ RundirKept /\ ExitTells /\ NoSurprise /\ ReportTells
=============================================================================
