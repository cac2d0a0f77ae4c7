------------------------------ MODULE FormatV2 ------------------------------
(***************************************************************************)
(* Version 2 of the manifest description (osbuild/formats/v2.py): what     *)
(* validate looks at, how load makes a Manifest of a description, how      *)
(* describe makes a description of a Manifest, and the report of output.   *)
(*                                                                         *)
(* A description is [pipelines, sources].  A pipeline has an optional      *)
(* name, build reference, runner and epoch, and stages.  A stage has a     *)
(* type (optional: the schema asks for it, the code does not check that    *)
(* it is there), options, devices, inputs and mounts, all of them in the   *)
(* order of the file.  References are <<"name", pipeline>>, <<"id", id>>   *)
(* or <<"item", source item>>.                                             *)
(***************************************************************************)
EXTENDS ManifestModel

-----------------------------------------------------------------------------
(***************************************************************************)
(* validate                                                                *)
(***************************************************************************)

Visit(klass, name, options, path) ==
    [klass |-> klass, name |-> name, options |-> options, path |-> path]

\* The list of mounts as a dictionary: of those with one name the last.
MountVisits(s, path) ==
    LET last == SelectSeq([k \in DOMAIN s.mounts |-> <<k, s.mounts[k]>>],
                          LAMBDA e : \A j \in e[1]+1..Len(s.mounts) :
                                        s.mounts[j].name # e[2].name)
    IN [k \in DOMAIN last |-> Visit("Mount", last[k][2].type, last[k][2].options,
                                    path \o <<"mounts", last[k][2].name>>)]

\* validate_stage: the stage, its devices, inputs and mounts.
StageVisits(s, path) ==
    <<Visit("Stage", s.type[1], s.options, path)>>
    \o [k \in DOMAIN s.devices |-> Visit("Device", s.devices[k].type, s.devices[k].options,
                                         path \o <<"devices", s.devices[k].name>>)]
    \o [k \in DOMAIN s.inputs |-> Visit("Input", s.inputs[k].type, s.inputs[k].options,
                                        path \o <<"inputs", s.inputs[k].name>>)]
    \o MountVisits(s, path)

\* validate: the sources, then every stage of every pipeline.
Visits(d) ==
    [k \in DOMAIN d.sources |->
        Visit("Source", d.sources[k].name, "plain", <<"sources", d.sources[k].name>>)]
    \o FlattenSeq([i \in DOMAIN d.pipelines |->
          FlattenSeq([k \in DOMAIN d.pipelines[i].stages |->
              StageVisits(d.pipelines[i].stages[k], <<"pipelines", i, "stages", k>>)])])

\* stage["type"] of a stage without one: KeyError.
ValidateRaises(d) == \E p \in ToSet(d.pipelines) : \E s \in ToSet(p.stages) : s.type = None

-----------------------------------------------------------------------------
(***************************************************************************)
(* load                                                                    *)
(***************************************************************************)

\* A mutation of SortPass: parents are looked for in what is still to do.
SortPassLax(s) ==
    LET At[i \in 0..Len(s.todo)] ==
            IF i = 0 THEN [s EXCEPT !.rest = <<>>]
            ELSE LET d == s.todo[i]  a == At[i - 1] IN
                 IF d.parent = None \/ d.parent[1] \in Names(s.todo)
                 THEN [a EXCEPT !.result = Append(@, d)]
                 ELSE [a EXCEPT !.rest = Append(@, d)]
        end == At[Len(s.todo)]
    IN [end EXCEPT !.todo = end.rest, !.stuck = end.rest # <<>> /\ end.rest = s.todo]
\* One pass of sort_devices over what is still to do: a device goes to the result
\* unless its parent is not there yet.
SortPass(s) ==
    LET At[i \in 0..Len(s.todo)] ==
            IF i = 0 THEN [s EXCEPT !.rest = <<>>]
            ELSE LET d == s.todo[i]  a == At[i - 1] IN
                 IF d.parent = None \/ d.parent[1] \in Names(a.result)
                 THEN [a EXCEPT !.result = Append(@, d)]
                 ELSE [a EXCEPT !.rest = Append(@, d)]
        end == At[Len(s.todo)]
    IN [end EXCEPT !.todo = end.rest, !.stuck = end.rest # <<>> /\ end.rest = s.todo]

\* sort_devices: pass after pass, as long as they make progress.
SortDevices(devices) ==
    LET Pass[n \in 0..Len(devices)] ==
            IF n = 0 THEN [todo |-> devices, result |-> <<>>, rest |-> <<>>, stuck |-> FALSE]
            ELSE IF Pass[n - 1].stuck THEN Pass[n - 1] ELSE SortPass(Pass[n - 1])
    IN Pass[Len(devices)]

\* load_device: the parent is one of those that were added before.
LoadDevice(stage, d) ==
    [stage EXCEPT !.devices =
        Append(@, Device(d.name, d.type,
                         IF d.parent = None THEN None ELSE Named(@, d.parent[1]),
                         d.options))]

\* resolve_ref: the id that the pipeline has now.
ResolveRef(ref, pls) == PipelineId(Named(pls, ref[2])[1])

\* load_input: references to pipelines that are not by name are dropped.  While an
\* input is loaded its pipeline ends in this stage, so a reference to that pipeline
\* gives an id that nothing has in the end.
LoadInput(stage, i, pls) ==
    LET refs == IF i.origin = "pipeline"
                THEN {ResolveRef(r, pls) : r \in {x \in i.refs : x[1] = "name"}}
                ELSE i.refs
    IN [stage EXCEPT !.inputs = Append(@, Input(i.name, i.type, i.origin, i.options, refs))]

\* load_mount: its device is one of the stage.
LoadMount(stage, m) ==
    [stage EXCEPT !.mounts =
        Append(@, Mount(m.name, m.type,
                        IF m.source = None THEN None ELSE Named(stage.devices, m.source[1]),
                        m.options))]

\* load_stage: added to the pipeline first, then filled.
LoadStage(pl, s, pls) ==
    LET new == NewStage(pl, s.type[1], s.options)
        devices == FoldLeft(LoadDevice, new, SortDevices(s.devices).result)
        inputs == FoldLeft(LAMBDA st, i : LoadInput(st, i, Append(pls, [pl EXCEPT !.stages = Append(@, st)])),
                           devices, s.inputs)
    IN [pl EXCEPT !.stages = Append(@, FoldLeft(LoadMount, inputs, s.mounts))]

\* load_pipeline, after pls: a build reference that is not by name stays an id.
LoadPipeline(pls, p) ==
    LET build == IF p.build = None THEN NoId
                 ELSE IF p.build[1][1] = "name" THEN ResolveRef(p.build[1], pls)
                 ELSE p.build[1][2]
        new == [name |-> p.name[1], build |-> build, epoch |-> p.epoch, stages |-> <<>>,
                runner |-> IF p.runner = None THEN <<HostRunner>> ELSE p.runner]
    IN Append(pls, FoldLeft(LAMBDA pl, s : LoadStage(pl, s, pls), new, p.stages))

\* The end of load: a pipeline runs with what its build pipeline has as runner; of
\* pipelines with the same id the last one counts.
FixRunners(pls) ==
    [i \in DOMAIN pls |->
        [pls[i] EXCEPT !.runner =
            IF pls[i].build = NoId THEN <<HostRunner>>
            ELSE pls[Max({j \in DOMAIN pls : PipelineId(pls[j]) = pls[i].build})].runner]]

LoadManifest(d) ==
    [pipelines |-> FixRunners(FoldLeft(LoadPipeline, <<>>, d.pipelines)),
     sources |-> d.sources]

-----------------------------------------------------------------------------
(***************************************************************************)
(* What load raises                                                        *)
(***************************************************************************)

BadDevices(s) ==
    \/ \E x \in ToSet(s.devices) : x.parent # None /\ x.parent[1] \notin Names(s.devices)
    \/ SortDevices(s.devices).todo # <<>>

\* resolve_ref of a pipeline that is not there when the reference is read: known are
\* the names up to the current pipeline.
BadInput(i, known, items) ==
    IF i.origin = "pipeline"
    THEN \E r \in i.refs : r[1] = "name" /\ r[2] \notin known
    ELSE \E r \in i.refs : r \notin items

BadMounts(s) ==
    \/ ~IsInjective([k \in DOMAIN s.mounts |-> s.mounts[k].name])
    \/ \E m \in ToSet(s.mounts) : m.source # None /\ m.source[1] \notin Names(s.devices)

BadPipeline(d, k) ==
    LET p == d.pipelines[k]
        before == {d.pipelines[j].name[1] : j \in 1..(k - 1)}
        items == UNION {s.items : s \in ToSet(d.sources)}
    IN \/ p.name[1] \in before
       \/ p.build # None /\ p.build[1][1] = "name" /\ p.build[1][2] \notin before
       \/ p.runner # None /\ DetectRunner(p.runner[1]) = None
       \/ \E s \in ToSet(p.stages) :
             \/ BadDevices(s) \/ BadMounts(s)
             \/ \E i \in ToSet(s.inputs) : BadInput(i, before \cup {p.name[1]}, items)

\* load ends with an exception: a pipeline has no name or one that was used before,
\* a reference leads nowhere, there is no runner, devices or mounts are wrong; or, in
\* the end, the id given for a build pipeline is none.
LoadRaises(d) ==
    \/ DetectHostRunner = None
    \/ \E p \in ToSet(d.pipelines) : p.name = None
    \/ \E k \in DOMAIN d.pipelines : BadPipeline(d, k)
    \/ LET pls == FoldLeft(LoadPipeline, <<>>, d.pipelines) IN
       \E p \in ToSet(pls) : p.build # NoId /\ \A q \in ToSet(pls) : PipelineId(q) # p.build

-----------------------------------------------------------------------------
(***************************************************************************)
(* describe                                                                *)
(***************************************************************************)

\* pipeline_ref(with_id=False): the name of the first pipeline with the id.
PipelineRef(m, id) == <<"name", GetId(m, id)[1].name>>

DescribeStage(m, s) ==
    [type |-> <<s.type>>, options |-> s.options,
     devices |-> [k \in DOMAIN s.devices |-> [name |-> s.devices[k].name, type |-> s.devices[k].type,
                                              options |-> s.devices[k].options, parent |-> None]],
     inputs |-> [k \in DOMAIN s.inputs |->
                   [name |-> s.inputs[k].name, type |-> s.inputs[k].type,
                    origin |-> s.inputs[k].origin, options |-> s.inputs[k].options,
                    refs |-> IF s.inputs[k].origin = "pipeline"
                             THEN {PipelineRef(m, r) : r \in s.inputs[k].refs}
                             ELSE s.inputs[k].refs]],
     mounts |-> [k \in DOMAIN s.mounts |-> [name |-> s.mounts[k].name, type |-> s.mounts[k].type,
                                            options |-> s.mounts[k].options,
                                            source |-> s.mounts[k].device]]]

\* describe: the runner goes back to the build pipeline; neither the parents of
\* devices nor epochs are described.
DescribePipeline(m, p) ==
    LET users == {j \in DOMAIN m.pipelines :
                     PipelineId(p) # NoId /\ m.pipelines[j].build = PipelineId(p)}
    IN [name |-> <<p.name>>, epoch |-> None,
        build |-> IF p.build = NoId THEN None ELSE <<PipelineRef(m, p.build)>>,
        runner |-> IF users = {} THEN None ELSE m.pipelines[Max(users)].runner,
        stages |-> [k \in DOMAIN p.stages |-> DescribeStage(m, p.stages[k])]]
Describe(m) ==
    [pipelines |-> [i \in DOMAIN m.pipelines |-> DescribePipeline(m, m.pipelines[i])],
     sources |-> m.sources]

\* manifest[pid] of an id that no pipeline has: KeyError.
DescribeRaises(m) ==
    \E p \in ToSet(m.pipelines) : \E s \in ToSet(p.stages) :
        \E r \in Dependencies(s) : GetId(m, r) = None

-----------------------------------------------------------------------------
(***************************************************************************)
(* output, of a result [success, download, pipelines]: download is a       *)
(* sequence of [name, success, items : sequence of [item, success]],       *)
(* pipelines one of [id, stages : sequence of [id, success]]               *)
(***************************************************************************)

\* The first failing item, unless the source failed as a whole.
FirstFailing(items) ==
    LET failing == SelectSeq(items, LAMBDA i : ~i.success) IN
    IF failing = <<>> THEN "cannot find failing source item" ELSE failing[1].item

\* The first failing item of the first failing source; or else the last stage of
\* the last pipeline.
Error(res) ==
    LET sources == SelectSeq(res.download, LAMBDA s : ~s.success) IN
    IF res.success THEN None
    ELSE IF sources # <<>>
    THEN <<[source |-> sources[1].name, item |-> FirstFailing(sources[1].items)]>>
    ELSE <<[stage |-> Last(Last(res.pipelines).stages).id]>>

\* The report: success, the error, the log of every pipeline that was worked on, and
\* of a success the pipelines whose trees the store has, for their metadata.
Output(m, res, has) ==
    [success |-> res.success,
     error |-> Error(res),
     log |-> {[name |-> p.name, stages |-> r.stages] :
                 <<p, r>> \in {x \in ToSet(m.pipelines) \X ToSet(res.pipelines) :
                                 PipelineId(x[1]) = x[2].id /\ x[2].stages # <<>>}},
     metadata |-> IF res.success THEN {p.name : p \in {x \in ToSet(m.pipelines) : PipelineId(x) \in has}}
                  ELSE {},
     sources |-> res.download]
=============================================================================
