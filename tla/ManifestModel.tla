--------------------------- MODULE ManifestModel ----------------------------
(***************************************************************************)
(* What a manifest is once it is loaded: Stage, Pipeline and Manifest      *)
(* (osbuild/pipeline.py) with the Input, Device and Mount of their own     *)
(* modules, their ids, the dictionaries that take a stage into a virtual   *)
(* machine, checkpoints, look-up and depsolve.                             *)
(*                                                                         *)
(* An id is a hash: here it is the tuple of what is hashed, the empty one  *)
(* for no id.                                                              *)
(***************************************************************************)
EXTENDS ModuleIndex

NoId == <<>>

\* The element of a sequence of records that has a name, or None.
Named(seq, name) == SelectSeq(seq, LAMBDA x : x.name = name)
Names(seq) == {seq[i].name : i \in DOMAIN seq}

-----------------------------------------------------------------------------
(***************************************************************************)
(* Inputs, devices and mounts                                              *)
(***************************************************************************)

\* Input.__init__, add_reference and calc_id: the name is left out of the id.
Input(name, type, origin, options, refs) ==
    [name |-> name, type |-> type, origin |-> origin, options |-> options,
     refs |-> refs, id |-> <<type, origin, refs, options>>]

\* Device.__init__ and calc_id; parent is None or a device.
Device(name, type, parent, options) ==
    [name |-> name, type |-> type, options |-> options,
     parent |-> IF parent = None THEN None ELSE <<parent[1].name>>,
     id |-> <<type, IF parent = None THEN NoId ELSE parent[1].id, options>>]

\* Mount.__init__ and calc_id; device is None or a device.
Mount(name, type, device, options) ==
    [name |-> name, type |-> type, options |-> options,
     device |-> IF device = None THEN None ELSE <<device[1].name>>,
     id |-> <<type, IF device = None THEN NoId ELSE device[1].id, options>>]

\* Their to_dict: devices and mounts name what they depend on.
InputToDict(i) ==
    [name |-> i.name, type |-> i.type, origin |-> i.origin, options |-> i.options, refs |-> i.refs]
DeviceToDict(d) ==
    [name |-> d.name, type |-> d.type, options |-> d.options, parent |-> d.parent]
MountToDict(m) ==
    [name |-> m.name, type |-> m.type, options |-> m.options, device |-> m.device]

\* Their from_dict, of a device or a mount after the devices that were read before.
InputFromDict(i) == Input(i.name, i.type, i.origin, i.options, i.refs)
DeviceFromDict(d, done) ==
    Device(d.name, d.type,
           IF d.parent = None THEN None ELSE Named(done, d.parent[1]), d.options)
MountFromDict(m, devices) ==
    Mount(m.name, m.type,
          IF m.device = None THEN None ELSE Named(devices, m.device[1]), m.options)

-----------------------------------------------------------------------------
(***************************************************************************)
(* Stages and pipelines                                                    *)
(***************************************************************************)

\* Stage.id: inputs by name, mounts in their order, no devices.
StageId(s) ==
    <<s.type, s.build, s.base, s.options, s.epoch,
      {<<i.name, i.id>> : i \in ToSet(s.inputs)},
      [k \in DOMAIN s.mounts |-> s.mounts[k].id]>>

\* Pipeline.id
PipelineId(p) == IF p.stages = <<>> THEN NoId ELSE StageId(Last(p.stages))

\* Pipeline.add_stage: on the build pipeline and on the stages so far.
NewStage(p, type, options) ==
    [type |-> type, options |-> options, build |-> p.build, base |-> PipelineId(p),
     epoch |-> p.epoch, devices |-> <<>>, inputs |-> <<>>, mounts |-> <<>>,
     checkpoint |-> FALSE]

\* Stage.dependencies
Dependencies(s) ==
    UNION {i.refs : i \in {x \in ToSet(s.inputs) : x.origin = "pipeline"}}

\* Stage.to_dict
ToDict(s) ==
    [s EXCEPT !.inputs = [k \in DOMAIN @ |-> InputToDict(@[k])],
              !.devices = [k \in DOMAIN @ |-> DeviceToDict(@[k])],
              !.mounts = [k \in DOMAIN @ |-> MountToDict(@[k])]]

\* Stage.from_dict
FromDict(data) ==
    LET devices == FoldLeft(LAMBDA done, d : Append(done, DeviceFromDict(d, done)), <<>>, data.devices)
    IN [data EXCEPT !.inputs = [k \in DOMAIN @ |-> InputFromDict(@[k])],
                    !.devices = devices,
                    !.mounts = [k \in DOMAIN @ |-> MountFromDict(@[k], devices)]]

-----------------------------------------------------------------------------
(***************************************************************************)
(* Manifests: [pipelines, sources], both in the order of the description   *)
(***************************************************************************)

\* Manifest.get: the pipeline of a name; or the first one with an id.
First(seq) == SubSeq(seq, 1, Min({1, Len(seq)}))
GetNamed(m, name) == First(Named(m.pipelines, name))
GetId(m, id) == First(SelectSeq(m.pipelines, LAMBDA p : PipelineId(p) = id))

\* The haystacks of mark_checkpoints: names and types as words, and ids.
Word(w) == <<"word", w>>
IdOf(id) == <<"id", id>>
Matching(patterns, hay) == hay \in patterns \/ <<"any">> \in patterns

\* Manifest.mark_checkpoints: the last stage of a pipeline that matches, and every
\* stage that does.
Marks(patterns, p, k) ==
    \/ Matching(patterns, IdOf(StageId(p.stages[k])))
    \/ Matching(patterns, Word(p.stages[k].type))
    \/ k = Len(p.stages) /\ Matching(patterns, Word(p.name))
MarkCheckpoints(m, patterns) ==
    [m EXCEPT !.pipelines = [i \in DOMAIN @ |->
        [@[i] EXCEPT !.stages = [k \in DOMAIN @ |->
            [@[k] EXCEPT !.checkpoint = Marks(patterns, m.pipelines[i], k)]]]]]

Selected(m, patterns) ==
    UNION {{StageId(p.stages[k]) : k \in {x \in DOMAIN p.stages : Marks(patterns, p, x)}} :
           p \in ToSet(m.pipelines)}

\* One turn of the loop of Manifest.depsolve: check is the stack of what look-ups
\* gave, build the ordered dictionary of pipelines by id.
DepsolveTurn(m, has, d) ==
    LET pl == Last(d.check)[1]
        \* the stages after the last one that the store has
        open == {k \in DOMAIN pl.stages :
                    \A j \in k..Len(pl.stages) : StageId(pl.stages[j]) \notin has}
        deps == UNION {Dependencies(pl.stages[k]) : k \in open}
        next == (IF pl.build = NoId THEN <<>> ELSE <<pl.build>>) \o SetToSeq(deps)
    IN IF d.check = <<>> \/ d.broken THEN d
       ELSE IF Last(d.check) = None THEN [d EXCEPT !.broken = TRUE]
       ELSE IF PipelineId(pl) \in has THEN [d EXCEPT !.check = Front(@)]
       ELSE [check |-> Front(d.check) \o [k \in DOMAIN next |-> GetId(m, next[k])],
             build |-> Append(SelectSeq(d.build, LAMBDA p : PipelineId(p) # PipelineId(pl)), pl),
             broken |-> FALSE]

\* Manifest.depsolve of named pipelines: what to build, in order.  More turns than
\* the manifests take change nothing.
Turns == 24
Depsolve(m, targets, has) ==
    LET D[n \in 0..Turns] ==
            IF n = 0 THEN [check |-> [k \in DOMAIN targets |-> GetNamed(m, targets[k])],
                           build |-> <<>>, broken |-> FALSE]
            ELSE DepsolveTurn(m, has, D[n - 1])
    IN [D[Turns] EXCEPT !.build = Reverse(@)]
=============================================================================
