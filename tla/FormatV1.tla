------------------------------ MODULE FormatV1 ------------------------------
(***************************************************************************)
(* Version 1 of the manifest description (osbuild/formats/v1.py): one      *)
(* pipeline, the build pipelines nested in it, an assembler and sources.   *)
(*                                                                         *)
(* A description is [levels, sources]: levels[1] is the pipeline, and      *)
(* levels[i + 1] the pipeline of its "build", whose runner is part of      *)
(* level i: [stages, runner, assembler].  A stage has an optional name,    *)
(* options, and the source items it names in them.                         *)
(***************************************************************************)
EXTENDS ManifestModel

Levels(d) == DOMAIN d.levels

-----------------------------------------------------------------------------
(***************************************************************************)
(* validate                                                                *)
(***************************************************************************)

Visit(klass, name, options, path) ==
    [klass |-> klass, name |-> name, options |-> options, path |-> path]

\* What ValidationResult.merge puts before the paths of level i: one "pipeline",
\* "build" for each level above.
Nested(i) == FlattenSeq([k \in 1..(i - 1) |-> <<"pipeline", "build">>]) \o <<"pipeline">>

\* validate: the build pipeline first, then stages and assembler; sources last.
LevelVisits(d, i) ==
    [k \in DOMAIN d.levels[i].stages |->
        Visit("Stage", d.levels[i].stages[k].type[1], d.levels[i].stages[k].options,
              Nested(i) \o <<"stages", k>>)]
    \o [k \in DOMAIN d.levels[i].assembler |->
        Visit("Assembler", d.levels[i].assembler[k].type[1], d.levels[i].assembler[k].options,
              Nested(i) \o <<"assembler">>)]
SourceName(name) == IF name = "files" THEN "curl" ELSE name
Visits(d) ==
    FlattenSeq([n \in Levels(d) |-> LevelVisits(d, Len(d.levels) + 1 - n)])
    \o [k \in DOMAIN d.sources |->
        Visit("Source", SourceName(d.sources[k].name), "plain", <<"sources", SourceName(d.sources[k].name)>>)]

\* stage["name"] or assembler["name"] that is not there: KeyError.
ValidateRaises(d) ==
    \E l \in ToSet(d.levels) : \E s \in ToSet(l.stages) \cup ToSet(l.assembler) : s.type = None

-----------------------------------------------------------------------------
(***************************************************************************)
(* load                                                                    *)
(***************************************************************************)

\* load_stage: the packages and commits that the options name become an input.
LoadStage(pl, s) ==
    LET input == CASE s.type[1] = "rpm" -> <<Input("packages", "files", "source", "plain", s.needs)>>
                   [] s.type[1] = "ostree" -> <<Input("commits", "ostree", "source", "plain", s.needs)>>
                   [] OTHER -> <<>>
    IN [pl EXCEPT !.stages =
           Append(@, [NewStage(pl, s.type[1], s.options) EXCEPT !.inputs = input])]

\* load_pipeline: "tree", "build", "build-build", ...
LevelName(i) ==
    IF i = 1 THEN "tree"
    ELSE FoldLeft(LAMBDA name, k : name \o "-build", "build", [k \in 1..(i - 2) |-> k])

\* load_pipeline and load_build: the deepest build pipeline is added first.
LoadLevels(d) ==
    LET P[i \in 1..(Len(d.levels) + 1)] ==
            IF i > Len(d.levels) THEN <<>>
            ELSE LET l == d.levels[i]
                     below == P[i + 1]
                     new == [name |-> LevelName(i), epoch |-> None, stages |-> <<>>,
                             build |-> IF below = <<>> THEN NoId ELSE PipelineId(Last(below)),
                             runner |-> IF l.runner = None THEN <<HostRunner>> ELSE l.runner]
                 IN Append(below, FoldLeft(LoadStage, new, l.stages))
    IN P[1]

\* load_assembler: a pipeline of one stage, on nothing, with the tree as input.
AssemblerPipeline(tree, a) ==
    LET new == [tree EXCEPT !.name = "assembler", !.stages = <<>>]
        stage == [NewStage(new, a.type[1], a.options) EXCEPT
                     !.inputs = <<Input("tree", "tree", "pipeline", "plain", {PipelineId(tree)})>>]
    IN [new EXCEPT !.stages = <<stage>>]

\* load; assemblers of build pipelines are ignored.
LoadManifest(d) ==
    LET levels == LoadLevels(d)
        a == d.levels[1].assembler
    IN [pipelines |-> levels \o [k \in DOMAIN a |-> AssemblerPipeline(Last(levels), a[k])],
        sources |-> [k \in DOMAIN d.sources |->
                        [d.sources[k] EXCEPT !.name = SourceName(@)]]]

\* There is no runner, a source of an unknown type, or no module for an input that
\* load adds by itself.
LoadRaises(d) ==
    \/ \E l \in ToSet(d.levels) : l.runner # None /\ DetectRunner(l.runner[1]) = None
    \/ DetectHostRunner = None /\ Last(d.levels).runner = None
    \/ \E s \in ToSet(d.sources) : SourceName(s.name) \notin {"curl", "ostree", "librepo"}
    \/ \E p \in ToSet(LoadLevels(d)) : \E s \in ToSet(p.stages) : \E i \in ToSet(s.inputs) :
          Load("Input", i.type) \in {None, Raises}
    \/ d.levels[1].assembler # None /\ Load("Input", "tree") \in {None, Raises}

-----------------------------------------------------------------------------
(***************************************************************************)
(* describe                                                                *)
(***************************************************************************)

\* describe_stage: the inputs come from the options.
DescribeStage(s) ==
    [type |-> <<s.type>>, options |-> s.options,
     needs |-> UNION {i.refs : i \in {x \in ToSet(s.inputs) : x.origin = "source"}}]

\* The tree, its build pipeline, the build pipeline of that, ...
Chain(m) ==
    LET C[n \in 1..Len(m.pipelines)] ==
            IF n = 1 THEN Named(m.pipelines, "tree")
            ELSE IF Last(C[n - 1]).build = NoId THEN C[n - 1]
            ELSE C[n - 1] \o GetId(m, Last(C[n - 1]).build)
    IN C[Len(m.pipelines)]
Assembler(m) == Named(m.pipelines, "assembler")

\* A mutation of DescribeLevels: the runner is described for build pipelines only.
DescribeLevelsInner(m) ==
    LET chain == Chain(m)
        asm(k) == Assembler(m)[k].stages[1]
    IN [i \in DOMAIN chain |->
           [stages |-> [k \in DOMAIN chain[i].stages |-> DescribeStage(chain[i].stages[k])],
            runner |-> IF i = 1 \/ chain[i].build = NoId THEN None ELSE chain[i].runner,
            assembler |-> IF i > 1 THEN <<>>
                          ELSE [k \in DOMAIN Assembler(m) |->
                                   [type |-> <<asm(k).type>>, options |-> asm(k).options]]]]
\* describe_pipeline and the assembler; a runner without a build pipeline is not
\* described.
DescribeLevels(m) ==
    LET chain == Chain(m)
        asm(k) == Assembler(m)[k].stages[1]
    IN [i \in DOMAIN chain |->
           [stages |-> [k \in DOMAIN chain[i].stages |-> DescribeStage(chain[i].stages[k])],
            runner |-> IF chain[i].build = NoId THEN None ELSE chain[i].runner,
            assembler |-> IF i > 1 THEN <<>>
                          ELSE [k \in DOMAIN Assembler(m) |->
                                   [type |-> <<asm(k).type>>, options |-> asm(k).options]]]]

Describe(m) ==
    [levels |-> DescribeLevels(m),
     sources |-> [k \in DOMAIN m.sources |->
                    [m.sources[k] EXCEPT !.name = IF @ = "curl" THEN "files" ELSE @]]]

-----------------------------------------------------------------------------
(***************************************************************************)
(* output, of a result [success, download, pipelines], whose pipelines are *)
(* a sequence of [id, stages : sequence of [id, success]]                  *)
(***************************************************************************)

StagesOf(res, id) ==
    LET of == SelectSeq(res.pipelines, LAMBDA r : r.id = id) IN
    IF of = <<>> THEN <<>> ELSE of[1].stages
Succeeded(stages) == \A k \in DOMAIN stages : stages[k].success

\* result_for_pipeline: a pipeline with a build pipeline takes over its success,
\* whatever became of its own stages; without results it is a success.
TreeSuccess(m, res) == Succeeded(StagesOf(res, PipelineId(Last(Chain(m)))))

\* The stage of the assembler has no result, as its tree was in the store when its
\* turn came: IndexError.
OutputRaises(m, res) ==
    \E a \in ToSet(Assembler(m)) : \E r \in ToSet(res.pipelines) :
        r.id = PipelineId(a) /\ r.stages = <<>>

\* output: the success, and all stage results below it.
Output(m, res) ==
    LET asm == Assembler(m)
        last == IF asm = None THEN <<>> ELSE StagesOf(res, PipelineId(asm[1]))
    IN [success |-> TreeSuccess(m, res) /\ Succeeded(last),
        stages |-> FlattenSeq([k \in DOMAIN Chain(m) |-> StagesOf(res, PipelineId(Chain(m)[k]))])
                   \o last]
=============================================================================
