---------------------------- MODULE MCOsbuildCli ----------------------------
(***************************************************************************)
(* Command lines and manifests: every way to order and connect three       *)
(* devices; pipelines with every kind of reference; modules that are fine, *)
(* missing, or do not accept their options, at every place; nested build   *)
(* pipelines of format 1; and, for a few manifests, every command line.    *)
(***************************************************************************)
EXTENDS OsbuildCli

-----------------------------------------------------------------------------
(***************************************************************************)
(* Modules and runners                                                     *)
(***************************************************************************)
Opts(one, two) == [x \in {"1", "2"} |-> IF x = "1" THEN one ELSE two]
File(state, o) == [state |-> state, opts |-> o]
Absent == File("absent", Opts(None, None))
OnlyPlain == <<[accepts |-> {"plain"}, defs |-> FALSE]>>
Defs == <<[accepts |-> {"plain"}, defs |-> TRUE]>>
Json(one, two) == [json |-> File("fine", Opts(one, two)), py |-> Absent]
Py(one, two) == [json |-> Absent, py |-> File("fine", Opts(one, two))]

\* "torn": its .meta.json is not valid, and its program is not looked at.
ModuleTable ==
    [k \in {<<"Stage", "noop">>, <<"Stage", "refs">>, <<"Stage", "rpm">>, <<"Stage", "torn">>,
            <<"Stage", "garbled">>, <<"Assembler", "raw">>, <<"Device", "loop">>,
            <<"Input", "files">>, <<"Input", "tree">>, <<"Mount", "ext4">>,
            <<"Source", "curl">>} |->
        CASE k[2] \in {"noop", "loop"} -> Py(OnlyPlain, None)
          [] k[2] = "refs" -> Json(Defs, None)
          [] k[2] = "torn" -> [json |-> File("invalid", Opts(None, None)), py |-> Py(OnlyPlain, None).py]
          [] k[2] = "garbled" -> [json |-> File("garbled", Opts(None, None)), py |-> Absent]
          [] k[2] \in {"rpm", "raw", "curl", "files", "tree"} -> Json(OnlyPlain, OnlyPlain)
          [] OTHER -> Json(None, OnlyPlain)]
RunnerFiles == {<<"linux", <<>>>>, <<"fedora", <<3, 0>>>>, <<"fedora", <<3, 8>>>>, <<"rhel", <<9>>>>}
Host == <<"fedora", <<4, 1>>>>

-----------------------------------------------------------------------------
(***************************************************************************)
(* Manifests                                                               *)
(***************************************************************************)
St(type) == [type |-> <<type>>, options |-> "plain", devices |-> <<>>, inputs |-> <<>>, mounts |-> <<>>]
Pl(name, build, runner, stages) ==
    [name |-> name, build |-> build, runner |-> runner, epoch |-> None, stages |-> stages]
Two(pipelines) == [pipelines |-> pipelines, sources |-> <<[name |-> "curl", items |-> {<<"item", "a">>}]>>]

\* A stage with three devices, the last of which is mounted.
Dev(name, parent) == [name |-> name, type |-> "loop", options |-> "plain", parent |-> parent]
Parents == {None, <<"a">>, <<"b">>, <<"c">>, <<"x">>}
OfDevices ==
    {Two(<<Pl(<<"tree">>, None, None,
              <<[St("noop") EXCEPT
                   !.devices = <<Dev("a", p), Dev("b", q), Dev("c", r)>>,
                   !.mounts = <<[name |-> "m", type |-> "ext4", options |-> "plain", source |-> <<"c">>]>>]>>)>>) :
        p \in Parents, q \in Parents, r \in Parents}

\* A build pipeline, one beside it that may be the same, and a tree with an input.
In(origin, refs) ==
    [name |-> "in", type |-> "files", options |-> "plain", origin |-> origin, refs |-> refs]
Refs == {In("source", {<<"item", "a">>}), In("source", {<<"item", "z">>}),
         In("pipeline", {<<"name", "other">>}), In("pipeline", {<<"name", "tree">>}),
         In("pipeline", {<<"name", "gone">>}), In("pipeline", {<<"id", <<>>>>, <<"name", "build">>})}
NoopId == StageId(NewStage([build |-> NoId, epoch |-> None, stages |-> <<>>], "noop", "plain"))
Builds == {None, <<<<"name", "build">>>>, <<<<"name", "gone">>>>, <<<<"id", NoopId>>>>}
SomeRunners == {None, <<<<"fedora", <<3, 1>>>>>>, <<<<"rhel", <<8>>>>>>}
OfPipelines ==
    {Two(<<Pl(<<"build">>, None, r, s), Pl(n, b, q, <<St("noop")>>),
           Pl(<<"tree">>, c, None, <<[St("rpm") EXCEPT !.inputs = <<i>>]>>)>>) :
        r \in SomeRunners, s \in {<<>>, <<St("noop")>>}, n \in {<<"other">>, <<"build">>, None},
        b \in Builds, q \in SomeRunners \ {<<<<"rhel", <<8>>>>>>}, c \in Builds, i \in Refs}

\* Modules of all kinds, good and bad, at all places.
Module2(type, opt) == [St(type) EXCEPT !.options = opt]
Parts ==
    {[St("refs") EXCEPT !.devices = <<[Dev("a", None) EXCEPT !.type = t, !.options = o]>>] :
        t \in {"loop", "lvm"}, o \in {"plain", "odd"}}
    \cup {[St("noop") EXCEPT !.inputs = <<[In("source", {}) EXCEPT !.options = o]>>] : o \in {"plain", "odd"}}
    \cup {[St("noop") EXCEPT
             !.mounts = <<[name |-> "m", type |-> "ext4", options |-> o, source |-> None],
                          [name |-> n, type |-> "ext4", options |-> "plain", source |-> None]>>] :
             o \in {"plain", "odd"}, n \in {"m", "n"}}
    \cup {Module2(t, o) : t \in {"noop", "torn", "refs", "garbled", "none"}, o \in {"plain", "odd"}}
    \cup {[St("noop") EXCEPT !.type = None]}
OfModules == {Two(<<Pl(<<"tree">>, None, None, <<s, t>>)>>) : s \in Parts, t \in Parts}

\* Format 1.
S1(type, options) == [type |-> <<type>>, options |-> options, needs |-> {}]
Rpm == [S1("rpm", "plain") EXCEPT !.needs = {<<"item", "a">>}]
Level(stages, runner, assembler) == [stages |-> stages, runner |-> runner, assembler |-> assembler]
One(levels, name) == [levels |-> levels, sources |-> <<[name |-> name, items |-> {<<"item", "a">>}]>>]
Stages1 == {<<>>, <<S1("noop", "plain")>>, <<Rpm, S1("refs", "plain")>>, <<S1("noop", "odd")>>}
Assemblers == {<<>>, <<S1("raw", "plain")>>}
Some == <<<<"fedora", <<3, 1>>>>>>
OfLevels ==
    {One(<<Level(s, r, a)>>, n) : s \in Stages1 \cup {<<[S1("noop", "plain") EXCEPT !.type = None]>>},
                                  r \in SomeRunners, a \in Assemblers, n \in {"files", "zip"}}
    \cup {One(<<Level(s, Some, a), Level(t, r, <<>>)>>, "files") :
             s \in Stages1, t \in Stages1 \ {<<>>}, r \in {None, <<<<"fedora", <<3, 8>>>>>>}, a \in Assemblers}
    \cup {One(<<Level(s, Some, a), Level(s, <<<<"fedora", <<3, 8>>>>>>, <<>>), Level(t, None, <<>>)>>, "files") :
             s \in Stages1, t \in Stages1 \ {<<>>}, a \in Assemblers}

-----------------------------------------------------------------------------
(***************************************************************************)
(* Command lines                                                           *)
(***************************************************************************)
Look == [exports |-> <<>>, outdir |-> FALSE, patterns |-> {}, inspect |-> TRUE, json |-> FALSE,
         user |-> "root", rundir |-> "default"]
Build(exports, patterns) ==
    [Look EXCEPT !.exports = exports, !.outdir = TRUE, !.patterns = patterns, !.inspect = FALSE, !.json = TRUE]

Cmd(version, desc, options) ==
    [version |-> version, desc |-> desc, malformed |-> FALSE, options |-> options]

\* A tree with a build pipeline and an input from a third pipeline.
Three(refs) ==
    Two(<<Pl(<<"other">>, None, None, <<St("noop")>>), Pl(<<"build">>, None, Some, <<St("refs")>>),
          Pl(<<"tree">>, <<<<"name", "build">>>>, None,
             <<[St("rpm") EXCEPT !.inputs = <<In("pipeline", refs)>>], St("noop")>>)>>)
Nested1 == One(<<Level(<<Rpm>>, Some, <<S1("raw", "plain")>>), Level(<<S1("noop", "plain")>>, None, <<>>)>>, "files")

CommandLines ==
    {[Look EXCEPT !.exports = e, !.outdir = o, !.patterns = p, !.inspect = i, !.json = ~o] :
        e \in {<<>>, <<"tree">>, <<"gone">>}, o \in BOOLEAN, i \in BOOLEAN,
        p \in {{}, {Word("build")}, {Word("gone")}, {<<"any">>}, {Word("rpm"), IdOf(NoopId)}}}
    \cup {[Look EXCEPT !.user = u, !.rundir = r] :
             u \in {"root", "mapped", "unmapped"}, r \in {"default", "--rundir DIR", "--rundir=DIR"}}

SomeInputs ==
    {Cmd(<<"2">>, d, Look) : d \in OfDevices \cup OfPipelines \cup OfModules}
    \cup {Cmd(None, d, Look) : d \in OfLevels}
    \cup {[Cmd(v, Three({<<"name", "other">>}), Look) EXCEPT !.malformed = TRUE] : v \in {<<"2">>, <<"3">>}}
    \cup {Cmd(<<"2">>, Three(r), Build(e, {p})) :
             r \in {{<<"name", "other">>}, {<<"name", "tree">>}, {<<"name", "other">>, <<"name", "build">>}},
             e \in {<<"tree">>, <<"other", "tree">>, <<"tree", "other">>}, p \in {<<"any">>, Word("rpm")}}
    \cup {Cmd(v, Nested1, Build(e, {p})) :
             v \in {None, <<"1">>}, e \in {<<"assembler">>, <<"tree">>}, p \in {<<"any">>, Word("rpm")}}
    \cup {Cmd(<<"2">>, Three({<<"name", "other">>}), o) : o \in CommandLines}
=============================================================================
