---------------------------- MODULE ModuleIndex -----------------------------
(***************************************************************************)
(* What osbuild knows about its modules (osbuild/meta.py): ModuleInfo and  *)
(* where its schemata come from, the schema an Index makes of them for a   *)
(* version of the manifest format, and the runner it picks for a name.     *)
(*                                                                         *)
(* Optional values are sequences of at most one element.  A schema is what *)
(* it accepts; those that are written with references need their           *)
(* "definitions" at the top, to where Index.get_schema moves them.         *)
(***************************************************************************)
EXTENDS Naturals, Sequences, SequencesExt, FiniteSets, FiniteSetsExt

CONSTANTS
    Modules,       \* <<class, name>> -> [json, py : [state, opts]], the files
    Versions,      \* versions of the format that osbuild has a schema for
    Runners,       \* the files in runners/: pairs of distribution and digits
    HostName       \* ID and VERSION_ID of the host, the latter without dots

\* ModuleInfo.MODULES
MODULES == {"Assembler", "Device", "Input", "Mount", "Source", "Stage"}

ASSUME IndexAssumption ==
    /\ \A k \in DOMAIN Modules : k[1] \in MODULES
    /\ Versions \subseteq {"1", "2"}

-----------------------------------------------------------------------------
(***************************************************************************)
(* ModuleInfo                                                              *)
(***************************************************************************)

None == <<>>
Raises == <<"raises", "an exception">>

\* ModuleInfo.load: the .meta.json first, which says all if it is there.
Load(klass, name) ==
    IF <<klass, name>> \notin DOMAIN Modules THEN None
    ELSE LET m == Modules[<<klass, name>>]
             f == IF m.json.state = "absent" THEN m.py ELSE m.json
         IN CASE f.state = "fine" -> <<f.opts>>
              [] f.state = "garbled" -> Raises
              [] OTHER -> None

\* The options schema that get_schema starts from: the key of ModuleInfo.opts.
\* Stages fall back from 2 to 1, where nothing means that all is accepted; devices,
\* inputs and sources too, but need one; mounts are of version 2.
RawKey(klass, opts, version) ==
    CASE klass \in {"Stage", "Assembler"} ->
            <<IF version = "2" /\ opts["2"] # None THEN "2" ELSE "1">>
      [] klass = "Mount" -> IF opts["2"] = None THEN None ELSE <<"2">>
      [] OTHER -> IF opts[version] # None THEN <<version>>
                  ELSE IF opts["1"] # None THEN <<"1">> ELSE None

\* ModuleInfo.get_schema: the accepted options and whether its references can be
\* resolved, which they cannot when the definitions were taken out before.
Anything == [accepts |-> {"plain", "odd"}, defs |-> FALSE]
SchemaFrom(klass, opts, version, moved) ==
    LET key == RawKey(klass, opts, version) IN
    IF key = None THEN Raises
    ELSE LET raw == IF opts[key[1]] = None THEN Anything ELSE opts[key[1]][1] IN
         <<[accepts |-> raw.accepts, broken |-> raw.defs /\ key[1] \in moved]>>

-----------------------------------------------------------------------------
(***************************************************************************)
(* Index: [infos, schemata, moved], the caches and, per module, the        *)
(* options schemata whose definitions are no longer where they were.       *)
(***************************************************************************)
EmptyIndex == [schemata |-> <<>>, moved |-> {}]

Moved(index, klass, name) ==
    {o[3] : o \in {x \in index.moved : x[1] = klass /\ x[2] = name}}

\* The schema of a module for an index: missing (None) when the module is.
MakeSchema(index, klass, name, version) ==
    LET info == Load(klass, name) IN
    IF info = None \/ info = Raises THEN info
    ELSE SchemaFrom(klass, info[1], version, Moved(index, klass, name))

\* A mutation of GetSchema: nothing is cached.
GetSchemaAnew(index, klass, name, version) ==
    LET key == <<klass, name, version>>
        schema == MakeSchema(index, klass, name, version)
        info == Load(klass, name)
    IN [schema |-> schema,
        index |-> IF schema \in {None, Raises} THEN index
                  ELSE [index EXCEPT !.moved =
                      @ \cup {<<klass, name, RawKey(klass, info[1], version)[1]>>}]]
\* Index.get_schema: what it returns and the index after it.
GetSchema(index, klass, name, version) ==
    LET key == <<klass, name, version>>
        known == {e \in ToSet(index.schemata) : e.key = key}
        schema == MakeSchema(index, klass, name, version)
        info == Load(klass, name)
    IN IF known # {} THEN [schema |-> (CHOOSE e \in known : TRUE).schema, index |-> index]
       ELSE [schema |-> schema,
             index |-> IF schema = Raises THEN index
                       ELSE [schemata |-> Append(index.schemata, [key |-> key, schema |-> schema]),
                             moved |-> IF schema = None THEN index.moved
                                       ELSE index.moved \cup
                                            {<<klass, name, RawKey(klass, info[1], version)[1]>>}]]

\* Schema.validate: a missing schema fails everything.
Accepts(schema, options) ==
    schema # None /\ options \in schema[1].accepts

-----------------------------------------------------------------------------
(***************************************************************************)
(* Runners                                                                 *)
(***************************************************************************)

\* RunnerInfo.parse_name: the version is the number that the digits at the end of
\* the name make, 0 without any.
Version(digits) == FoldLeft(LAMBDA n, d : 10 * n + d, 0, digits)

\* Index.list_runners and detect_runner: the candidates are sorted by version and
\* gone through from the end.
DetectRunner(name) ==
    LET sorted == SetToSortSeq({r \in Runners : r[1] = name[1]},
                               LAMBDA r, q : Version(r[2]) < Version(q[2]))
        fit == SelectSeq(Reverse(sorted), LAMBDA r : Version(r[2]) <= Version(name[2]))
    IN IF fit = <<>> THEN None ELSE <<fit[1]>>

\* Index.detect_host_runner
DetectHostRunner == DetectRunner(HostName)
HostRunner == DetectHostRunner[1]

\* Index.detect_format_info: without a version it is format 1.
DetectFormat(version) ==
    LET v == IF version = None THEN "1" ELSE version[1] IN
    IF v \in Versions THEN <<v>> ELSE None
=============================================================================
