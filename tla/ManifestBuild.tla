--------------------------- MODULE ManifestBuild ----------------------------
(***************************************************************************)
(* From a manifest to exported trees: Manifest.depsolve and build,         *)
(* Pipeline.build_stages (osbuild/pipeline.py), ObjectStore                *)
(* (osbuild/objectstore.py) and the end of osbuild_cli (main_cli.py), run  *)
(* by several processes that share one cache.                              *)
(*                                                                         *)
(* A tree is the history of what made it: a record of the stage that ran,  *)
(* of the tree it started from, of its build tree and of the trees it had  *)
(* as inputs.  An id is a hash of the same facts as the manifest states    *)
(* them, so a record as well.  The right tree for an id is then the one    *)
(* that says the same.                                                     *)
(*                                                                         *)
(* The cache is seen as its callers see it (FsCache has the details): an   *)
(* entry that nobody holds open may disappear at any moment, and a look-up *)
(* may miss an entry that somebody else has locked for a moment.           *)
(***************************************************************************)
EXTENDS Naturals, Sequences, SequencesExt, FiniteSets

CONSTANTS
    Proc,          \* osbuild processes
    Manifests,     \* a sequence of manifests; each is a sequence of pipelines
                   \*   [build : index of an earlier pipeline or 0 for the host,
                   \*    stages : sequence of [what, dev, deps, checkpoint]]
    Exports,       \* per manifest: the lists of pipelines to export
    Host,          \* the tree of the host
    None,          \* no id, no tree
    Unhashed,      \* what is left out of an id
    MayFail        \* whether stages and downloads fail

ASSUME BuildAssumption ==
    /\ Len(Manifests) \in Nat
    /\ \A n \in 1..Len(Manifests) :
          Len(Manifests[n]) \in Nat /\ Exports[n] \subseteq Seq(1..Len(Manifests[n]))
    /\ \A n \in 1..Len(Manifests) : \A i \in 1..Len(Manifests[n]) :
          /\ Manifests[n][i].build \in 0..(i - 1) /\ Len(Manifests[n][i].stages) \in Nat
          /\ \A k \in 1..Len(Manifests[n][i].stages) :
                Manifests[n][i].stages[k].deps \subseteq 1..(i - 1)
    /\ MayFail \in BOOLEAN

VARIABLES
    alone,     \* one process is the only user of the cache
    mf,        \* per process: the index of its manifest
    cache,     \* the entries of the cache: pairs of id and tree
    proc       \* per process: its object store and local variables

vars == <<alone, mf, cache, proc>>
setting == <<alone, mf>>

-----------------------------------------------------------------------------
(***************************************************************************)
(* Ids and trees                                                           *)
(***************************************************************************)

\* What a stage makes of a base tree.
Made(what, dev, base, build, inputs) ==
    [what |-> what, dev |-> dev, base |-> base, build |-> build,
     inputs |-> inputs]

\* What pipeline i ends with in the histories h, None without stages, and what it is
\* built with.
Top(m, h, i) == IF Len(m[i].stages) = 0 THEN None ELSE h[i][Len(m[i].stages)]
BuildOf(m, h, i) == IF m[i].build = 0 THEN None ELSE Top(m, h, m[i].build)

\* Stage k of pipeline i, on that base.  The records of trees have the devices of a
\* stage, the ids do not: Stage.id does not hash them.
Grown(m, devices, h, i, k, base) ==
    LET st == m[i].stages[k]
        b == BuildOf(m, h, i)
    IN  Made(st.what, IF devices THEN st.dev ELSE Unhashed, base,
             IF b = None THEN Host ELSE b, {Top(m, h, j) : j \in st.deps})

\* The history of pipeline i, given those of earlier ones, and that of all of them.
Stages(m, devices, h, i) ==
    LET S[k \in 1..Len(m[i].stages)] ==
            Grown(m, devices, h, i, k, IF k = 1 THEN None ELSE S[k - 1])
    IN  [k \in 1..Len(m[i].stages) |-> S[k]]
History(m, devices) ==
    LET H[i \in 1..Len(m)] == Stages(m, devices, H, i) IN [i \in 1..Len(m) |-> H[i]]

\* Ids[n][i][k]: the id of the k-th stage of pipeline i of manifest n.
Ids == [n \in 1..Len(Manifests) |-> History(Manifests[n], FALSE)]
Trees == [n \in 1..Len(Manifests) |-> History(Manifests[n], TRUE)]

\* What a stage makes, and its hash, is not mistaken for nothing or the host.
ASSUME HashAssumption ==
    \A n \in 1..Len(Manifests) : \A i \in 1..Len(Manifests[n]) :
        \A k \in 1..Len(Manifests[n][i].stages) :
            {Ids[n][i][k], Trees[n][i][k]} \cap {None, Host} = {}

\* Everything that an earlier run of manifest n may have left in the cache.
Known(n) ==
    UNION {{<<Ids[n][i][k], Trees[n][i][k]>> :
               k \in 1..Len(Manifests[n][i].stages)} :
           i \in 1..Len(Manifests[n])}

Pipelines(p) == Manifests[mf[p]]
StageId(p, i, k) == Ids[mf[p]][i][k]
\* Pipeline.id: None without stages
Id(p, i) == Top(Pipelines(p), Ids[mf[p]], i)
\* Pipeline.build: an id, None for the host
BuildId(p, i) == BuildOf(Pipelines(p), Ids[mf[p]], i)
\* Manifest.get: the first pipeline with that id
Get(p, id) ==
    CHOOSE i \in 1..Len(Pipelines(p)) :
        /\ Id(p, i) = id
        /\ \A j \in 1..(i - 1) : Id(p, j) # id

-----------------------------------------------------------------------------
(***************************************************************************)
(* The object store of a process                                           *)
(***************************************************************************)
Start(exports) ==
    [pc |-> "depsolve",
     exports |-> ToSet(exports),
     check |-> exports,               \* pipelines depsolve has to look at
     todo |-> <<>>,                 \* pipelines to build, last one first
     floating |-> {},               \* finished objects: pairs of id and tree
     held |-> {},                   \* cache entries that are open for reading
     tree |-> None,                 \* the tree being built
     build |-> None,                \* its build tree
     stage |-> 0,                   \* stages of the pipeline that are done
     out |-> {}]                    \* exported: pairs of pipeline and tree

\* All processes begin with an empty cache; or the others have ended and left any
\* part of what builds of the same manifest store.
Init ==
    \/ \E x \in [Proc -> UNION {Exports[n] : n \in DOMAIN Exports}] :
          /\ mf \in [Proc -> 1..Len(Manifests)]
          /\ \A p \in Proc : x[p] \in Exports[mf[p]]
          /\ proc = [p \in Proc |-> Start(x[p])]
          /\ alone = FALSE /\ cache = {}
    \/ \E n \in 1..Len(Manifests) : \E x \in Exports[n] :
          /\ mf = [p \in Proc |-> n] /\ alone = TRUE
          /\ cache \in SUBSET Known(n)
          /\ \E p \in Proc : proc = [q \in Proc |->
                IF q = p THEN Start(x) ELSE [Start(x) EXCEPT !.pc = "done"]]

\* What a look-up of this process may find in the cache.
Seen == IF alone THEN {cache} ELSE SUBSET cache

Floating(p, id) == \E o \in proc[p].floating : o[1] = id

\* ObjectStore.contains: the read lock is released at once.
InStore(p, id, seen) ==
    id # None /\ (Floating(p, id) \/ \E o \in seen : o[1] = id)

\* ObjectStore.get: the floating objects first; an entry of the cache stays open.
Found(p, id, seen) ==
    IF Floating(p, id)
    THEN {o \in proc[p].floating : o[1] = id}
    ELSE {o \in seen : o[1] = id /\ id # None}

At(p, l) == proc[p].pc = l

\* The process ends: ObjectStore.cleanup closes what it holds open.
End(p, l) ==
    proc' = [proc EXCEPT ![p] = [@ EXCEPT !.pc = l, !.floating = {},
                                          !.held = {}, !.tree = None,
                                          !.build = None]]

-----------------------------------------------------------------------------
\* depsolve: one round of the loop.  The pipeline goes to the end of the ordered
\* set; its build pipeline and the inputs of its stages, from the last one down
\* to the first one that is stored, are looked at next.
Unstored(p, i, seen) ==
    {k \in 1..Len(Pipelines(p)[i].stages) :
        \A l \in k..Len(Pipelines(p)[i].stages) :
            ~InStore(p, StageId(p, i, l), seen)}

\* A mutation of Requeue: a pipeline that was seen before keeps its place.
RequeueOnce(p, i) ==
    IF \E j \in DOMAIN proc[p].todo : proc[p].todo[j] = i
    THEN proc[p].todo ELSE Append(proc[p].todo, i)
\* build[pl.id] = pl; build.move_to_end(pl.id): the keys of the ordered set are ids.
Requeue(p, i) ==
    LET todo == proc[p].todo
        at == {x \in DOMAIN todo : Id(p, todo[x]) = Id(p, i)}
    IN  Append(IF at = {} THEN todo ELSE RemoveAt(todo, CHOOSE x \in at : TRUE), i)

Depsolve(p) ==
    /\ At(p, "depsolve")
    /\ proc[p].check # <<>>
    /\ \E seen \in Seen :
         LET i == Last(proc[p].check)
             rest == Front(proc[p].check)
             b == Pipelines(p)[i].build
             deps == UNION {Pipelines(p)[i].stages[k].deps :
                               k \in Unstored(p, i, seen)}
         IN IF InStore(p, Id(p, i), seen)
            THEN proc' = [proc EXCEPT ![p].check = rest]
            ELSE \E inputs \in SetToSeqs({Get(p, Id(p, j)) : j \in deps}) :
                 proc' = [proc EXCEPT
                    ![p].todo = Requeue(p, i),
                    ![p].check = rest
                        \o (IF BuildId(p, i) = None THEN <<>>
                            ELSE <<Get(p, BuildId(p, i))>>)
                        \o inputs]
    /\ UNCHANGED <<setting, cache>>

\* Manifest.download
Download(p) ==
    /\ At(p, "depsolve")
    /\ proc[p].check = <<>>
    /\ \/ proc' = [proc EXCEPT ![p].pc = "next"]
       \/ MayFail /\ End(p, "failed")
    /\ UNCHANGED <<setting, cache>>

\* A mutation of Remaining: a pipeline stays in the list.
RemainingAll(p) == proc[p].todo
\* The pipelines that follow the current one in Manifest.build.
Remaining(p) == Front(proc[p].todo)

\* Manifest.build takes the next pipeline; build_stages returns at once when it
\* has no stages or its tree exists.
NextPipeline(p) ==
    /\ At(p, "next")
    /\ \/ /\ proc[p].todo = <<>>
          /\ proc' = [proc EXCEPT ![p].pc = "export"]
       \/ /\ proc[p].todo # <<>>
          /\ \E seen \in Seen :
               LET i == Last(proc[p].todo) IN
               IF Id(p, i) = None \/ InStore(p, Id(p, i), seen)
               THEN proc' = [proc EXCEPT ![p].todo = Remaining(p)]
               ELSE proc' = [proc EXCEPT ![p].pc = "build"]
    /\ UNCHANGED <<setting, cache>>

\* build_tree = object_store.get(self.build), or the host
BuildTree(p) ==
    /\ At(p, "build")
    /\ LET id == BuildId(p, Last(proc[p].todo)) IN
       \/ /\ id = None
          /\ proc' = [proc EXCEPT ![p].pc = "base", ![p].build = Host]
       \/ /\ id # None
          /\ \E seen \in Seen :
               \/ \E o \in Found(p, id, seen) :
                    proc' = [proc EXCEPT ![p].pc = "base", ![p].build = o[2],
                               ![p].held = @ \cup ({o} \cap cache)]
               \/ Found(p, id, seen) = {} /\ End(p, "noBuildTree")
    /\ UNCHANGED <<setting, cache>>

\* Mutations of Resume: a stage is skipped, or all of them run again.
ResumeLate(k, n) == IF k < n THEN k + 1 ELSE k
ResumeNever(k, n) == 0
\* Number of stages done when the base is the tree of stage k of n.
Resume(k, n) == k

\* tree = object_store.new(); the last stage that is stored is the base.  The
\* stages above it were looked up and missed.
Base(p) ==
    /\ At(p, "base")
    /\ \E seen \in Seen :
         LET i == Last(proc[p].todo)
             n == Len(Pipelines(p)[i].stages)
             stored == {k \in 1..n : Found(p, StageId(p, i, k), seen) # {}}
         IN \/ /\ stored = {}
               /\ proc' = [proc EXCEPT ![p].pc = "stage", ![p].tree = None,
                                       ![p].stage = 0]
            \/ \E k \in stored, o \in seen \cup proc[p].floating :
                 /\ \A l \in stored : l <= k
                 /\ o \in Found(p, StageId(p, i, k), seen)
                 /\ proc' = [proc EXCEPT ![p].pc = "stage", ![p].tree = o[2],
                               ![p].stage = Resume(k, n),
                               ![p].held = @ \cup ({o} \cap cache)]
    /\ UNCHANGED <<setting, cache>>

\* Stage.run: every input asks the store for its tree; then the stage succeeds
\* or fails.  After a failure the tree stays in write mode and is not found.
RunStage(p) ==
    /\ At(p, "stage")
    /\ LET i == Last(proc[p].todo)
           k == proc[p].stage + 1
           st == Pipelines(p)[i].stages[k]
           ids == {Id(p, j) : j \in st.deps}
       IN /\ proc[p].stage < Len(Pipelines(p)[i].stages)
          /\ \E seen \in Seen :
               LET objs == UNION {Found(p, id, seen) : id \in ids} IN
               \/ /\ {o[1] : o \in objs} = ids
                  /\ proc' = [proc EXCEPT
                        ![p].pc = IF st.checkpoint THEN "commit" ELSE "stage",
                        ![p].stage = k,
                        ![p].held = @ \cup (objs \cap cache),
                        ![p].tree = Made(st.what, st.dev, @, proc[p].build,
                                         {o[2] : o \in objs})]
               \/ {o[1] : o \in objs} # ids /\ End(p, "noInput")
               \/ MayFail /\ End(p, "failed")
    /\ UNCHANGED <<setting, cache>>

\* ObjectStore.commit of a checkpoint: the cache takes it or not.
Commit(p) ==
    /\ At(p, "commit")
    /\ LET id == StageId(p, Last(proc[p].todo), proc[p].stage) IN
       \/ /\ \A o \in cache : o[1] # id
          /\ cache' = cache \cup {<<id, proc[p].tree>>}
       \/ UNCHANGED cache
    /\ proc' = [proc EXCEPT ![p].pc = "stage"]
    /\ UNCHANGED setting

\* tree.finalize(): the object can be found from now on.
Finalize(p) ==
    /\ At(p, "stage")
    /\ LET i == Last(proc[p].todo) IN
       /\ proc[p].stage = Len(Pipelines(p)[i].stages)
       /\ proc' = [proc EXCEPT ![p].pc = "next", ![p].todo = Remaining(p),
                     ![p].floating = @ \cup {<<Id(p, i), proc[p].tree>>},
                     ![p].tree = None, ![p].build = None]
    /\ UNCHANGED <<setting, cache>>

\* export() of main_cli for one of the pipelines, and the end of osbuild_cli
Export(p) ==
    /\ At(p, "export")
    /\ LET left == proc[p].exports \ {o[1] : o \in proc[p].out} IN
       \/ /\ left = {}
          /\ End(p, "done")
       \/ \E i \in left, seen \in Seen :
            \/ \E o \in Found(p, Id(p, i), seen) :
                 proc' = [proc EXCEPT ![p].out = @ \cup {<<i, o[2]>>},
                                      ![p].held = @ \cup ({o} \cap cache)]
            \/ Found(p, Id(p, i), seen) = {} /\ End(p, "noExport")
    /\ UNCHANGED <<setting, cache>>

\* Any process that stores something may evict what nobody holds open.
Evict ==
    /\ ~alone
    /\ \E o \in cache :
          /\ \A p \in Proc : o \notin proc[p].held
          /\ cache' = cache \ {o}
    /\ UNCHANGED <<setting, proc>>

Step(p) ==
    \/ Depsolve(p) \/ Download(p) \/ NextPipeline(p) \/ BuildTree(p) \/ Base(p)
    \/ RunStage(p) \/ Commit(p) \/ Finalize(p) \/ Export(p)

Ends == {"done", "failed", "noBuildTree", "noInput", "noExport"}
Finished == (\A p \in Proc : proc[p].pc \in Ends) /\ UNCHANGED vars

Next == (\E p \in Proc : Step(p)) \/ Evict \/ Finished

Spec == Init /\ [][Next]_vars

\* A process does not wait for others; its stages end.
FairSpec == Spec /\ \A p \in Proc : WF_vars(Step(p))

-----------------------------------------------------------------------------
(***************************************************************************)
(* Properties                                                              *)
(***************************************************************************)

\* Types of the variables of the model of Manifest and ObjectStore.
TypeOK ==
    /\ mf \in [Proc -> 1..Len(Manifests)] /\ alone \in BOOLEAN
    /\ \A p \in Proc :
          /\ proc[p].pc \in {"depsolve", "next", "build", "base", "stage",
                             "commit", "export"} \cup Ends
          /\ ToSet(proc[p].check) \cup ToSet(proc[p].todo)
                 \subseteq 1..Len(Pipelines(p))
          /\ At(p, "stage") => proc[p].stage \in
                 0..Len(Pipelines(p)[Last(proc[p].todo)].stages)

\* An id determines a tree: whatever is found under an id that a manifest uses,
\* in the cache, among the finished objects or in the output directory, is the
\* tree that the manifest describes, though trees are put together from
\* checkpoints, other pipelines and other processes' entries, and builds fail
\* half-way ("this identifies the pipeline via the tree, i.e. the content, it
\* produces", Pipeline.id).
TreeOfId(p, i, k) == Trees[mf[p]][i][k]
Right(p, objs) ==
    \A i \in 1..Len(Pipelines(p)) : \A k \in 1..Len(Pipelines(p)[i].stages) :
        \A o \in objs : o[1] = StageId(p, i, k) => o[2] = TreeOfId(p, i, k)
ContentById ==
    \A p \in Proc :
        /\ Right(p, cache \cup proc[p].floating)
        /\ \A o \in proc[p].out : o[2] = Top(Pipelines(p), Trees[mf[p]], o[1])

\* depsolve puts every pipeline after those it needs: a build tree, an input and
\* an export are always found ("a dependency that gets checked multiple times,
\* like a build pipeline, always gets built before its dependent pipeline"), as
\* long as nobody evicts it.
NothingMissing == alone =>
    \A p \in Proc : proc[p].pc \notin {"noBuildTree", "noInput", "noExport"}

\* Stages whose tree is stored are not run again: build_stages starts from the
\* last stage that already exists in the store (no other process, no eviction).
NoRebuild ==
    [][alone => \A p \in Proc :
          (At(p, "stage") /\ proc'[p].stage = proc[p].stage + 1) =>
             \A o \in cache :
                o[1] # StageId(p, Last(proc[p].todo), proc'[p].stage)]_vars

\* Every call of osbuild ends; in particular the loop of depsolve does.
AllEnd == <>(\A p \in Proc : proc[p].pc \in Ends)
=============================================================================
