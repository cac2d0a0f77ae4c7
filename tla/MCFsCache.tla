----------------------------- MODULE MCFsCache ------------------------------
(***************************************************************************)
(* Small instances of FsCache.  Entries are created in every order, so the *)
(* entries and the names are each symmetric, and so are the processes of   *)
(* one version.                                                            *)
(***************************************************************************)
EXTENDS FsCache, TLC

Sizes1 == {1}
Sizes12 == {1, 2}

Symm == Permutations(Compatible) \cup Permutations(Entry) \cup Permutations(Name)

\* Callers that store distinct names, in runs without symmetry: entries are alike,
\* so take the next one in some fixed order.
OrderedNext == DistinctNext /\ \A p \in Proc :
    (At(p, "idle") /\ proc'[p].own # NoEntry) =>
        proc'[p].own = CHOOSE e \in Entry : ent[e].loc = "unborn"
CallsSpec == Init /\ [][OrderedNext]_vars /\ Fairness
=============================================================================
