----------------------- MODULE SourceDownloadProofs ------------------------
(***************************************************************************)
(* Proofs about SourceDownload, for any services, stores, number of items  *)
(* and of tries.                                                           *)
(***************************************************************************)
EXTENDS SourceDownload, WellFoundedInduction, TLAPS

\* A good item of a store: verified, unless a copy has written over it.
Fine(p, i) ==
    \/ cache[Target(p)][i] = "whole"
    \/ \E q \in (Copies(Target(p)) \cup Copies(call[p].store)) \ {p} : i \in opened[q]

Passing == {"setup", "first", "second"}
Loading == {"curl", "threads", "report"}
Copying == {"copy", "write"}

\* What a service does goes with what it was called for, and only a copy writes in place.
Role(p) ==
    /\ pc[p] \in (Passing \ {"setup"}) \cup Loading \cup {"raised"} => call[p].kind = "download"
    /\ pc[p] \in Copying => call[p].kind = "copy"
    /\ call[p].kind = "download" => opened[p] = {}
    /\ pc[p] = "curl" => call[p].parallel
    /\ pc[p] = "threads" => ~call[p].parallel

\* Before the first result.
Blank(p) ==
    /\ pc[p] \in Passing => /\ res[p] = NoResults /\ results[p] = NoResults /\ extra[p] = {}
                            /\ \A i \in Item : tries[p][i] = 0
    /\ pc[p] \in {"setup", "first"} \cup {"copy"} => dl[p] = {}

\* Tries are left as long as curl is run.
Trying(p) ==
    /\ pc[p] = "curl" => tries[p][1] < NR_RETRYS
    /\ pc[p] = "threads" => \A i \in Item : res[p][i] = "none" => tries[p][i] < NR_RETRYS

\* A download: its items are cached, left to download, or there.
Downloading(p) ==
    call[p].kind = "download" /\ pc[p] \notin {"raised", "dead"} =>
        \A i \in Item :
            /\ i \in cached[p] => Exists(p, i)
            /\ i \in dl[p] \/ res[p][i] # "none" \/ results[p][i] # "none" => i \notin cached[p]
            /\ pc[p] \notin {"setup", "first"} /\ i \notin dl[p] =>
                  Fine(p, i) \/ (pc[p] = "second" /\ i \in look[p])

\* Its results, with those of the run of curl or of the threads that are not merged yet.
Resulting(p) ==
    /\ pc[p] = "curl" => /\ extra[p] \subseteq {"exit-code"}
                         /\ \A i \in Item :
                               /\ res[p][i] = "ok" => i \notin dl[p]
                               /\ res[p][i] = "failed" => i \in dl[p]
                               /\ results[p][i] = "ok" => i \notin dl[p]
                               /\ results[p][i] = "failed" => i \in dl[p] \/ res[p][i] = "ok"
    /\ pc[p] = "threads" => /\ extra[p] = {} /\ results[p] = NoResults
                            /\ \A i \in Item :
                                  /\ res[p][i] # "none" => i \in dl[p]
                                  /\ res[p][i] = "ok" => Fine(p, i)
    /\ call[p].kind = "download" /\ pc[p] \in {"report", "done"} =>
          /\ \A i \in Item :
                /\ results[p][i] = "ok" => i \notin dl[p]
                /\ results[p][i] = "failed" => i \in dl[p]
                /\ ~call[p].parallel /\ i \in dl[p] => results[p][i] = "failed"
          /\ pc[p] = "report" => extra[p] \subseteq {"exit-code"}
          /\ pc[p] = "done" => ("rest" \in extra[p] <=> call[p].parallel /\ dl[p] # {})

\* A copy: one item at a time, from a file that is there.
Copied(p) ==
    call[p].kind = "copy" =>
        /\ pc[p] \in {"setup", "copy", "write", "done", "dead"}
        /\ pc[p] \in {"setup", "copy", "write"} => extra[p] = {}
        /\ pc[p] = "write" =>
              \E i \in Item : /\ dl[p] = {i} /\ i \in opened[p] /\ i \notin look[p]
                              /\ Exists(p, i)
        /\ pc[p] = "done" => look[p] = {}
        /\ pc[p] \in {"copy", "write", "done"} =>
              \A i \in Item : \/ i \in look[p] \/ (pc[p] = "write" /\ i \in dl[p])
                              \/ results[p][i] = "failed" \/ Fine(p, i)

\* A copy is from one store into another.
Apart(p) == call[p].kind = "copy" => call[p].store # call[p].into

Local(p) ==
    /\ Apart(p) /\ Role(p) /\ Blank(p) /\ Trying(p)
    /\ Downloading(p) /\ Resulting(p) /\ Copied(p)

DInv == TypeOK /\ CacheVerified /\ \A p \in Proc : Local(p)

\* The types, one by one.
Typed ==
    /\ cache \in [Store -> [Item -> Content]]
    /\ call \in [Proc -> CallType] /\ pc \in [Proc -> Labels]
    /\ look \in [Proc -> SUBSET Item] /\ cached \in [Proc -> SUBSET Item]
    /\ dl \in [Proc -> SUBSET Item] /\ opened \in [Proc -> SUBSET Item]
    /\ res \in [Proc -> Results] /\ results \in [Proc -> Results]
    /\ extra \in [Proc -> SUBSET {"exit-code", "rest"}]
    /\ tries \in [Proc -> [Item -> 0..NR_RETRYS]]

LEMMA Types == TypeOK <=> Typed
  BY DEF TypeOK, Typed

LEMMA TypesNext == TypeOK' <=> Typed'
  BY Types, PTL

LEMMA Numbers == NR_RETRYS \in Nat /\ NR_RETRYS > 0 /\ Items \in Nat /\ Items > 0 /\ 1 \in Item
<1>1. NR_RETRYS \in Nat \ {0} /\ Items \in Nat \ {0}
  BY SourceAssumption
<1> QED
  BY <1>1 DEF Item

\* The next item of a pass is one of those that are left.
LEMMA FirstIs ==
  ASSUME NEW S \in SUBSET Item, S # {}
  PROVE  First(S) \in S
<1>1. S \subseteq Nat /\ Item \subseteq Nat
  BY Numbers DEF Item
<1>2. PICK x \in S : \A y \in S : ~(<<y, x>> \in OpToRel(<, Nat))
  BY <1>1, WFMin, NatLessThanWellFounded
<1>3. ASSUME NEW y \in S PROVE x <= y
  <2>1. x \in Nat /\ y \in Nat
    BY <1>1
  <2>2. y < x => <<y, x>> \in OpToRel(<, Nat)
    BY <2>1 DEF OpToRel
  <2>3. ~(y < x)
    BY <1>2, <2>2
  <2> QED
    BY <2>1, <2>3
<1> QED
  BY <1>3 DEF First

\* Updates of the variables of a service.
LEMMA SetUpdates ==
  ASSUME NEW f \in [Proc -> SUBSET Item], NEW p \in Proc, NEW i \in Item
  PROVE  /\ [f EXCEPT ![p] = @ \cup {i}] \in [Proc -> SUBSET Item]
         /\ [f EXCEPT ![p] = @ \ {i}] \in [Proc -> SUBSET Item]
<1>1. f[p] \cup {i} \in SUBSET Item /\ f[p] \ {i} \in SUBSET Item
  OBVIOUS
<1>2. ASSUME NEW s \in SUBSET Item PROVE [f EXCEPT ![p] = s] \in [Proc -> SUBSET Item]
  OBVIOUS
<1> QED
  BY <1>1, <1>2

LEMMA ResultUpdates ==
  ASSUME NEW f \in [Proc -> Results], NEW p \in Proc, NEW i \in Item,
         NEW v \in Outcomes \cup {"none"}
  PROVE  [f EXCEPT ![p][i] = v] \in [Proc -> Results]
<1>1. [f[p] EXCEPT ![i] = v] \in Results
  BY DEF Results
<1>2. ASSUME NEW r \in Results PROVE [f EXCEPT ![p] = r] \in [Proc -> Results]
  OBVIOUS
<1> QED
  BY <1>1, <1>2

-----------------------------------------------------------------------------
\* The others keep their state.
Alone(p) ==
    \A q \in Proc \ {p} :
        /\ pc'[q] = pc[q] /\ look'[q] = look[q] /\ cached'[q] = cached[q] /\ dl'[q] = dl[q]
        /\ res'[q] = res[q] /\ results'[q] = results[q] /\ extra'[q] = extra[q]
        /\ tries'[q] = tries[q] /\ opened'[q] = opened[q]

\* What a step of p does to the caches: files do not vanish, and are replaced by verified
\* ones, or by a copy.
Grows(p) ==
    /\ call' = call /\ Alone(p)
    /\ \A q \in Proc : opened[q] \subseteq opened'[q]
    /\ \A s \in Store, i \in Item :
          /\ cache[s][i] # "absent" => cache'[s][i] # "absent"
          /\ \/ cache'[s][i] \in {cache[s][i], "whole"}
             \/ p \in Copies(s) /\ i \in opened'[p]

\* The stores that a service works with.
LEMMA Stores ==
  ASSUME Typed, NEW p \in Proc
  PROVE  /\ call[p].store \in Store /\ call[p].into \in Store /\ Target(p) \in Store
         /\ call[p].kind \in {"download", "copy"} /\ call[p].parallel \in BOOLEAN
  BY DEF Typed, CallType, Target

\* What is good stays so, but for what a copy does to its own target.
LEMMA FineKept ==
  ASSUME Typed, NEW p \in Proc, Grows(p), NEW q \in Proc, NEW i \in Item,
         q # p \/ call[q].kind = "download", Fine(q, i)
  PROVE  Fine(q, i)'
<1>1. call' = call /\ Target(q)' = Target(q) /\ Target(q) \in Store
  BY Stores DEF Grows, Target
<1>2. Copies(Target(q))' = Copies(Target(q)) /\ Copies(call[q].store)' = Copies(call[q].store)
  BY <1>1 DEF Copies
<1>3. \A r \in Proc : i \in opened[r] => i \in opened'[r]
  BY DEF Grows
<1>4. CASE cache[Target(q)][i] = "whole"
  <2>1. CASE cache'[Target(q)][i] = "whole"
    BY <1>1, <2>1 DEF Fine
  <2>2. CASE p \in Copies(Target(q)) /\ i \in opened'[p]
    <3>1. q # p
      <4>1. call[q].kind = "download" => q \notin Copies(Target(q))
        BY DEF Copies
      <4> QED
        BY <2>2, <4>1
    <3> QED
      BY <1>2, <2>2, <3>1 DEF Fine
  <2> QED
    BY <1>1, <1>4, <2>1, <2>2 DEF Grows
<1>5. ASSUME NEW r \in (Copies(Target(q)) \cup Copies(call[q].store)) \ {q}, i \in opened[r]
      PROVE  Fine(q, i)'
  <2>1. r \in Proc
    BY DEF Copies
  <2> QED
    BY <1>1, <1>2, <1>3, <1>5, <2>1 DEF Fine
<1> QED
  BY <1>4, <1>5 DEF Fine

LEMMA OthersKept ==
  ASSUME Typed, NEW p \in Proc, Grows(p), NEW q \in Proc \ {p}, Local(q)
  PROVE  Local(q)'
<1>1. /\ call' = call /\ pc'[q] = pc[q] /\ look'[q] = look[q] /\ cached'[q] = cached[q]
      /\ dl'[q] = dl[q] /\ res'[q] = res[q] /\ results'[q] = results[q]
      /\ extra'[q] = extra[q] /\ tries'[q] = tries[q] /\ opened'[q] = opened[q]
  BY DEF Grows, Alone
<1>2. \A i \in Item : Fine(q, i) => Fine(q, i)'
  BY FineKept
<1>3. \A i \in Item : Exists(q, i) => Exists(q, i)'
  BY <1>1, Stores DEF Exists, Own, Grows
<1>4. Apart(q)' /\ Role(q)' /\ Blank(q)' /\ Trying(q)'
  BY <1>1 DEF Local, Apart, Role, Blank, Trying
<1>5. Downloading(q)'
  BY <1>1, <1>2, <1>3 DEF Local, Downloading
<1>6. Resulting(q)'
  BY <1>1, <1>2 DEF Local, Resulting
<1>7. Copied(q)'
  BY <1>1, <1>2, <1>3 DEF Local, Copied
<1> QED
  BY <1>4, <1>5, <1>6, <1>7 DEF Local

\* A step that writes no file in place leaves all files verified.
LEMMA VerifiedKept ==
  ASSUME Typed, CacheVerified, NEW p \in Proc, Grows(p),
         \A s \in Store, i \in Item : cache'[s][i] \in {cache[s][i], "whole"},
         call[p].kind = "copy" => Cut(p) \subseteq Cut(p)'
  PROVE  CacheVerified'
<1> SUFFICES ASSUME NEW s \in Store, NEW i \in Item, cache'[s][i] \notin {"absent", "whole"}
             PROVE  (\E r \in Copies(s) :
                        /\ i \in opened[r]
                        /\ \/ i \in Cut(r)
                           \/ \E q \in Copies(call[r].store) : i \in opened[q])'
  BY DEF CacheVerified
<1>1. cache[s][i] \notin {"absent", "whole"}
  OBVIOUS
<1>2. PICK r \in Copies(s) : /\ i \in opened[r]
                             /\ \/ i \in Cut(r)
                                \/ \E q \in Copies(call[r].store) : i \in opened[q]
  BY <1>1 DEF CacheVerified
<1>3. call' = call /\ \A q \in Proc : opened[q] \subseteq opened'[q]
  BY DEF Grows
<1>4. r \in Proc /\ call[r].kind = "copy" /\ \A t : Copies(t)' = Copies(t) /\ Copies(t) \subseteq Proc
  BY <1>3 DEF Copies
<1>5. i \in Cut(r) => i \in Cut(r)'
  <2>1. CASE r = p
    BY <1>4, <2>1
  <2>2. CASE r # p
    BY <1>4, <2>2 DEF Grows, Alone, Cut, Failed
  <2> QED
    BY <2>1, <2>2
<1> QED
  BY <1>2, <1>3, <1>4, <1>5

\* So an action of p is a matter of p.
LEMMA StepOf ==
  ASSUME DInv, NEW p \in Proc, Typed', Grows(p), Local(p)', CacheVerified'
  PROVE  DInv'
<1>1. \A q \in Proc : Local(q)'
  BY Types, OthersKept DEF DInv
<1> QED
  BY <1>1, TypesNext DEF DInv

-----------------------------------------------------------------------------
LEMMA Setups ==
  ASSUME DInv, NEW p \in Proc, Setup(p)
  PROVE  DInv'
<1>0. Typed /\ CacheVerified /\ Local(p)
  BY Types DEF DInv
<1>1. /\ pc[p] = "setup" /\ pc'[p] = IF call[p].kind = "copy" THEN "copy" ELSE "first"
      /\ look'[p] = Item
      /\ UNCHANGED <<cache, call, cached, dl, res, results, extra, tries, opened>>
  BY <1>0 DEF Setup, Goto, Typed
<1>2. Typed'
  BY <1>0 DEF Typed, Setup, Goto, Labels
<1>3. Grows(p)
  BY <1>0 DEF Grows, Alone, Setup, Goto, Typed
<1>4. Local(p)'
  <2>1. Apart(p)' /\ Role(p)' /\ Blank(p)' /\ Trying(p)'
    BY <1>0, <1>1, Stores DEF Local, Apart, Role, Blank, Trying, Passing, Loading, Copying
  <2>2. Downloading(p)' /\ Resulting(p)'
    BY <1>0, <1>1, FineKept, <1>3 DEF Local, Downloading, Resulting, Blank, Exists, Own, Passing
  <2>3. Copied(p)'
    BY <1>0, <1>1, Stores DEF Local, Copied
  <2> QED
    BY <2>1, <2>2, <2>3 DEF Local
<1>5. CacheVerified'
  <2>1. Cut(p)' = Cut(p)
    BY <1>1 DEF Cut, Failed
  <2> QED
    BY <1>0, <1>1, <1>3, <2>1, VerifiedKept
<1> QED
  BY <1>2, <1>3, <1>4, <1>5, StepOf

LEMMA FirstPasses ==
  ASSUME DInv, NEW p \in Proc, FirstPass(p)
  PROVE  DInv'
<1>0. Typed /\ CacheVerified /\ Local(p)
  BY Types DEF DInv
<1>1. PICK i \in Item :
         /\ pc[p] = "first"
         /\ UNCHANGED <<cache, call, dl, res, results, extra, tries, opened>>
         /\ \/ /\ pc'[p] = "first"
               /\ cached'[p] = IF Exists(p, i) THEN cached[p] \cup {i} ELSE cached[p]
            \/ /\ pc'[p] = "second" /\ look'[p] = Item /\ cached'[p] = cached[p]
  <2>1. CASE look[p] = {}
    BY <1>0, <2>1, Numbers DEF FirstPass, Typed, Goto
  <2>2. CASE look[p] # {}
    <3>1. First(look[p]) \in Item
      BY <1>0, <2>2, FirstIs DEF Typed
    <3> QED
      BY <1>0, <2>2, <3>1 DEF FirstPass, Typed
  <2> QED
    BY <2>1, <2>2
<1>2. Typed'
  <2> DEFINE it == First(look[p])
  <2>1. it \in Item \/ look[p] = {}
    BY <1>0, FirstIs DEF Typed
  <2>2. \/ /\ look' = [look EXCEPT ![p] = @ \ {it}] /\ pc' = pc /\ look[p] # {}
           /\ cached' = [cached EXCEPT ![p] = IF Exists(p, it) THEN @ \cup {it} ELSE @]
        \/ /\ look' = [look EXCEPT ![p] = Item] /\ cached' = cached
           /\ pc' = [pc EXCEPT ![p] = "second"]
    BY DEF FirstPass, Goto
  <2> HIDE DEF it
  <2>3. look' \in [Proc -> SUBSET Item] /\ cached' \in [Proc -> SUBSET Item]
    <3>1. look \in [Proc -> SUBSET Item] /\ cached \in [Proc -> SUBSET Item]
      BY <1>0 DEF Typed
    <3>2. look[p] # {} => /\ [look EXCEPT ![p] = @ \ {it}] \in [Proc -> SUBSET Item]
                          /\ [cached EXCEPT ![p] = @ \cup {it}] \in [Proc -> SUBSET Item]
      BY <2>1, <3>1, SetUpdates
    <3>3. CASE cached' = cached
      <4>1. [look EXCEPT ![p] = Item] \in [Proc -> SUBSET Item]
        BY <3>1
      <4> QED
        BY <2>2, <3>1, <3>2, <3>3, <4>1
    <3>4. CASE cached' # cached
      <4>1. look' = [look EXCEPT ![p] = @ \ {it}] /\ look[p] # {}
        BY <2>2, <3>4
      <4>2. cached' = [cached EXCEPT ![p] = @ \cup {it}] \/ cached' = [cached EXCEPT ![p] = @]
        BY <2>2, <3>4
      <4> QED
        BY <3>1, <3>2, <3>4, <4>1, <4>2
    <3> QED
      BY <3>3, <3>4
  <2>4. pc' \in [Proc -> Labels]
    BY <1>0, <2>2 DEF Typed, Labels
  <2> QED
    BY <1>0, <1>1, <2>3, <2>4 DEF Typed
<1>3. Grows(p)
  BY <1>0 DEF Grows, Alone, FirstPass, Goto, Typed
<1>k. call[p].kind = "download"
  BY <1>0, <1>1 DEF Local, Role, Passing
<1>4. Local(p)'
  <2>1. Apart(p)' /\ Role(p)' /\ Blank(p)' /\ Trying(p)'
    BY <1>0, <1>1 DEF Local, Apart, Role, Blank, Trying, Passing, Loading, Copying
  <2>2. Downloading(p)'
    BY <1>0, <1>1, FineKept, <1>3 DEF Local, Downloading, Blank, Exists, Own, Passing, NoResults
  <2>3. Resulting(p)'
    BY <1>0, <1>1 DEF Local, Resulting
  <2>4. Copied(p)'
    BY <1>1, <1>k DEF Copied
  <2> QED
    BY <2>1, <2>2, <2>3, <2>4 DEF Local
<1>5. CacheVerified'
  BY <1>0, <1>1, <1>3, <1>k, VerifiedKept
<1> QED
  BY <1>2, <1>3, <1>4, <1>5, StepOf

LEMMA SecondPasses ==
  ASSUME DInv, NEW p \in Proc, SecondPass(p)
  PROVE  DInv'
<1>0. Typed /\ CacheVerified /\ Local(p)
  BY Types DEF DInv
<1>1. /\ pc[p] = "second"
      /\ UNCHANGED <<cache, call, cached, res, results, extra, tries, opened>>
  BY DEF SecondPass
<1>k. call[p].kind = "download"
  BY <1>0, <1>1 DEF Local, Role, Passing
<1>2. Typed'
  <2>1. First(look[p]) \in Item \/ look[p] = {}
    BY <1>0, FirstIs DEF Typed
  <2>2. pc' \in [Proc -> Labels]
    <3> DEFINE l == CASE dl[p] = {} -> "report"
                      [] call[p].parallel -> "curl"
                      [] OTHER -> "threads"
    <3>1. l \in Labels
      BY DEF Labels
    <3>2. pc' = pc \/ Goto(p, "raised") \/ Goto(p, l)
      BY DEF SecondPass
    <3> HIDE DEF l
    <3> QED
      BY <1>0, <3>1, <3>2 DEF Typed, Goto, Labels
  <2>3. look' \in [Proc -> SUBSET Item] /\ dl' \in [Proc -> SUBSET Item]
    <3> DEFINE i == First(look[p])
    <3>1. \/ /\ look' = [look EXCEPT ![p] = @ \ {i}] /\ look[p] # {}
             /\ dl' = [dl EXCEPT ![p] = IF Exists(p, i) THEN @ ELSE @ \cup {i}]
          \/ UNCHANGED <<look, dl>>
      BY DEF SecondPass
    <3>2. i \in Item \/ look[p] = {}
      BY <2>1
    <3> HIDE DEF i
    <3> QED
      <4>1. look \in [Proc -> SUBSET Item] /\ dl \in [Proc -> SUBSET Item]
        BY <1>0 DEF Typed
      <4>2. look[p] # {} => /\ [look EXCEPT ![p] = @ \ {i}] \in [Proc -> SUBSET Item]
                            /\ [dl EXCEPT ![p] = @ \cup {i}] \in [Proc -> SUBSET Item]
        BY <3>2, <4>1, SetUpdates
      <4>3. dl' = [dl EXCEPT ![p] = @ \cup {i}] \/ dl' = [dl EXCEPT ![p] = @] \/ dl' = dl
        BY <3>1
      <4> QED
        BY <3>1, <4>1, <4>2, <4>3
  <2> QED
    BY <1>0, <1>1, <2>2, <2>3 DEF Typed
<1>3. Grows(p)
  BY <1>0 DEF Grows, Alone, SecondPass, Goto, Typed
<1>f. \A i \in Item : Fine(p, i) => Fine(p, i)'
  BY <1>0, <1>3, <1>k, FineKept
\* What exists when the second pass looks is good: only copies leave anything else.
<1>e. ASSUME NEW i \in Item, Exists(p, i) PROVE Fine(p, i)
  <2>1. Target(p) = call[p].store /\ call[p].store \in Store /\ \A s : p \notin Copies(s)
    BY <1>0, <1>k, Stores DEF Target, Copies
  <2>2. CASE cache[call[p].store][i] = "whole"
    BY <2>1, <2>2 DEF Fine
  <2>3. CASE cache[call[p].store][i] # "whole"
    <3>1. \E q \in Copies(call[p].store) : i \in opened[q]
      BY <1>0, <1>e, <2>1, <2>3 DEF CacheVerified, Exists, Own
    <3> QED
      BY <2>1, <3>1 DEF Fine
  <2> QED
    BY <2>2, <2>3
<1>4. Local(p)'
  <2>1. CASE look[p] # {} /\ pc'[p] = "second"
    <3>1. PICK i \in look[p] :
             /\ look'[p] = look[p] \ {i}
             /\ dl'[p] = IF Exists(p, i) THEN dl[p] ELSE dl[p] \cup {i}
      <4>1. First(look[p]) \in look[p]
        BY <1>0, <2>1, FirstIs DEF Typed
      <4> QED
        BY <1>0, <2>1, <4>1 DEF SecondPass, Goto, Typed
    <3>2. i \in Item
      BY <1>0 DEF Typed
    <3>3. Apart(p)' /\ Role(p)' /\ Blank(p)' /\ Trying(p)'
      BY <1>0, <1>1, <2>1 DEF Local, Apart, Role, Blank, Trying, Passing, Loading, Copying
    <3>4. Downloading(p)'
      <4>1. ASSUME NEW j \in Item, j \in cached[p] PROVE Exists(p, j)'
        BY <1>0, <1>1, <1>k, <4>1 DEF Local, Downloading, Exists, Own
      <4>2. ASSUME NEW j \in Item, j \in dl'[p] PROVE j \notin cached[p]
        BY <1>0, <1>1, <1>k, <3>1, <4>2 DEF Local, Downloading
      <4>3. \A j \in Item : res[p][j] = "none" /\ results[p][j] = "none"
        BY <1>0, <1>1 DEF Local, Blank, Passing, NoResults
      <4>4. ASSUME NEW j \in Item, j \notin dl'[p], j \notin look'[p] PROVE Fine(p, j)'
        <5>1. CASE j = i
          BY <1>e, <1>f, <3>1, <4>4, <5>1
        <5>2. CASE j # i
          BY <1>0, <1>1, <1>k, <1>f, <3>1, <4>4, <5>2 DEF Local, Downloading
        <5> QED
          BY <5>1, <5>2
      <4> QED
        BY <1>1, <2>1, <4>1, <4>2, <4>3, <4>4 DEF Downloading
    <3>5. Resulting(p)'
      BY <2>1 DEF Resulting
    <3>6. Copied(p)'
      BY <1>1, <1>k DEF Copied
    <3> QED
      BY <3>3, <3>4, <3>5, <3>6 DEF Local
  <2>2. CASE pc'[p] = "raised"
    <3>1. Apart(p)' /\ Role(p)' /\ Blank(p)' /\ Trying(p)'
      BY <1>0, <1>1, <1>k, <2>2 DEF Local, Apart, Role, Blank, Trying, Passing, Loading, Copying
    <3>2. Downloading(p)' /\ Resulting(p)'
      BY <2>2 DEF Downloading, Resulting
    <3>3. Copied(p)'
      BY <1>1, <1>k DEF Copied
    <3> QED
      BY <3>1, <3>2, <3>3 DEF Local
  <2>3. CASE /\ look[p] = {} /\ dl'[p] = dl[p] /\ look'[p] = look[p]
             /\ \/ dl[p] = {} /\ pc'[p] = "report"
                \/ call[p].parallel /\ pc'[p] = "curl"
                \/ ~call[p].parallel /\ pc'[p] = "threads"
    <3>1. /\ res[p] = NoResults /\ results[p] = NoResults /\ extra[p] = {}
          /\ \A i \in Item : tries[p][i] = 0
      BY <1>0, <1>1 DEF Local, Blank, Passing
    <3>2. \A i \in Item : res[p][i] = "none" /\ results[p][i] = "none"
      BY <3>1 DEF NoResults
    <3>3. Apart(p)' /\ Role(p)' /\ Blank(p)' /\ Trying(p)'
      BY <1>0, <1>1, <1>k, <2>3, <3>1, Numbers
         DEF Local, Apart, Role, Blank, Trying, Passing, Loading, Copying
    <3>4. Downloading(p)'
      BY <1>0, <1>1, <1>k, <1>f, <2>3, <3>2 DEF Local, Downloading, Exists, Own
    <3>5. Resulting(p)'
      BY <1>0, <1>1, <1>k, <2>3, <3>1, <3>2 DEF Resulting
    <3>6. Copied(p)'
      BY <1>1, <1>k DEF Copied
    <3> QED
      BY <3>3, <3>4, <3>5, <3>6 DEF Local
  <2>4. \/ look[p] # {} /\ pc'[p] = "second"
        \/ pc'[p] = "raised"
        \/ /\ look[p] = {} /\ dl'[p] = dl[p] /\ look'[p] = look[p]
           /\ \/ dl[p] = {} /\ pc'[p] = "report"
              \/ call[p].parallel /\ pc'[p] = "curl"
              \/ ~call[p].parallel /\ pc'[p] = "threads"
    BY <1>0, <1>1 DEF SecondPass, Goto, Typed
  <2> QED
    BY <2>1, <2>2, <2>3, <2>4
<1>5. CacheVerified'
  BY <1>0, <1>1, <1>3, <1>k, VerifiedKept
<1> QED
  BY <1>2, <1>3, <1>4, <1>5, StepOf

-----------------------------------------------------------------------------
\* What a download moves into its cache is verified.
LEMMA Moves ==
  ASSUME Typed, NEW p \in Proc, NEW i \in Item, NEW got, Move(p, i, got)
  PROVE  /\ cache' \in [Store -> [Item -> Content]]
         /\ \A s \in Store, j \in Item : cache'[s][j] \in {cache[s][j], "whole"}
         /\ got = "whole" => cache'[call[p].store][i] = "whole"
  BY Stores DEF Move, Typed, Content

LEMMA Lines ==
  ASSUME DInv, NEW p \in Proc, Line(p)
  PROVE  DInv'
<1>0. Typed /\ CacheVerified /\ Local(p)
  BY Types DEF DInv
<1>1. /\ pc[p] = "curl"
      /\ UNCHANGED <<call, pc, cached, results, extra, tries, opened>>
  BY DEF Line
<1>k. call[p].kind = "download"
  BY <1>0, <1>1 DEF Local, Role, Loading
<1>2. PICK i \in dl[p] \ look[p] :
         /\ look' = [look EXCEPT ![p] = @ \cup {i}]
         /\ \/ \E got \in {"whole", "other", "nothing"} :
                  /\ Move(p, i, got)
                  /\ Report(p, i, got = "whole")
                  /\ dl' = IF got = "whole" THEN [dl EXCEPT ![p] = @ \ {i}] ELSE dl
            \/ UNCHANGED <<cache, res, dl>>
  BY DEF Line
<1>i. i \in Item /\ i \in dl[p]
  BY <1>0 DEF Typed
<1>3. /\ cache' \in [Store -> [Item -> Content]]
      /\ \A s \in Store, j \in Item : cache'[s][j] \in {cache[s][j], "whole"}
  BY <1>0, <1>2, <1>i, Moves DEF Typed
<1>4. Typed'
  <2>1. look' \in [Proc -> SUBSET Item] /\ dl' \in [Proc -> SUBSET Item]
    <3>1. look \in [Proc -> SUBSET Item] /\ dl \in [Proc -> SUBSET Item]
      BY <1>0 DEF Typed
    <3>2. /\ [look EXCEPT ![p] = @ \cup {i}] \in [Proc -> SUBSET Item]
          /\ [dl EXCEPT ![p] = @ \ {i}] \in [Proc -> SUBSET Item]
      BY <1>i, <3>1, SetUpdates
    <3>3. dl' = [dl EXCEPT ![p] = @ \ {i}] \/ dl' = dl
      BY <1>2
    <3> QED
      BY <1>2, <3>1, <3>2, <3>3
  <2>2. res' \in [Proc -> Results]
    <3>1. res \in [Proc -> Results] /\ "ok" \in Outcomes /\ "failed" \in Outcomes
      BY <1>0 DEF Typed, Outcomes
    <3>2. /\ [res EXCEPT ![p][i] = "ok"] \in [Proc -> Results]
          /\ [res EXCEPT ![p][i] = "failed"] \in [Proc -> Results]
      BY <1>i, <3>1, ResultUpdates
    <3>3. \/ res' = [res EXCEPT ![p][i] = "ok"] \/ res' = [res EXCEPT ![p][i] = "failed"]
          \/ res' = res
      BY <1>2 DEF Report, Outcome
    <3> QED
      BY <3>1, <3>2, <3>3
  <2> QED
    BY <1>0, <1>1, <1>3, <2>1, <2>2 DEF Typed
<1>5. Grows(p)
  BY <1>0, <1>1, <1>2, <1>3 DEF Grows, Alone, Report, Typed
<1>f. \A j \in Item : Fine(p, j) => Fine(p, j)'
  BY <1>0, <1>5, <1>k, FineKept
<1>6. \/ dl'[p] = dl[p] \ {i} /\ Fine(p, i)' /\ res'[p] = [res[p] EXCEPT ![i] = "ok"]
      \/ dl'[p] = dl[p] /\ res'[p] = [res[p] EXCEPT ![i] = "failed"]
      \/ dl'[p] = dl[p] /\ res'[p] = res[p]
  <2>1. CASE UNCHANGED <<cache, res, dl>>
    BY <2>1
  <2>2. ASSUME NEW got, Move(p, i, got), Report(p, i, got = "whole"),
               dl' = IF got = "whole" THEN [dl EXCEPT ![p] = @ \ {i}] ELSE dl
        PROVE  <1>6!1 \/ <1>6!2 \/ <1>6!3
    <3>1. CASE got = "whole"
      <4>1. Fine(p, i)'
        BY <1>0, <1>1, <1>i, <1>k, <2>2, <3>1, Moves DEF Fine, Target
      <4>2. dl'[p] = dl[p] \ {i} /\ res'[p] = [res[p] EXCEPT ![i] = "ok"]
        BY <1>0, <2>2, <3>1 DEF Report, Outcome, Typed
      <4> QED
        BY <4>1, <4>2
    <3>2. CASE got # "whole"
      BY <1>0, <2>2, <3>2 DEF Report, Outcome, Typed
    <3> QED
      BY <3>1, <3>2
  <2> QED
    BY <1>2, <2>1, <2>2
<1>r. res[p] \in Results /\ results[p] \in Results
  BY <1>0 DEF Typed
<1>7. Local(p)'
  <2>1. Apart(p)' /\ Role(p)' /\ Blank(p)' /\ Trying(p)'
    BY <1>0, <1>1 DEF Local, Apart, Role, Blank, Trying, Passing, Loading, Copying
  <2>2. Downloading(p)'
    <3>1. \A j \in Item : j \in cached[p] => Exists(p, j)'
      BY <1>0, <1>1, <1>k, <1>5, Stores DEF Local, Downloading, Exists, Own, Grows
    <3>2. \A j \in Item : j \in dl'[p] \/ res'[p][j] # "none" \/ results[p][j] # "none"
                             => j \notin cached[p]
      BY <1>0, <1>1, <1>k, <1>6, <1>i, <1>r DEF Local, Downloading, Results
    <3>3. \A j \in Item : j \notin dl'[p] => Fine(p, j)'
      BY <1>0, <1>1, <1>k, <1>6, <1>f DEF Local, Downloading
    <3> QED
      BY <1>1, <3>1, <3>2, <3>3 DEF Downloading
  <2>3. Resulting(p)'
    BY <1>0, <1>1, <1>6, <1>i, <1>r DEF Local, Resulting, Results
  <2>4. Copied(p)'
    BY <1>1, <1>k DEF Copied
  <2> QED
    BY <2>1, <2>2, <2>3, <2>4 DEF Local
<1>8. CacheVerified'
  BY <1>0, <1>3, <1>5, <1>k, VerifiedKept
<1> QED
  BY <1>4, <1>5, <1>7, <1>8, StepOf

LEMMA CurlRunEnds ==
  ASSUME DInv, NEW p \in Proc, CurlEnds(p)
  PROVE  DInv'
<1>0. Typed /\ CacheVerified /\ Local(p)
  BY Types DEF DInv
<1>1. /\ pc[p] = "curl" /\ res' = [res EXCEPT ![p] = NoResults]
      /\ look' = [look EXCEPT ![p] = {}] /\ UNCHANGED <<cache, call, cached, dl, opened>>
  BY DEF CurlEnds
<1>k. call[p].kind = "download"
  BY <1>0, <1>1 DEF Local, Role, Loading
<1> DEFINE n == tries[p][1] + 1
           merged == [i \in Item |-> IF res[p][i] = "none" THEN results[p][i] ELSE res[p][i]]
<1>2. /\ extra' = [extra EXCEPT ![p] = {"exit-code"}] \/ extra' = extra
      /\ tries' = [tries EXCEPT ![p][1] = n]
      /\ results' = [results EXCEPT ![p] = merged]
      /\ \/ pc' = [pc EXCEPT ![p] = "curl"] /\ n < NR_RETRYS
         \/ pc' = [pc EXCEPT ![p] = "report"]
  BY <1>0 DEF CurlEnds, Retry, Goto, Typed
<1>n. n \in 1..NR_RETRYS /\ tries[p] \in [Item -> 0..NR_RETRYS]
  <2>1. tries[p] \in [Item -> 0..NR_RETRYS] /\ tries[p][1] < NR_RETRYS
    BY <1>0, <1>1 DEF Typed, Local, Trying
  <2> QED
    BY <2>1, Numbers
<1>m. merged \in Results /\ NoResults \in Results
  BY <1>0 DEF Typed, Results, NoResults
<1>r. res[p] \in Results /\ results[p] \in Results
  BY <1>0 DEF Typed
<1>j. \A i \in Item : merged[i] = IF res[p][i] = "none" THEN results[p][i] ELSE res[p][i]
  OBVIOUS
<1> HIDE DEF n, merged
<1>3. Typed'
  <2>1. look' \in [Proc -> SUBSET Item]
    BY <1>0, <1>1 DEF Typed
  <2>2. res' \in [Proc -> Results] /\ results' \in [Proc -> Results]
    BY <1>0, <1>1, <1>2, <1>m DEF Typed
  <2>3. pc' \in [Proc -> Labels]
    BY <1>0, <1>2 DEF Typed, Labels
  <2>4. extra' \in [Proc -> SUBSET {"exit-code", "rest"}]
    <3>1. {"exit-code"} \in SUBSET {"exit-code", "rest"}
      OBVIOUS
    <3> DEFINE E == SUBSET {"exit-code", "rest"}
    <3>2. extra \in [Proc -> E] /\ {"exit-code"} \in E
      BY <1>0, <3>1 DEF Typed
    <3> HIDE DEF E
    <3>3. extra' \in [Proc -> E]
      BY <1>2, <3>2
    <3> QED
      BY <3>3 DEF E
  <2>5. tries' \in [Proc -> [Item -> 0..NR_RETRYS]]
    <3>1. [tries[p] EXCEPT ![1] = n] \in [Item -> 0..NR_RETRYS]
      BY <1>n, Numbers
    <3> QED
      BY <1>0, <1>2, <3>1 DEF Typed
  <2> QED
    BY <1>0, <1>1, <2>1, <2>2, <2>3, <2>4, <2>5 DEF Typed
<1>4. Grows(p)
  BY <1>0, <1>1, <1>2 DEF Grows, Alone, Typed
<1>f. \A j \in Item : Fine(p, j) => Fine(p, j)'
  BY <1>0, <1>4, <1>k, FineKept
<1>5. /\ pc'[p] \in {"report", "curl"}
      /\ pc'[p] = "curl" => n < NR_RETRYS
      /\ extra'[p] = extra[p] \/ extra'[p] = {"exit-code"}
      /\ results'[p] = merged /\ tries'[p][1] = n
      /\ \A i \in Item : res'[p][i] = "none"
  <2>1. /\ pc'[p] \in {"report", "curl"}
        /\ pc'[p] = "curl" => n < NR_RETRYS
    <3>1. pc \in [Proc -> Labels]
      BY <1>0 DEF Typed
    <3>2. CASE pc' = [pc EXCEPT ![p] = "report"]
      <4>1. pc'[p] = "report"
        BY <3>1, <3>2
      <4> QED
        BY <4>1
    <3>3. CASE pc' = [pc EXCEPT ![p] = "curl"] /\ n < NR_RETRYS
      BY <3>1, <3>3
    <3> QED
      BY <1>2, <3>2, <3>3
  <2>2. extra'[p] = extra[p] \/ extra'[p] = {"exit-code"}
    BY <1>0, <1>2 DEF Typed
  <2>3. results'[p] = merged
    BY <1>0, <1>2 DEF Typed
  <2>4. tries'[p][1] = n
    BY <1>0, <1>2, <1>n, Numbers DEF Typed
  <2>5. res'[p] = NoResults
    BY <1>0, <1>1 DEF Typed
  <2> QED
    BY <2>1, <2>2, <2>3, <2>4, <2>5 DEF NoResults
<1>6. Local(p)'
  <2>1. Apart(p)' /\ Role(p)' /\ Blank(p)'
    BY <1>0, <1>1, <1>5 DEF Local, Apart, Role, Blank, Passing, Loading, Copying
  <2>2. Trying(p)'
    BY <1>5 DEF Trying
  <2>3. Downloading(p)'
    <3>1. \A j \in Item : j \in cached[p] => Exists(p, j)'
      BY <1>0, <1>1, <1>k DEF Local, Downloading, Exists, Own
    <3>2. \A j \in Item : j \in dl[p] \/ merged[j] # "none" => j \notin cached[p]
      BY <1>0, <1>1, <1>k, <1>j DEF Local, Downloading
    <3>3. \A j \in Item : j \notin dl[p] => Fine(p, j)'
      BY <1>0, <1>1, <1>k, <1>f DEF Local, Downloading
    <3> QED
      BY <1>1, <1>5, <3>1, <3>2, <3>3 DEF Downloading
  <2>4. Resulting(p)'
    <3>1. /\ call[p].parallel /\ extra[p] \subseteq {"exit-code"}
          /\ \A i \in Item :
                /\ res[p][i] = "ok" => i \notin dl[p]
                /\ res[p][i] = "failed" => i \in dl[p]
                /\ results[p][i] = "ok" => i \notin dl[p]
                /\ results[p][i] = "failed" => i \in dl[p] \/ res[p][i] = "ok"
      BY <1>0, <1>1 DEF Local, Resulting, Role
    <3>2. \A i \in Item : /\ merged[i] = "ok" => i \notin dl[p]
                          /\ merged[i] = "failed" => i \in dl[p]
      BY <1>j, <1>r, <3>1 DEF Results
    <3> QED
      BY <1>1, <1>5, <3>1, <3>2 DEF Resulting
  <2>5. Copied(p)'
    BY <1>1, <1>k DEF Copied
  <2> QED
    BY <2>1, <2>2, <2>3, <2>4, <2>5 DEF Local
<1>7. CacheVerified'
  BY <1>0, <1>1, <1>4, <1>k, VerifiedKept
<1> QED
  BY <1>3, <1>4, <1>6, <1>7, StepOf

LEMMA Threads ==
  ASSUME DInv, NEW p \in Proc, Thread(p)
  PROVE  DInv'
<1>0. Typed /\ CacheVerified /\ Local(p)
  BY Types DEF DInv
<1>1. pc[p] = "threads" /\ UNCHANGED <<call, pc, look, cached, dl, results, extra, opened>>
  BY DEF Thread
<1>k. call[p].kind = "download"
  BY <1>0, <1>1 DEF Local, Role, Loading
<1>2. PICK i \in {x \in dl[p] : res[p][x] = "none"}, got \in {"whole", "other", "nothing"} :
         /\ Move(p, i, got)
         /\ tries' = [tries EXCEPT ![p][i] = @ + 1]
         /\ \/ got = "nothing" /\ tries[p][i] + 1 < NR_RETRYS /\ UNCHANGED res
            \/ Report(p, i, got = "whole")
  BY DEF Thread
<1>i. i \in Item /\ i \in dl[p] /\ res[p][i] = "none"
  BY <1>0 DEF Typed
<1>3. /\ cache' \in [Store -> [Item -> Content]]
      /\ \A s \in Store, j \in Item : cache'[s][j] \in {cache[s][j], "whole"}
      /\ got = "whole" => cache'[call[p].store][i] = "whole"
  BY <1>0, <1>2, <1>i, Moves
<1>n. tries[p] \in [Item -> 0..NR_RETRYS] /\ tries[p][i] \in Nat /\ tries[p][i] < NR_RETRYS
  <2>1. tries[p] \in [Item -> 0..NR_RETRYS]
    BY <1>0 DEF Typed
  <2>2. tries[p][i] < NR_RETRYS
    BY <1>0, <1>1, <1>i DEF Local, Trying
  <2> QED
    BY <1>i, <2>1, <2>2
<1>4. Typed'
  <2>1. tries' \in [Proc -> [Item -> 0..NR_RETRYS]]
    <3>1. [tries[p] EXCEPT ![i] = @ + 1] \in [Item -> 0..NR_RETRYS]
      BY <1>n, <1>i, Numbers
    <3> QED
      BY <1>0, <1>2, <3>1 DEF Typed
  <2>2. res' \in [Proc -> Results]
    <3>1. res \in [Proc -> Results] /\ "ok" \in Outcomes /\ "failed" \in Outcomes
      BY <1>0 DEF Typed, Outcomes
    <3>2. /\ [res EXCEPT ![p][i] = "ok"] \in [Proc -> Results]
          /\ [res EXCEPT ![p][i] = "failed"] \in [Proc -> Results]
      BY <1>i, <3>1, ResultUpdates
    <3>3. \/ res' = [res EXCEPT ![p][i] = "ok"] \/ res' = [res EXCEPT ![p][i] = "failed"]
          \/ res' = res
      BY <1>2 DEF Report, Outcome
    <3> QED
      BY <3>1, <3>2, <3>3
  <2> QED
    BY <1>0, <1>1, <1>3, <2>1, <2>2 DEF Typed
<1>5. Grows(p)
  BY <1>0, <1>1, <1>2, <1>3 DEF Grows, Alone, Report, Typed
<1>f. \A j \in Item : Fine(p, j) => Fine(p, j)'
  BY <1>0, <1>5, <1>k, FineKept
<1>6. \/ res'[p] = [res[p] EXCEPT ![i] = "ok"] /\ Fine(p, i)'
      \/ res'[p] = [res[p] EXCEPT ![i] = "failed"]
      \/ res'[p] = res[p] /\ tries[p][i] + 1 < NR_RETRYS
  <2>1. got = "whole" => Fine(p, i)'
    BY <1>0, <1>1, <1>i, <1>k, <1>3 DEF Fine, Target
  <2>2. CASE UNCHANGED res /\ tries[p][i] + 1 < NR_RETRYS
    BY <2>2
  <2>3. CASE Report(p, i, got = "whole")
    BY <1>0, <2>1, <2>3 DEF Report, Outcome, Typed
  <2> QED
    BY <1>2, <2>2, <2>3
<1>7. /\ tries'[p][i] = tries[p][i] + 1
      /\ \A j \in Item \ {i} : tries'[p][j] = tries[p][j]
  BY <1>0, <1>2, <1>i, <1>n DEF Typed
<1>r. res[p] \in Results
  BY <1>0 DEF Typed
<1>8. Local(p)'
  <2>1. Apart(p)' /\ Role(p)' /\ Blank(p)'
    BY <1>0, <1>1 DEF Local, Apart, Role, Blank, Passing, Loading, Copying
  <2>2. Trying(p)'
    BY <1>0, <1>1, <1>i, <1>6, <1>7, <1>r DEF Local, Trying, Results
  <2>3. Downloading(p)'
    <3>1. \A j \in Item : j \in cached[p] => Exists(p, j)'
      BY <1>0, <1>1, <1>k, <1>5, Stores DEF Local, Downloading, Exists, Own, Grows
    <3>2. \A j \in Item : j \in dl[p] \/ res'[p][j] # "none" \/ results[p][j] # "none"
                             => j \notin cached[p]
      BY <1>0, <1>1, <1>k, <1>6, <1>i, <1>r DEF Local, Downloading, Results
    <3>3. \A j \in Item : j \notin dl[p] => Fine(p, j)'
      BY <1>0, <1>1, <1>k, <1>f DEF Local, Downloading
    <3> QED
      BY <1>1, <3>1, <3>2, <3>3 DEF Downloading
  <2>4. Resulting(p)'
    <3>1. /\ extra[p] = {} /\ results[p] = NoResults
          /\ \A j \in Item : /\ res[p][j] # "none" => j \in dl[p]
                             /\ res[p][j] = "ok" => Fine(p, j)
      BY <1>0, <1>1 DEF Local, Resulting
    <3>2. \A j \in Item : /\ res'[p][j] # "none" => j \in dl[p]
                          /\ res'[p][j] = "ok" => Fine(p, j)'
      BY <1>6, <1>i, <1>r, <1>f, <3>1 DEF Results
    <3> QED
      BY <1>1, <3>1, <3>2 DEF Resulting
  <2>5. Copied(p)'
    BY <1>1, <1>k DEF Copied
  <2> QED
    BY <2>1, <2>2, <2>3, <2>4, <2>5 DEF Local
<1>9. CacheVerified'
  BY <1>0, <1>3, <1>5, <1>k, VerifiedKept
<1> QED
  BY <1>4, <1>5, <1>8, <1>9, StepOf

LEMMA Joins ==
  ASSUME DInv, NEW p \in Proc, Join(p)
  PROVE  DInv'
<1>0. Typed /\ CacheVerified /\ Local(p)
  BY Types DEF DInv
<1>1. /\ pc[p] = "threads" /\ \A i \in dl[p] : res[p][i] # "none"
      /\ results' = [results EXCEPT ![p] = res[p]]
      /\ dl' = [dl EXCEPT ![p] = Failed(res[p])] /\ pc' = [pc EXCEPT ![p] = "report"]
      /\ UNCHANGED <<cache, call, look, cached, res, extra, tries, opened>>
  BY DEF Join, Goto
<1>k. call[p].kind = "download" /\ ~call[p].parallel
  BY <1>0, <1>1 DEF Local, Role, Loading
<1>d. Failed(res[p]) \in SUBSET Item
  BY DEF Failed
<1>2. Typed'
  <2>1. dl' \in [Proc -> SUBSET Item]
    BY <1>0, <1>1, <1>d DEF Typed
  <2>2. results' \in [Proc -> Results] /\ pc' \in [Proc -> Labels]
    BY <1>0, <1>1 DEF Typed, Labels
  <2> QED
    BY <1>0, <1>1, <2>1, <2>2 DEF Typed
<1>3. Grows(p)
  BY <1>0, <1>1 DEF Grows, Alone, Typed
<1>f. \A j \in Item : Fine(p, j) => Fine(p, j)'
  BY <1>0, <1>3, <1>k, FineKept
<1>4. /\ pc'[p] = "report" /\ results'[p] = res[p] /\ res'[p] = res[p] /\ extra'[p] = extra[p]
      /\ \A j \in Item : j \in dl'[p] <=> res[p][j] = "failed"
  BY <1>0, <1>1, <1>d DEF Typed, Failed
<1>r. res[p] \in Results
  BY <1>0 DEF Typed
<1>5. /\ extra[p] = {}
      /\ \A j \in Item : /\ res[p][j] # "none" => j \in dl[p]
                         /\ res[p][j] = "ok" => Fine(p, j)
  BY <1>0, <1>1 DEF Local, Resulting
<1>6. Local(p)'
  <2>1. Apart(p)' /\ Role(p)' /\ Blank(p)' /\ Trying(p)'
    BY <1>0, <1>1, <1>4 DEF Local, Apart, Role, Blank, Trying, Passing, Loading, Copying
  <2>2. Downloading(p)'
    <3>1. \A j \in Item : j \in cached[p] => Exists(p, j)'
      BY <1>0, <1>1, <1>k DEF Local, Downloading, Exists, Own
    <3>2. \A j \in Item : j \in dl'[p] \/ res[p][j] # "none" => j \notin cached[p]
      BY <1>0, <1>1, <1>k, <1>4 DEF Local, Downloading
    <3>3. \A j \in Item : j \notin dl'[p] => Fine(p, j)'
      <4>1. ASSUME NEW j \in Item, j \notin dl'[p] PROVE Fine(p, j)
        <5>1. CASE j \in dl[p]
          BY <1>1, <1>4, <1>5, <1>r, <4>1, <5>1 DEF Results, Outcomes
        <5>2. CASE j \notin dl[p]
          BY <1>0, <1>1, <1>k, <5>2 DEF Local, Downloading
        <5> QED
          BY <5>1, <5>2
      <4> QED
        BY <1>f, <4>1
    <3> QED
      BY <1>1, <1>4, <3>1, <3>2, <3>3 DEF Downloading
  <2>3. Resulting(p)'
    BY <1>1, <1>4, <1>5, <1>k DEF Resulting
  <2>4. Copied(p)'
    BY <1>1, <1>k DEF Copied
  <2> QED
    BY <2>1, <2>2, <2>3, <2>4 DEF Local
<1>7. CacheVerified'
  BY <1>0, <1>1, <1>3, <1>k, VerifiedKept
<1> QED
  BY <1>2, <1>3, <1>6, <1>7, StepOf

LEMMA DownloadEnds ==
  ASSUME DInv, NEW p \in Proc, FetchAllEnds(p)
  PROVE  DInv'
<1>0. Typed /\ CacheVerified /\ Local(p)
  BY Types DEF DInv
<1>1. /\ pc[p] = "report" /\ pc' = [pc EXCEPT ![p] = "done"]
      /\ extra' = [extra EXCEPT ![p] =
             IF call[p].parallel /\ dl[p] # {} THEN @ \cup {"rest"} ELSE @]
      /\ UNCHANGED <<cache, call, look, cached, dl, res, results, tries, opened>>
  BY DEF FetchAllEnds, Goto
<1>k. call[p].kind = "download"
  BY <1>0, <1>1 DEF Local, Role, Loading
<1>2. Typed'
  <2> DEFINE E == SUBSET {"exit-code", "rest"}
             x == IF call[p].parallel /\ dl[p] # {} THEN extra[p] \cup {"rest"} ELSE extra[p]
  <2>1. extra \in [Proc -> E] /\ x \in E
    BY <1>0 DEF Typed
  <2>2. extra' = [extra EXCEPT ![p] = x]
    BY <1>1
  <2> HIDE DEF E, x
  <2>3. extra' \in [Proc -> E]
    BY <2>1, <2>2
  <2>4. pc' \in [Proc -> Labels]
    BY <1>0, <1>1 DEF Typed, Labels
  <2> QED
    BY <1>0, <1>1, <2>3, <2>4 DEF Typed, E
<1>3. Grows(p)
  BY <1>0, <1>1 DEF Grows, Alone, Typed
<1>f. \A j \in Item : Fine(p, j) => Fine(p, j)'
  BY <1>0, <1>3, <1>k, FineKept
<1>4. /\ pc'[p] = "done" /\ extra[p] \subseteq {"exit-code"}
      /\ extra'[p] = IF call[p].parallel /\ dl[p] # {} THEN extra[p] \cup {"rest"} ELSE extra[p]
  BY <1>0, <1>1, <1>k DEF Typed, Local, Resulting
<1>5. Local(p)'
  <2>1. Apart(p)' /\ Role(p)' /\ Blank(p)' /\ Trying(p)'
    BY <1>0, <1>1, <1>4 DEF Local, Apart, Role, Blank, Trying, Passing, Loading, Copying
  <2>2. Downloading(p)'
    BY <1>0, <1>1, <1>4, <1>k, <1>f DEF Local, Downloading, Exists, Own
  <2>3. Resulting(p)'
    <3>1. "rest" \in extra'[p] <=> call[p].parallel /\ dl[p] # {}
      BY <1>4
    <3> QED
      BY <1>0, <1>1, <1>4, <1>k, <3>1 DEF Local, Resulting
  <2>4. Copied(p)'
    BY <1>1, <1>k DEF Copied
  <2> QED
    BY <2>1, <2>2, <2>3, <2>4 DEF Local
<1>6. CacheVerified'
  BY <1>0, <1>1, <1>3, <1>k, VerifiedKept
<1> QED
  BY <1>2, <1>3, <1>5, <1>6, StepOf

-----------------------------------------------------------------------------
LEMMA CopyBegins ==
  ASSUME DInv, NEW p \in Proc, CopyBegin(p)
  PROVE  DInv'
<1>0. Typed /\ CacheVerified /\ Local(p)
  BY Types DEF DInv
<1>1. /\ pc[p] = "copy" /\ look[p] # {}
      /\ UNCHANGED <<call, cached, res, extra, tries>>
  BY DEF CopyBegin
<1>k. call[p].kind = "copy" /\ p \in Copies(call[p].into)
  BY <1>0, <1>1 DEF Local, Role, Copying, Copies
<1>2. PICK i \in look[p] :
         /\ look' = [look EXCEPT ![p] = @ \ {i}]
         /\ IF Exists(p, i)
            THEN /\ cache' = [cache EXCEPT ![call[p].into][i] = "part"]
                 /\ opened' = [opened EXCEPT ![p] = @ \cup {i}]
                 /\ dl' = [dl EXCEPT ![p] = {i}]
                 /\ pc' = [pc EXCEPT ![p] = "write"] /\ UNCHANGED results
            ELSE /\ results' = [results EXCEPT ![p][i] = "failed"]
                 /\ UNCHANGED <<pc, cache, opened, dl>>
  <2>1. First(look[p]) \in look[p]
    BY <1>0, <1>1, FirstIs DEF Typed
  <2> QED
    BY <2>1 DEF CopyBegin, Goto
<1>i. i \in Item /\ i \in look[p]
  BY <1>0 DEF Typed
<1>s. /\ call[p].store \in Store /\ call[p].into \in Store /\ call[p].store # call[p].into
      /\ Target(p) = call[p].into
  BY <1>0, <1>k, Stores DEF Target, Local, Apart
<1>l. look[p] \in SUBSET Item /\ results[p] \in Results
  BY <1>0 DEF Typed
<1>3. CASE Exists(p, i)
  <2>1. /\ cache' = [cache EXCEPT ![call[p].into][i] = "part"]
        /\ opened' = [opened EXCEPT ![p] = @ \cup {i}] /\ dl' = [dl EXCEPT ![p] = {i}]
        /\ pc' = [pc EXCEPT ![p] = "write"] /\ results' = results
    BY <1>2, <1>3
  <2>2. Typed'
    <3>1. look \in [Proc -> SUBSET Item] /\ dl \in [Proc -> SUBSET Item]
          /\ opened \in [Proc -> SUBSET Item] /\ {i} \in SUBSET Item
      BY <1>0, <1>i DEF Typed
    <3>2. /\ [look EXCEPT ![p] = @ \ {i}] \in [Proc -> SUBSET Item]
          /\ [opened EXCEPT ![p] = @ \cup {i}] \in [Proc -> SUBSET Item]
      BY <1>i, <3>1, SetUpdates
    <3>3. [dl EXCEPT ![p] = {i}] \in [Proc -> SUBSET Item]
      BY <3>1
    <3>4. cache' \in [Store -> [Item -> Content]]
      BY <1>0, <1>s, <1>i, <2>1 DEF Typed, Content
    <3>5. pc' \in [Proc -> Labels]
      BY <1>0, <2>1 DEF Typed, Labels
    <3> QED
      BY <1>0, <1>1, <1>2, <2>1, <3>2, <3>3, <3>4, <3>5 DEF Typed
  <2>3. /\ \A s \in Store, j \in Item :
              cache'[s][j] = IF s = call[p].into /\ j = i THEN "part" ELSE cache[s][j]
        /\ pc'[p] = "write" /\ look'[p] = look[p] \ {i} /\ dl'[p] = {i} /\ i \in opened'[p]
        /\ opened'[p] = opened[p] \cup {i}
    BY <1>0, <1>2, <1>s, <1>i, <2>1 DEF Typed
  <2>4. Grows(p)
    <3>1. Alone(p) /\ call' = call /\ \A q \in Proc : opened[q] \subseteq opened'[q]
      BY <1>0, <1>1, <1>2, <2>1 DEF Alone, Typed
    <3> QED
      BY <1>k, <2>3, <3>1 DEF Grows
  <2>5. Local(p)'
    <3>1. Role(p)' /\ Blank(p)' /\ Trying(p)'
      BY <1>0, <1>1, <1>k, <2>3 DEF Local, Role, Blank, Trying, Passing, Loading, Copying
    <3>2. Downloading(p)' /\ Resulting(p)'
      BY <1>1, <1>k, <2>3 DEF Downloading, Resulting
    <3>3. Apart(p)'
      BY <1>0, <1>1 DEF Local, Apart
    <3>4. Copied(p)'
      <4>1. Exists(p, i)'
        BY <1>1, <1>3, <1>i, <1>s, <2>3 DEF Exists, Own
      <4>2. ASSUME NEW j \in Item, j # i, Fine(p, j) PROVE Fine(p, j)'
        <5>1. /\ cache'[Target(p)][j] = cache[Target(p)][j] /\ Target(p)' = Target(p)
              /\ \A q \in Proc : opened[q] \subseteq opened'[q]
          BY <1>1, <1>s, <2>3, <2>4, <4>2 DEF Grows, Target
        <5> QED
          BY <1>1, <4>2, <5>1 DEF Fine, Copies
      <4>3. \A j \in Item : j \in look'[p] \/ j = i \/ results[p][j] = "failed" \/ Fine(p, j)'
        BY <1>0, <1>1, <1>k, <2>3, <4>2 DEF Local, Copied
      <4> QED
        BY <1>0, <1>1, <1>i, <1>k, <2>1, <2>3, <4>1, <4>3 DEF Local, Copied
    <3> QED
      BY <3>1, <3>2, <3>3, <3>4 DEF Local
  <2>6. CacheVerified'
    <3> SUFFICES ASSUME NEW s \in Store, NEW j \in Item, cache'[s][j] \notin {"absent", "whole"}
                 PROVE  (\E r \in Copies(s) :
                            /\ j \in opened[r]
                            /\ \/ j \in Cut(r)
                               \/ \E q \in Copies(call[r].store) : j \in opened[q])'
      BY DEF CacheVerified
    <3>1. /\ call' = call /\ \A q \in Proc : opened[q] \subseteq opened'[q]
          /\ \A t : Copies(t)' = Copies(t) /\ Copies(t) \subseteq Proc
      BY <2>4 DEF Grows, Copies
    <3>2. CASE s = call[p].into /\ j = i
      <4>1. i \in Cut(p)' /\ p \in Copies(s)'
        BY <1>k, <2>3, <3>1, <3>2 DEF Cut
      <4> QED
        BY <2>3, <3>2, <4>1
    <3>3. CASE ~(s = call[p].into /\ j = i)
      <4>1. cache[s][j] \notin {"absent", "whole"}
        BY <2>3, <3>3
      <4>2. PICK r \in Copies(s) :
               /\ j \in opened[r]
               /\ j \in Cut(r) \/ \E q \in Copies(call[r].store) : j \in opened[q]
        BY <1>0, <4>1 DEF CacheVerified
      <4>3. j \in Cut(r) => j \in Cut(r)'
        <5>1. CASE r = p
          BY <1>1, <2>1, <2>3, <5>1 DEF Cut
        <5>2. CASE r # p
          BY <2>4, <3>1, <5>2 DEF Grows, Alone, Cut, Failed
        <5> QED
          BY <5>1, <5>2
      <4> QED
        BY <3>1, <4>2, <4>3
    <3> QED
      BY <3>2, <3>3
  <2> QED
    BY <2>2, <2>4, <2>5, <2>6, StepOf
<1>4. CASE ~Exists(p, i)
  <2>1. results' = [results EXCEPT ![p][i] = "failed"] /\ UNCHANGED <<pc, cache, opened, dl>>
    BY <1>2, <1>4
  <2>2. Typed'
    <3>1. look \in [Proc -> SUBSET Item] /\ results \in [Proc -> Results] /\ "failed" \in Outcomes
      BY <1>0 DEF Typed, Outcomes
    <3>2. [look EXCEPT ![p] = @ \ {i}] \in [Proc -> SUBSET Item]
      BY <1>i, <3>1, SetUpdates
    <3>3. [results EXCEPT ![p][i] = "failed"] \in [Proc -> Results]
      BY <1>i, <3>1, ResultUpdates
    <3> QED
      BY <1>0, <1>1, <1>2, <2>1, <3>2, <3>3 DEF Typed
  <2>3. /\ look'[p] = look[p] \ {i} /\ results'[p][i] = "failed"
        /\ \A j \in Item \ {i} : results'[p][j] = results[p][j]
    BY <1>0, <1>2, <1>i, <2>1 DEF Typed, Results
  <2>4. Grows(p)
    BY <1>0, <1>1, <1>2, <2>1 DEF Grows, Alone, Typed
  <2>5. Local(p)'
    <3>1. Role(p)' /\ Blank(p)' /\ Trying(p)'
      BY <1>0, <1>1, <1>k, <2>1 DEF Local, Role, Blank, Trying, Passing, Loading, Copying
    <3>2. Downloading(p)' /\ Resulting(p)'
      BY <1>1, <1>k, <2>1 DEF Downloading, Resulting
    <3>3. Apart(p)'
      BY <1>0, <1>1 DEF Local, Apart
    <3>4. Copied(p)'
      <4>1. \A j \in Item : Fine(p, j) => Fine(p, j)'
        BY <1>1, <2>1 DEF Fine, Target, Copies
      <4> QED
        BY <1>0, <1>1, <1>k, <2>1, <2>3, <4>1 DEF Local, Copied
    <3> QED
      BY <3>1, <3>2, <3>3, <3>4 DEF Local
  <2>6. CacheVerified'
    <3>1. Cut(p) \subseteq Cut(p)'
      BY <1>1, <2>1, <2>3 DEF Cut, Failed
    <3> QED
      BY <1>0, <2>1, <2>4, <3>1, VerifiedKept
  <2> QED
    BY <2>2, <2>4, <2>5, <2>6, StepOf
<1> QED
  BY <1>3, <1>4

LEMMA CopyEnds ==
  ASSUME DInv, NEW p \in Proc, CopyEnd(p)
  PROVE  DInv'
<1>0. Typed /\ CacheVerified /\ Local(p)
  BY Types DEF DInv
<1>1. /\ pc[p] = "write" /\ dl' = [dl EXCEPT ![p] = {}] /\ pc' = [pc EXCEPT ![p] = "copy"]
      /\ UNCHANGED <<call, look, cached, res, extra, tries, opened>>
  BY DEF CopyEnd, Goto
<1>k. call[p].kind = "copy" /\ p \in Copies(call[p].into)
  BY <1>0, <1>1 DEF Local, Role, Copying, Copies
<1>2. PICK i \in dl[p], ok \in BOOLEAN :
         /\ cache' = IF ok THEN [cache EXCEPT ![call[p].into][i] = Own(p)[i]] ELSE cache
         /\ results' = [results EXCEPT ![p][i] = Outcome(ok)]
  BY DEF CopyEnd
<1>i. i \in Item /\ dl[p] = {i} /\ i \in opened[p] /\ i \notin look[p] /\ Exists(p, i)
  BY <1>0, <1>1, <1>k DEF Local, Copied
<1>s. /\ call[p].store \in Store /\ call[p].into \in Store /\ call[p].store # call[p].into
      /\ Target(p) = call[p].into
  BY <1>0, <1>k, Stores DEF Target, Local, Apart
<1> DEFINE c == cache[call[p].store][i]
<1>c. c \in Content /\ c # "absent" /\ Own(p)[i] = c
  BY <1>0, <1>i, <1>s DEF Typed, Exists, Own
\* What is copied is verified, or from a file that a copy into that store has written.
<1>w. c = "whole" \/ \E q \in Copies(call[p].store) : i \in opened[q]
  BY <1>0, <1>c, <1>i, <1>s DEF CacheVerified
<1>o. \A q \in Copies(call[p].store) : q # p
  BY <1>s DEF Copies
<1> HIDE DEF c
<1>3. \A s \in Store, j \in Item :
         cache'[s][j] = IF ok /\ s = call[p].into /\ j = i THEN c ELSE cache[s][j]
  BY <1>0, <1>2, <1>c, <1>i, <1>s DEF Typed
<1>4. Typed'
  <2>1. cache' \in [Store -> [Item -> Content]]
    BY <1>0, <1>2, <1>c, <1>i, <1>s DEF Typed
  <2>2. results' \in [Proc -> Results]
    <3>1. Outcome(ok) \in Outcomes /\ results \in [Proc -> Results]
      BY <1>0 DEF Outcome, Outcomes, Typed
    <3>2. [results EXCEPT ![p][i] = Outcome(ok)] \in [Proc -> Results]
      BY <1>i, <3>1, ResultUpdates
    <3> QED
      BY <1>2, <3>2
  <2>3. pc' \in [Proc -> Labels]
    BY <1>0, <1>1 DEF Typed, Labels
  <2>4. dl' \in [Proc -> SUBSET Item]
    BY <1>0, <1>1 DEF Typed
  <2> QED
    BY <1>0, <1>1, <2>1, <2>2, <2>3, <2>4 DEF Typed
<1>5. Grows(p)
  <2>1. Alone(p) /\ call' = call /\ \A q \in Proc : opened[q] \subseteq opened'[q]
    BY <1>0, <1>1, <1>2 DEF Alone, Typed
  <2>2. i \in opened'[p]
    BY <1>1, <1>i
  <2> QED
    BY <1>c, <1>k, <1>3, <2>1, <2>2 DEF Grows
<1>6. /\ pc'[p] = "copy" /\ dl'[p] = {} /\ results'[p][i] = Outcome(ok)
      /\ \A j \in Item \ {i} : results'[p][j] = results[p][j]
  BY <1>0, <1>1, <1>2, <1>i DEF Typed, Results
<1>7. Local(p)'
  <2>1. Apart(p)' /\ Role(p)' /\ Blank(p)' /\ Trying(p)'
    BY <1>0, <1>1, <1>k, <1>6 DEF Local, Apart, Role, Blank, Trying, Passing, Loading, Copying
  <2>2. Downloading(p)' /\ Resulting(p)'
    BY <1>1, <1>k, <1>6 DEF Downloading, Resulting
  <2>3. Copied(p)'
    <3>1. results'[p][i] = "failed" \/ Fine(p, i)'
      <4>1. CASE ~ok
        BY <1>6, <4>1 DEF Outcome
      <4>2. CASE ok /\ c = "whole"
        <5>1. cache'[call[p].into][i] = "whole"
          BY <1>3, <1>i, <1>s, <4>2
        <5> QED
          BY <1>1, <1>s, <5>1 DEF Fine, Target
      <4>3. CASE \E q \in Copies(call[p].store) : i \in opened[q]
        BY <1>1, <1>o, <4>3 DEF Fine, Copies
      <4> QED
        BY <1>w, <4>1, <4>2, <4>3
    <3>2. ASSUME NEW j \in Item, j # i, Fine(p, j) PROVE Fine(p, j)'
      <4>1. /\ cache'[Target(p)][j] = cache[Target(p)][j] /\ Target(p)' = Target(p)
            /\ opened' = opened
        BY <1>1, <1>3, <1>s, <3>2 DEF Target
      <4> QED
        BY <1>1, <3>2, <4>1 DEF Fine, Copies
    <3>3. \A j \in Item : j \in look[p] \/ results'[p][j] = "failed" \/ Fine(p, j)'
      BY <1>0, <1>1, <1>i, <1>k, <1>6, <3>1, <3>2 DEF Local, Copied
    <3> QED
      BY <1>0, <1>1, <1>k, <1>6, <3>3 DEF Local, Copied
  <2> QED
    BY <2>1, <2>2, <2>3 DEF Local
<1>8. CacheVerified'
  <2> SUFFICES ASSUME NEW s \in Store, NEW j \in Item, cache'[s][j] \notin {"absent", "whole"}
               PROVE  (\E r \in Copies(s) :
                          /\ j \in opened[r]
                          /\ \/ j \in Cut(r)
                             \/ \E q \in Copies(call[r].store) : j \in opened[q])'
    BY DEF CacheVerified
  <2>1. /\ call' = call /\ opened' = opened
        /\ \A t : Copies(t)' = Copies(t) /\ Copies(t) \subseteq Proc
    BY <1>1 DEF Copies
  <2>2. CASE ok /\ s = call[p].into /\ j = i
    <3>1. c # "whole"
      BY <1>3, <2>2
    <3> QED
      BY <1>i, <1>k, <1>w, <2>1, <2>2, <3>1
  <2>3. CASE ~(ok /\ s = call[p].into /\ j = i)
    <3>1. cache[s][j] \notin {"absent", "whole"}
      BY <1>3, <2>3
    <3>2. PICK r \in Copies(s) :
             /\ j \in opened[r]
             /\ j \in Cut(r) \/ \E q \in Copies(call[r].store) : j \in opened[q]
      BY <1>0, <3>1 DEF CacheVerified
    <3>3. j \in Cut(r) => j \in Cut(r)'
      <4>1. CASE r = p
        <5>1. s = call[p].into
          BY <4>1 DEF Copies
        <5>2. j = i => ~ok
          BY <2>3, <5>1
        <5> QED
          BY <1>1, <1>6, <1>i, <4>1, <5>2 DEF Cut, Failed, Outcome
      <4>2. CASE r # p
        BY <1>5, <2>1, <4>2 DEF Grows, Alone, Cut, Failed
      <4> QED
        BY <4>1, <4>2
    <3> QED
      BY <2>1, <3>2, <3>3
  <2> QED
    BY <2>2, <2>3
<1> QED
  BY <1>4, <1>5, <1>7, <1>8, StepOf

LEMMA CopiesEnd ==
  ASSUME DInv, NEW p \in Proc, CopyAllEnds(p)
  PROVE  DInv'
<1>0. Typed /\ CacheVerified /\ Local(p)
  BY Types DEF DInv
<1>1. /\ pc[p] = "copy" /\ look[p] = {} /\ pc' = [pc EXCEPT ![p] = "done"]
      /\ UNCHANGED <<cache, call, look, cached, dl, res, results, extra, tries, opened>>
  BY DEF CopyAllEnds, Goto
<1>k. call[p].kind = "copy"
  BY <1>0, <1>1 DEF Local, Role, Copying
<1>2. Typed'
  BY <1>0, <1>1 DEF Typed, Labels
<1>3. Grows(p)
  BY <1>0, <1>1 DEF Grows, Alone, Typed
<1>4. pc'[p] = "done"
  BY <1>0, <1>1 DEF Typed
<1>5. Local(p)'
  <2>1. Apart(p)' /\ Role(p)' /\ Blank(p)' /\ Trying(p)'
    BY <1>0, <1>1, <1>k, <1>4 DEF Local, Apart, Role, Blank, Trying, Passing, Loading, Copying
  <2>2. Downloading(p)' /\ Resulting(p)'
    BY <1>1, <1>k, <1>4 DEF Downloading, Resulting
  <2>3. Copied(p)'
    <3>1. \A j \in Item : Fine(p, j)' <=> Fine(p, j)
      BY <1>1 DEF Fine, Target, Copies
    <3> QED
      BY <1>0, <1>1, <1>k, <1>4, <3>1 DEF Local, Copied
  <2> QED
    BY <2>1, <2>2, <2>3 DEF Local
<1>6. CacheVerified'
  <2>1. Cut(p)' = Cut(p)
    BY <1>1, <1>4 DEF Cut, Failed
  <2> QED
    BY <1>0, <1>1, <1>3, <2>1, VerifiedKept
<1> QED
  BY <1>2, <1>3, <1>5, <1>6, StepOf

LEMMA Dies ==
  ASSUME DInv, NEW p \in Proc, Die(p)
  PROVE  DInv'
<1>0. Typed /\ CacheVerified /\ Local(p)
  BY Types DEF DInv
<1>1. /\ ~Ended(p) /\ pc' = [pc EXCEPT ![p] = "dead"]
      /\ look' = [look EXCEPT ![p] = {}] /\ cached' = [cached EXCEPT ![p] = {}]
      /\ dl' = [dl EXCEPT ![p] = IF pc[p] = "write" THEN @ ELSE {}]
      /\ res' = [res EXCEPT ![p] = NoResults]
      /\ results' = [results EXCEPT ![p] = IF call[p].kind = "copy" THEN @ ELSE NoResults]
      /\ extra' = [extra EXCEPT ![p] = {}]
      /\ tries' = [tries EXCEPT ![p] = [i \in Item |-> 0]]
      /\ UNCHANGED <<cache, call, opened>>
  BY DEF Die, Goto
<1>2. Typed'
  <2>1. pc' \in [Proc -> Labels]
    BY <1>0, <1>1 DEF Typed, Labels
  <2>2. look' \in [Proc -> SUBSET Item] /\ cached' \in [Proc -> SUBSET Item]
    BY <1>0, <1>1 DEF Typed
  <2>3. dl' \in [Proc -> SUBSET Item]
    <3> DEFINE d == IF pc[p] = "write" THEN dl[p] ELSE {}
    <3>1. dl' = [dl EXCEPT ![p] = d]
      BY <1>1
    <3>2. dl \in [Proc -> SUBSET Item] /\ d \in SUBSET Item
      BY <1>0 DEF Typed
    <3> HIDE DEF d
    <3> QED
      BY <3>1, <3>2
  <2>4. res' \in [Proc -> Results] /\ results' \in [Proc -> Results]
    <3> DEFINE r == IF call[p].kind = "copy" THEN results[p] ELSE NoResults
    <3>1. results' = [results EXCEPT ![p] = r]
      BY <1>1
    <3>2. NoResults \in Results
      BY DEF NoResults, Results
    <3>3. results \in [Proc -> Results] /\ res \in [Proc -> Results] /\ r \in Results
      BY <1>0, <3>2 DEF Typed
    <3> HIDE DEF r
    <3> QED
      BY <1>1, <3>1, <3>2, <3>3
  <2>5. extra' \in [Proc -> SUBSET {"exit-code", "rest"}]
    <3> DEFINE E == SUBSET {"exit-code", "rest"}
    <3>1. extra \in [Proc -> E] /\ {} \in E
      BY <1>0 DEF Typed
    <3> HIDE DEF E
    <3>2. extra' \in [Proc -> E]
      BY <1>1, <3>1
    <3> QED
      BY <3>2 DEF E
  <2>6. tries' \in [Proc -> [Item -> 0..NR_RETRYS]]
    <3>1. [i \in Item |-> 0] \in [Item -> 0..NR_RETRYS]
      BY Numbers
    <3> QED
      BY <1>0, <1>1, <3>1 DEF Typed
  <2> QED
    BY <1>0, <1>1, <2>1, <2>2, <2>3, <2>4, <2>5, <2>6 DEF Typed
<1>3. Grows(p)
  BY <1>0, <1>1 DEF Grows, Alone, Typed
<1>4. /\ pc'[p] = "dead" /\ dl'[p] = IF pc[p] = "write" THEN dl[p] ELSE {}
      /\ call[p].kind = "copy" => results'[p] = results[p]
  BY <1>0, <1>1 DEF Typed
<1>5. Local(p)'
  <2>1. Apart(p)' /\ Role(p)' /\ Blank(p)' /\ Trying(p)'
    BY <1>0, <1>1, <1>4 DEF Local, Apart, Role, Blank, Trying, Passing, Loading, Copying
  <2>2. Downloading(p)' /\ Resulting(p)' /\ Copied(p)'
    BY <1>4 DEF Downloading, Resulting, Copied
  <2> QED
    BY <2>1, <2>2 DEF Local
<1>6. CacheVerified'
  <2>1. call[p].kind = "copy" => Cut(p) \subseteq Cut(p)'
    BY <1>1, <1>4 DEF Cut, Failed, Ended
  <2> QED
    BY <1>0, <1>1, <1>3, <2>1, VerifiedKept
<1> QED
  BY <1>2, <1>3, <1>5, <1>6, StepOf

-----------------------------------------------------------------------------
LEMMA Begins == Init => DInv
<1> SUFFICES ASSUME Init PROVE DInv
  OBVIOUS
<1>1. call \in [Proc -> CallType] /\ \A p \in Proc : Apart(p)
  <2>1. \A p \in Proc : call[p] \in Calls[p]
    BY DEF Init
  <2>2. \A p \in Proc : /\ call[p] \in CallType
                        /\ call[p].kind = "copy" => call[p].store # call[p].into
    BY <2>1, SourceAssumption
  <2>3. call \in [Proc -> UNION {Calls[p] : p \in Proc}]
    BY DEF Init
  <2>4. call \in [Proc -> CallType]
    BY <2>2, <2>3
  <2> QED
    BY <2>2, <2>4 DEF Apart
<1>2. Typed
  <2>1. cache \in [Store -> [Item -> Content]]
    <3>1. {"absent", "whole"} \subseteq Content
      BY DEF Content
    <3>2. [Item -> {"absent", "whole"}] \subseteq [Item -> Content]
      BY <3>1
    <3> QED
      BY <3>2 DEF Init
  <2>2. pc \in [Proc -> Labels] /\ look \in [Proc -> SUBSET Item]
        /\ cached \in [Proc -> SUBSET Item] /\ dl \in [Proc -> SUBSET Item]
        /\ opened \in [Proc -> SUBSET Item] /\ extra \in [Proc -> SUBSET {"exit-code", "rest"}]
    BY DEF Init, Labels
  <2>3. res \in [Proc -> Results] /\ results \in [Proc -> Results]
    <3>1. NoResults \in Results
      BY DEF NoResults, Results
    <3> QED
      BY <3>1 DEF Init
  <2>4. tries \in [Proc -> [Item -> 0..NR_RETRYS]]
    <3>1. [i \in Item |-> 0] \in [Item -> 0..NR_RETRYS]
      BY Numbers
    <3> QED
      BY <3>1 DEF Init
  <2> QED
    BY <1>1, <2>1, <2>2, <2>3, <2>4 DEF Typed
<1>3. CacheVerified
  <2>1. \A s \in Store, i \in Item : cache[s][i] \in {"absent", "whole"}
    BY DEF Init
  <2> QED
    BY <2>1 DEF CacheVerified
<1>4. ASSUME NEW p \in Proc PROVE Local(p)
  <2>1. /\ pc[p] = "setup" /\ look[p] = {} /\ cached[p] = {} /\ dl[p] = {} /\ opened[p] = {}
        /\ res[p] = NoResults /\ results[p] = NoResults /\ extra[p] = {}
        /\ \A i \in Item : tries[p][i] = 0
    BY DEF Init
  <2>2. Role(p) /\ Blank(p) /\ Trying(p)
    BY <2>1 DEF Role, Blank, Trying, Passing, Loading, Copying
  <2>3. Downloading(p) /\ Resulting(p) /\ Copied(p)
    BY <2>1 DEF Downloading, Resulting, Copied, NoResults
  <2> QED
    BY <1>1, <2>2, <2>3 DEF Local
<1> QED
  BY <1>2, <1>3, <1>4, Types DEF DInv

LEMMA Goes == DInv /\ [Next]_vars => DInv'
<1> SUFFICES ASSUME DInv, [Next]_vars PROVE DInv'
  OBVIOUS
<1>1. ASSUME NEW p \in Proc, Step(p) PROVE DInv'
  BY <1>1, Setups, FirstPasses, SecondPasses, Lines, CurlRunEnds, Threads, Joins,
     DownloadEnds, CopyBegins, CopyEnds, CopiesEnd DEF Step
<1>2. ASSUME NEW p \in Proc, Die(p) PROVE DInv'
  BY <1>2, Dies
<1>3. CASE UNCHANGED vars
  <2>1. /\ cache' = cache /\ call' = call /\ pc' = pc /\ look' = look /\ cached' = cached
        /\ dl' = dl /\ res' = res /\ results' = results /\ extra' = extra /\ tries' = tries
        /\ opened' = opened
    BY <1>3 DEF vars
  <2>2. Typed' /\ CacheVerified'
    <3>1. Typed /\ CacheVerified
      BY Types DEF DInv
    <3>2. Typed'
      BY <2>1, <3>1 DEF Typed
    <3>3. CacheVerified'
      BY <2>1, <3>1 DEF CacheVerified, Copies, Cut, Failed
    <3> QED
      BY <3>2, <3>3
  <2>3. ASSUME NEW p \in Proc PROVE Local(p)'
    <3>1. Local(p)
      BY DEF DInv
    <3>2. \A i \in Item : (Fine(p, i)' <=> Fine(p, i)) /\ (Exists(p, i)' <=> Exists(p, i))
      BY <2>1 DEF Fine, Target, Copies, Exists, Own
    <3>3. Apart(p)' /\ Role(p)' /\ Blank(p)' /\ Trying(p)'
      BY <2>1, <3>1 DEF Local, Apart, Role, Blank, Trying
    <3>4. Downloading(p)'
      BY <2>1, <3>1, <3>2 DEF Local, Downloading
    <3>5. Resulting(p)'
      BY <2>1, <3>1, <3>2 DEF Local, Resulting
    <3>6. Copied(p)'
      BY <2>1, <3>1, <3>2 DEF Local, Copied
    <3> QED
      BY <3>3, <3>4, <3>5, <3>6 DEF Local
  <2> QED
    BY <2>2, <2>3, TypesNext DEF DInv
<1> QED
  BY <1>1, <1>2, <1>3 DEF Next, Over

LEMMA Remains == Spec => []DInv
  BY Begins, Goes, PTL DEF Spec

-----------------------------------------------------------------------------
\* Whatever services run at the same time and wherever they are killed, what is in a
\* cache under the name of an item has been verified, unless a copy wrote it there
\* (validate_and_move_to_targetdir against copy_all).
THEOREM FilesVerified == Spec => []CacheVerified
  BY Remains, PTL DEF DInv

\* A service whose download or copy succeeds has its items in the cache.
LEMMA SuccessRight == DInv => SuccessTold
<1> SUFFICES ASSUME DInv, NEW p \in Proc, Success(p), NEW i \in Item
             PROVE  Fine(p, i)
  BY DEF SuccessTold, Fine
<1>0. Typed /\ Local(p)
  BY Types DEF DInv
<1>1. pc[p] = "done" /\ extra[p] = {} /\ \A j \in Item : results[p][j] # "failed"
  BY DEF Success, Fails, Failed
<1>2. CASE call[p].kind = "download"
  <2>1. i \notin dl[p]
    BY <1>0, <1>1, <1>2 DEF Local, Resulting
  <2> QED
    BY <1>0, <1>1, <1>2, <2>1 DEF Local, Downloading
<1>3. CASE call[p].kind = "copy"
  BY <1>0, <1>1, <1>3 DEF Local, Copied
<1> QED
  BY <1>0, <1>2, <1>3, Stores

\* A download that fails names an item that is missing, or the exit status of curl.
LEMMA FailureRight == DInv => FailureTold
<1> SUFFICES ASSUME DInv, NEW p \in Proc, pc[p] = "done", call[p].kind = "download", Fails(p),
                    dl[p] = {}
             PROVE  "exit-code" \in extra[p]
  BY DEF FailureTold
<1>0. Typed /\ Local(p)
  BY Types DEF DInv
<1>1. (\A i \in Item : results[p][i] # "failed") /\ "rest" \notin extra[p]
  BY <1>0 DEF Local, Resulting
<1>2. extra[p] # {} /\ extra[p] \subseteq {"exit-code", "rest"}
  BY <1>0, <1>1 DEF Fails, Failed, Typed
<1> QED
  BY <1>1, <1>2

\* Each item is reported once.
LEMMA ReportRight == DInv => ReportedRight
<1> SUFFICES ASSUME DInv, NEW p \in Proc, pc[p] = "done", call[p].kind = "download", NEW i \in Item
             PROVE  /\ results[p][i] # "none" => i \notin cached[p]
                    /\ results[p][i] = "ok" => i \notin dl[p]
                    /\ results[p][i] = "failed" => i \in dl[p]
  BY DEF ReportedRight
<1>0. Local(p)
  BY DEF DInv
<1> QED
  BY <1>0 DEF Local, Downloading, Resulting

\* What fetch_all and copy_all return is what happened to the items, with and without
\* curl's own parallel downloads, and whatever others do to the caches meanwhile.
THEOREM OutcomesTold == Spec => []ToldRight
<1>1. DInv => ToldRight
  BY SuccessRight, FailureRight, ReportRight DEF DInv, ToldRight
<1> QED
  BY <1>1, Remains, PTL

=============================================================================
