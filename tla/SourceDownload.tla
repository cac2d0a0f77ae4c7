--------------------------- MODULE SourceDownload ---------------------------
(***************************************************************************)
(* Downloads of source items into the cache of a store, and copies from    *)
(* the cache of one store into that of another: SourceService              *)
(* (osbuild/sources.py) as the curl source (sources/org.osbuild.curl)      *)
(* implements it, in both ways that it uses curl, and the "copy" of        *)
(* Source and Manifest.export_sources.                                     *)
(*                                                                         *)
(* Several osbuilds use the caches at the same time, without any lock.  A  *)
(* file in a cache is absent, whole, a part, or has other content than its *)
(* name says.  What curl does with an item is external.                    *)
(***************************************************************************)
EXTENDS Naturals

CONSTANTS
    Proc,          \* services of sources, one call each
    Store,         \* object stores, with a cache of files each
    Items,         \* number of items that a manifest wants, in their order
    NR_RETRYS,     \* how often curl is tried
    Calls          \* Proc -> set of [kind, store, into, parallel]

CallType == [kind : {"download", "copy"}, store : Store, into : Store, parallel : BOOLEAN]

\* A copy is into another store: shutil.copy2 refuses to copy a file onto itself
\* before it truncates anything.
ASSUME SourceAssumption ==
    /\ NR_RETRYS \in Nat \ {0} /\ Items \in Nat \ {0}
    /\ \A p \in Proc : \A c \in Calls[p] :
          /\ c \in CallType
          /\ c.kind = "copy" => c.store # c.into

VARIABLES
    cache,     \* Store -> Item -> what is at the place of the item
    call,      \* Proc -> what it was called for
    pc,        \* Proc -> where it is
    look,      \* Proc -> items that the pass over the items has still to do
    cached,    \* Proc -> items it reports as cached
    dl,        \* Proc -> items left to download (dl_pairs); the item that is copied
    res,       \* Proc -> results of this run of curl, or of the threads
    results,   \* Proc -> results of items
    extra,     \* Proc -> failures that are no item's: "exit-code", "rest"
    tries,     \* Proc -> Item -> runs of curl so far
    opened     \* Proc -> items whose place in the other cache it has written to

vars == <<cache, call, pc, look, cached, dl, res, results, extra, tries, opened>>

Item == 1..Items
Content == {"absent", "part", "other", "whole"}
NoResults == [i \in Item |-> "none"]
Outcomes == {"ok", "failed"}

Init ==
    /\ cache \in [Store -> [Item -> {"absent", "whole"}]]
    /\ call \in [Proc -> UNION {Calls[p] : p \in Proc}] /\ \A p \in Proc : call[p] \in Calls[p]
    /\ pc = [p \in Proc |-> "setup"]
    /\ look = [p \in Proc |-> {}] /\ cached = [p \in Proc |-> {}] /\ dl = [p \in Proc |-> {}]
    /\ res = [p \in Proc |-> NoResults] /\ results = [p \in Proc |-> NoResults]
    /\ extra = [p \in Proc |-> {}]
    /\ tries = [p \in Proc |-> [i \in Item |-> 0]]
    /\ opened = [p \in Proc |-> {}]

Own(p) == cache[call[p].store]
Exists(p, i) == Own(p)[i] # "absent"
Goto(p, l) == pc' = [pc EXCEPT ![p] = l]
First(S) == CHOOSE i \in S : \A j \in S : i <= j
Outcome(ok) == IF ok THEN "ok" ELSE "failed"
Report(p, i, ok) == res' = [res EXCEPT ![p][i] = Outcome(ok)]
Failed(r) == {i \in Item : r[i] = "failed"}

-----------------------------------------------------------------------------
(***************************************************************************)
(* fetch_all: two passes over the items                                    *)
(***************************************************************************)

\* dispatch and setup
Setup(p) ==
    /\ pc[p] = "setup"
    /\ Goto(p, IF call[p].kind = "copy" THEN "copy" ELSE "first")
    /\ look' = [look EXCEPT ![p] = Item]
    /\ UNCHANGED <<cache, call, cached, dl, res, results, extra, tries, opened>>

\* The first pass reports the items that exist.
FirstPass(p) ==
    /\ pc[p] = "first"
    /\ \/ /\ look[p] # {}
          /\ LET i == First(look[p]) IN
             /\ look' = [look EXCEPT ![p] = @ \ {i}]
             /\ cached' = [cached EXCEPT ![p] = IF Exists(p, i) THEN @ \cup {i} ELSE @]
          /\ UNCHANGED pc
       \/ look[p] = {} /\ Goto(p, "second") /\ look' = [look EXCEPT ![p] = Item] /\ UNCHANGED cached
    /\ UNCHANGED <<cache, call, dl, res, results, extra, tries, opened>>

\* The second pass looks again, and takes those that do not exist.  The secrets an
\* item needs may be missing: the map is evaluated outside of the try, so that is an
\* exception.
SecondPass(p) ==
    /\ pc[p] = "second"
    /\ \/ /\ look[p] # {}
          /\ LET i == First(look[p]) IN
             /\ look' = [look EXCEPT ![p] = @ \ {i}]
             /\ dl' = [dl EXCEPT ![p] = IF Exists(p, i) THEN @ ELSE @ \cup {i}]
          /\ UNCHANGED pc
       \/ look[p] # {} /\ ~Exists(p, First(look[p])) /\ Goto(p, "raised") /\ UNCHANGED <<look, dl>>
       \/ /\ look[p] = {}
          /\ Goto(p, CASE dl[p] = {} -> "report"
                       [] call[p].parallel -> "curl"
                       [] OTHER -> "threads")
          /\ UNCHANGED <<look, dl>>
    /\ UNCHANGED <<cache, call, cached, res, results, extra, tries, opened>>

-----------------------------------------------------------------------------
(***************************************************************************)
(* Downloads.  got is what curl has put into the temporary directory:      *)
(* "whole", "other", or "nothing" when it failed.                          *)
(***************************************************************************)

\* A mutation of Move: a file is moved before it is verified.
MoveFirst(p, i, got) ==
    cache' = IF got = "nothing" THEN cache ELSE [cache EXCEPT ![call[p].store][i] = got]
\* validate_and_move_to_targetdir: of a file that is verified, over any other.
Move(p, i, got) ==
    cache' = IF got = "whole" THEN [cache EXCEPT ![call[p].store][i] = "whole"] ELSE cache

\* fetch_many_new_curl: a line about an item, which is right, or cannot be parsed.
Line(p) ==
    /\ pc[p] = "curl"
    /\ \E i \in dl[p] \ look[p] :
          /\ look' = [look EXCEPT ![p] = @ \cup {i}]
          /\ \/ \E got \in {"whole", "other", "nothing"} :
                   /\ Move(p, i, got)
                   /\ Report(p, i, got = "whole")
                   /\ dl' = IF got = "whole" THEN [dl EXCEPT ![p] = @ \ {i}] ELSE dl
             \/ UNCHANGED <<cache, res, dl>>
    /\ UNCHANGED <<call, pc, cached, results, extra, tries, opened>>

\* _fetch_all_new_curl after a run: later results replace earlier ones of the same
\* item; again, unless all that was reported is fine or it was the last try.
Retry(p, failed, n) ==
    /\ results' = [results EXCEPT ![p] = [i \in Item |-> IF res[p][i] = "none" THEN @[i] ELSE res[p][i]]]
    /\ IF failed /\ n < NR_RETRYS THEN Goto(p, "curl") ELSE Goto(p, "report")

\* A mutation of CurlEnds: only runs of curl that report something count as tries.
CurlEndsFree(p) ==
    /\ pc[p] = "curl"
    /\ \E code \in {"zero", "positive", "signal"} :
          LET mute == res[p] = NoResults /\ code = "positive"
              n == tries[p][1] + 1
          IN /\ code = "zero" => Failed(res[p]) = {} /\ dl[p] \subseteq look[p]
             /\ extra' = IF mute THEN [extra EXCEPT ![p] = {"exit-code"}] ELSE extra
             /\ IF mute THEN UNCHANGED <<results, tries, pc>>
                ELSE tries' = [tries EXCEPT ![p][1] = n] /\ Retry(p, Failed(res[p]) # {}, n)
    /\ res' = [res EXCEPT ![p] = NoResults]
    /\ look' = [look EXCEPT ![p] = {}]
    /\ UNCHANGED <<cache, call, cached, dl, opened>>
\* The end of the output of curl: it is through, or it dies at any point.  Its exit
\* status counts when there were no results, and only if it is positive.
CurlEnds(p) ==
    /\ pc[p] = "curl"
    /\ \E code \in {"zero", "positive", "signal"} :
          LET mute == res[p] = NoResults /\ code = "positive"
              n == tries[p][1] + 1
          IN /\ code = "zero" => Failed(res[p]) = {} /\ dl[p] \subseteq look[p]
             /\ extra' = IF mute THEN [extra EXCEPT ![p] = {"exit-code"}] ELSE extra
             /\ tries' = [tries EXCEPT ![p][1] = n]
             /\ Retry(p, mute \/ Failed(res[p]) # {}, n)
    /\ res' = [res EXCEPT ![p] = NoResults]
    /\ look' = [look EXCEPT ![p] = {}]
    /\ UNCHANGED <<cache, call, cached, dl, opened>>

\* fetch_one, in a thread for each item: tries until curl succeeds; a file with other
\* content is not tried again.
Thread(p) ==
    /\ pc[p] = "threads"
    /\ \E i \in {x \in dl[p] : res[p][x] = "none"} : \E got \in {"whole", "other", "nothing"} :
          /\ Move(p, i, got)
          /\ tries' = [tries EXCEPT ![p][i] = @ + 1]
          /\ IF got = "nothing" /\ tries[p][i] + 1 < NR_RETRYS
             THEN UNCHANGED res ELSE Report(p, i, got = "whole")
    /\ UNCHANGED <<call, pc, look, cached, dl, results, extra, opened>>

\* The results of all threads.
Join(p) ==
    /\ pc[p] = "threads" /\ \A i \in dl[p] : res[p][i] # "none"
    /\ results' = [results EXCEPT ![p] = res[p]]
    /\ dl' = [dl EXCEPT ![p] = Failed(res[p])]
    /\ Goto(p, "report")
    /\ UNCHANGED <<cache, call, look, cached, res, extra, tries, opened>>

\* A mutation of FetchAllEnds: what is left to download is not looked at.
FetchAllEndsBlind(p) ==
    /\ pc[p] = "report"
    /\ Goto(p, "done")
    /\ UNCHANGED <<cache, call, look, cached, dl, res, results, extra, tries, opened>>
\* The end of fetch_all: one more failure when items are left.
FetchAllEnds(p) ==
    /\ pc[p] = "report"
    /\ extra' = [extra EXCEPT ![p] =
           IF call[p].parallel /\ dl[p] # {} THEN @ \cup {"rest"} ELSE @]
    /\ Goto(p, "done")
    /\ UNCHANGED <<cache, call, look, cached, dl, res, results, tries, opened>>

-----------------------------------------------------------------------------
(***************************************************************************)
(* copy_all: from the cache of the store into another one, in place        *)
(***************************************************************************)

\* shutil.copy2 of the next item: the other file is truncated; or there is nothing to
\* copy, which is a failure of the item.
CopyBegin(p) ==
    /\ pc[p] = "copy" /\ look[p] # {}
    /\ LET i == First(look[p]) IN
          /\ look' = [look EXCEPT ![p] = @ \ {i}]
          /\ IF Exists(p, i)
             THEN /\ cache' = [cache EXCEPT ![call[p].into][i] = "part"]
                  /\ opened' = [opened EXCEPT ![p] = @ \cup {i}]
                  /\ dl' = [dl EXCEPT ![p] = {i}]
                  /\ Goto(p, "write") /\ UNCHANGED results
             ELSE /\ results' = [results EXCEPT ![p][i] = "failed"]
                  /\ UNCHANGED <<pc, cache, opened, dl>>
    /\ UNCHANGED <<call, cached, res, extra, tries>>

\* The content that is read then has been written; or writing fails, and what was
\* written stays.
CopyEnd(p) ==
    /\ pc[p] = "write"
    /\ \E i \in dl[p] : \E ok \in BOOLEAN :
          /\ cache' = IF ok THEN [cache EXCEPT ![call[p].into][i] = Own(p)[i]] ELSE cache
          /\ results' = [results EXCEPT ![p][i] = Outcome(ok)]
    /\ dl' = [dl EXCEPT ![p] = {}]
    /\ Goto(p, "copy")
    /\ UNCHANGED <<call, look, cached, res, extra, tries, opened>>

CopyAllEnds(p) ==
    /\ pc[p] = "copy" /\ look[p] = {}
    /\ Goto(p, "done")
    /\ UNCHANGED <<cache, call, look, cached, dl, res, results, extra, tries, opened>>

-----------------------------------------------------------------------------
Ended(p) == pc[p] \in {"done", "raised", "dead"}

\* A process is killed; its temporary directory stays, under a name that is no item's.
\* (What it has failed to copy or was copying is kept for the properties.)
Die(p) ==
    /\ ~Ended(p) /\ Goto(p, "dead")
    /\ look' = [look EXCEPT ![p] = {}] /\ cached' = [cached EXCEPT ![p] = {}]
    /\ dl' = [dl EXCEPT ![p] = IF pc[p] = "write" THEN @ ELSE {}]
    /\ res' = [res EXCEPT ![p] = NoResults]
    /\ results' = [results EXCEPT ![p] = IF call[p].kind = "copy" THEN @ ELSE NoResults]
    /\ extra' = [extra EXCEPT ![p] = {}]
    /\ tries' = [tries EXCEPT ![p] = [i \in Item |-> 0]]
    /\ UNCHANGED <<cache, call, opened>>

Step(p) ==
    \/ Setup(p) \/ FirstPass(p) \/ SecondPass(p)
    \/ Line(p) \/ CurlEnds(p) \/ Thread(p) \/ Join(p) \/ FetchAllEnds(p)
    \/ CopyBegin(p) \/ CopyEnd(p) \/ CopyAllEnds(p)

Over == (\A p \in Proc : Ended(p)) /\ UNCHANGED vars

Next == \/ \E p \in Proc : Step(p) \/ Die(p)
        \/ Over

\* curl ends by itself: it has a connect-timeout and a speed-limit.
Fairness == \A p \in Proc : WF_vars(Step(p))

Spec == Init /\ [][Next]_vars /\ Fairness

-----------------------------------------------------------------------------
(***************************************************************************)
(* Properties                                                              *)
(***************************************************************************)

Labels == {"setup", "first", "second", "curl", "threads", "report", "copy", "write",
           "done", "raised", "dead"}
Results == [Item -> Outcomes \cup {"none"}]

\* Types; curl is not tried more often than NR_RETRYS says.
TypeOK ==
    /\ cache \in [Store -> [Item -> Content]]
    /\ call \in [Proc -> CallType] /\ pc \in [Proc -> Labels]
    /\ {look, cached, dl, opened} \subseteq [Proc -> SUBSET Item]
    /\ {res, results} \subseteq [Proc -> Results]
    /\ extra \in [Proc -> SUBSET {"exit-code", "rest"}]
    /\ tries \in [Proc -> [Item -> 0..NR_RETRYS]]

Copies(s) == {p \in Proc : call[p].kind = "copy" /\ call[p].into = s}
\* Copies that are in the middle of an item, were killed there, or failed.
Cut(p) == IF pc[p] \in {"write", "dead"} THEN dl[p] \cup Failed(results[p])
          ELSE Failed(results[p])

\* Whatever downloads of the same items do at the same time, and wherever they die,
\* a file under the name of an item has been verified ("Download to a temporary sub
\* cache until we have verified the checksum").  Only a copy that is not through, or
\* was cut short, or copied from such a file, leaves anything else.
CacheVerified ==
    \A s \in Store, i \in Item :
        cache[s][i] \notin {"absent", "whole"} =>
            \E p \in Copies(s) :
                /\ i \in opened[p]
                /\ \/ i \in Cut(p)
                   \/ \E q \in Copies(call[p].store) : i \in opened[q]

\* A download that succeeds has all its items in the cache, those that appeared
\* between its two passes included, and so has a copy, unless a copy into the same
\* cache wrote to the item, or one into the cache that is copied from.
Fails(p) == Failed(results[p]) # {} \/ extra[p] # {}
Success(p) == pc[p] = "done" /\ ~Fails(p)
Target(p) == IF call[p].kind = "copy" THEN call[p].into ELSE call[p].store
SuccessTold ==
    \A p \in Proc : Success(p) =>
        \A i \in Item :
            \/ cache[Target(p)][i] = "whole"
            \/ \E q \in (Copies(Target(p)) \cup Copies(call[p].store)) \ {p} : i \in opened[q]

\* A download that fails has an item that it could not get; unless curl once ended
\* without any result: that failure is kept, whatever later tries bring.
FailureTold ==
    \A p \in Proc : pc[p] = "done" /\ call[p].kind = "download" /\ Fails(p) =>
        \/ dl[p] # {}
        \/ "exit-code" \in extra[p]

\* Every item is reported once: as cached, with the result of its last try, or not at
\* all when it came from another process between the passes or was lost by curl.
ReportedRight ==
    \A p \in Proc : pc[p] = "done" /\ call[p].kind = "download" =>
        \A i \in Item :
            /\ results[p][i] # "none" => i \notin cached[p]
            /\ results[p][i] = "ok" => i \notin dl[p]
            /\ results[p][i] = "failed" => i \in dl[p]

\* Every download and every copy ends, however often curl fails.
CallsEnd == \A p \in Proc : <>Ended(p)

\* What fetch_all and copy_all return is what happened to the items.
ToldRight == TypeOK /\ SuccessTold /\ FailureTold /\ ReportedRight
=============================================================================
