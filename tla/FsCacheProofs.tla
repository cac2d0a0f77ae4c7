---------------------------- MODULE FsCacheProofs ----------------------------
(***************************************************************************)
(* Proofs about FsCache, for any processes, entries, names and sizes: what *)
(* readers may rely on, and how cache.size goes with the cache.            *)
(***************************************************************************)
EXTENDS FsCache, FiniteSetTheorems, WellFoundedInduction, TLAPS

\* Where a call of store() is before and after its rename, and where _remove_lru
\* has an entry open, has it locked, and removes it.
Evicting == {"pick", "evOpen", "evLock", "evVerify", "rmInfo", "rmData", "rmLock",
             "rmDir", "deaccount", "evRelease"}
EvictLocked == {"evVerify", "rmInfo", "rmData", "rmLock", "rmDir", "deaccount",
                "evRelease"}
Storing == {"fill", "account", "list", "info", "rename"} \cup Evicting
Committed == {"undo", "undoSize", "cleanup", "unlock"}

\* Which entries a process works with, at each point of its call.
Holding ==
    \A p \in Proc :
        /\ proc[p].pc \in Storing \cup Committed \cup {"stage"}
              <=> proc[p].own # NoEntry
        /\ proc[p].pc \in EvictLocked \cup {"evLock", "ldLock", "ldVerify", "using"}
              <=> proc[p].fd # NoEntry
        /\ proc[p].pc # "idle" => proc[p].name \in Name

\* The locks that go with that: the own entry and the one that is evicted are locked
\* for writing, one that is loaded for reading.
Locking ==
    /\ \A p \in Proc, e \in Entry :
        /\ proc[p].own = e => ent[e].writer = p
        /\ proc[p].fd = e /\ proc[p].pc \in EvictLocked =>
              ent[e].writer = p /\ proc[p].own # e
        /\ p \in ent[e].readers <=> proc[p].fd = e /\ proc[p].pc \in {"ldVerify", "using"}
    /\ \A e \in Entry : ent[e].writer # NoProc => ent[e].readers = {}

\* Where those entries are.
Placing ==
    /\ \A p \in Proc, e \in Entry :
        /\ proc[p].own = e => ent[e].loc # "unborn"
        /\ proc[p].own = e /\ proc[p].pc \in Storing =>
              ent[e].loc = "anon" /\ ent[e].lock
        /\ proc[p].own = e /\ proc[p].pc = "stage" => ent[e].loc = "stage"
        /\ proc[p].fd = e => ent[e].loc \notin {"unborn", "stage"}
        /\ proc[p].fd = e /\ proc[p].pc = "using" =>
              ent[e].loc = proc[p].name /\ ent[e].lock
    /\ \A e, f \in Entry : ent[e].loc \in Name /\ ent[f].loc = ent[e].loc => e = f

LInv == TypeOK /\ Holding /\ Locking /\ Placing

\* The assumption on the constants, part by part.
LEMMA Nobody == NoProc \notin Proc /\ NoEntry \notin Entry
  BY CacheAssumption
LEMMA Numbers == EntrySize \subseteq Nat /\ Overhead \in Nat /\ MaxClock \in Nat
  BY CacheAssumption
LEMMA Names ==
  \A n \in Name : n \notin Entry /\ n \notin {"", "unborn", "anon", "stage", "gone"}
  BY CacheAssumption

LEMMA InitLInv == Init => LInv
<1> SUFFICES ASSUME Init PROVE LInv
  OBVIOUS
<1> USE DEF Init
<1>1. Unborn \in Entries
  BY DEF Unborn, Entries, Locations
<1>2. Idle \in Locals /\ Idle.pc = "idle" /\ Idle.own = NoEntry /\ Idle.fd = NoEntry
  BY DEF Idle, Locals, Labels, Paths, Errors
<1>3. Unborn.loc = "unborn" /\ Unborn.writer = NoProc /\ Unborn.readers = {}
  BY DEF Unborn
<1>4. TypeOK
  <2>1. clock \in 0..MaxClock
    BY Numbers
  <2> QED
    BY <1>1, <1>2, <2>1 DEF TypeOK
<1>5. /\ \A p \in Proc : /\ proc[p].pc = "idle" /\ proc[p].own = NoEntry
                         /\ proc[p].fd = NoEntry
      /\ \A e \in Entry : /\ ent[e].loc = "unborn" /\ ent[e].writer = NoProc
                          /\ ent[e].readers = {}
  BY <1>2, <1>3
<1>6. Holding
  BY <1>5 DEF Holding, Storing, Committed, Evicting, EvictLocked
<1>7. Locking
  BY <1>5, Nobody DEF Locking, EvictLocked
<1>8. Placing
  BY <1>5, Nobody, Names DEF Placing
<1> QED
  BY <1>4, <1>6, <1>7, <1>8 DEF LInv


-----------------------------------------------------------------------------
(***************************************************************************)
(* What each action does to the parts of the state that the invariants     *)
(* are about.                                                              *)
(***************************************************************************)

\* p moves; it keeps its own entry and its name.
Moves(p, pc, fd, path, space, keep) ==
    /\ proc' \in [Proc -> Locals]
    /\ \A q \in Proc \ {p} : proc'[q] = proc[q]
    /\ proc'[p].pc = pc /\ proc'[p].fd = fd /\ proc'[p].path = path
    /\ proc'[p].space = space /\ proc'[p].keep = keep
    /\ proc'[p].own = proc[p].own /\ proc'[p].name = proc[p].name
\* ... only to another place in its call
GoesTo(p, pc) == Moves(p, pc, proc[p].fd, proc[p].path, proc[p].space, proc[p].keep)

\* A call ends: p keeps nothing.
Ends(p) ==
    /\ proc' \in [Proc -> Locals]
    /\ \A q \in Proc \ {p} : proc'[q] = proc[q]
    /\ proc'[p].pc = "idle" /\ proc'[p].own = NoEntry /\ proc'[p].fd = NoEntry
    /\ proc'[p].keep = FALSE

\* The entry e changes; its size stays.
Changes(e, loc, lock, info, data, writer, readers) ==
    /\ ent' \in [Entry -> Entries]
    /\ \A f \in Entry \ {e} : ent'[f] = ent[f]
    /\ ent'[e].loc = loc /\ ent'[e].lock = lock /\ ent'[e].info = info
    /\ ent'[e].data = data /\ ent'[e].writer = writer /\ ent'[e].readers = readers
    /\ ent'[e].size = ent[e].size
\* ... in its files, or in its locks
Files(e, lock, info, data) ==
    Changes(e, ent[e].loc, lock, info, data, ent[e].writer, ent[e].readers)
Locked(e, writer, readers) ==
    Changes(e, ent[e].loc, ent[e].lock, ent[e].info, ent[e].data, writer, readers)

LEMMA ProcUpdate ==
  ASSUME TypeOK, NEW p \in Proc, NEW r \in Locals, proc' = [proc EXCEPT ![p] = r]
  PROVE  /\ proc' \in [Proc -> Locals] /\ proc'[p] = r
         /\ \A q \in Proc \ {p} : proc'[q] = proc[q]
  BY DEF TypeOK

LEMMA EntUpdate ==
  ASSUME TypeOK, NEW e \in Entry, NEW d \in Entries, ent' = [ent EXCEPT ![e] = d]
  PROVE  /\ ent' \in [Entry -> Entries] /\ ent'[e] = d
         /\ \A f \in Entry \ {e} : ent'[f] = ent[f]
  BY DEF TypeOK

LEMMA EntryTypes == LInv => \A e \in Entry : ent[e] \in Entries
  BY DEF LInv, TypeOK

\* What the entries of a process in some place are.
LEMMA Holds ==
  ASSUME LInv, NEW p \in Proc
  PROVE  /\ proc[p] \in Locals
         /\ proc[p].pc \in Storing \cup Committed \cup {"stage"} => proc[p].own \in Entry
         /\ proc[p].pc \in EvictLocked \cup {"evLock", "ldLock", "ldVerify", "using"} =>
              proc[p].fd \in Entry
  BY DEF LInv, TypeOK, Holding, Locals

LEMMA Goes ==
  ASSUME LInv, NEW p \in Proc, NEW l \in Labels, Goto(p, l)
  PROVE  GoesTo(p, l)
<1> DEFINE r == [proc[p] EXCEPT !.pc = l]
<1>1. /\ r \in Locals /\ r.pc = l /\ r.fd = proc[p].fd /\ r.path = proc[p].path
      /\ r.space = proc[p].space /\ r.keep = proc[p].keep /\ r.own = proc[p].own
      /\ r.name = proc[p].name
  BY Holds DEF Locals
<1>2. proc' = [proc EXCEPT ![p] = r]
  BY DEF Goto
<1> HIDE DEF r
<1> QED
  BY <1>1, <1>2, ProcUpdate DEF GoesTo, Moves, LInv

LEMMA MovesTo ==
  ASSUME LInv, NEW p \in Proc, NEW r \in Locals, proc' = [proc EXCEPT ![p] = r],
         r.own = proc[p].own, r.name = proc[p].name
  PROVE  Moves(p, r.pc, r.fd, r.path, r.space, r.keep)
  BY ProcUpdate DEF Moves, LInv

\* Updates of the local variables, by the variables they change.
LEMMA GoesWith ==
  ASSUME LInv, NEW p \in Proc, NEW l \in Labels, NEW f \in Entry \cup {NoEntry},
         proc' = [proc EXCEPT ![p].pc = l, ![p].fd = f]
  PROVE  Moves(p, l, f, proc[p].path, proc[p].space, proc[p].keep)
<1> DEFINE r == [proc[p] EXCEPT !.pc = l, !.fd = f]
<1>1. /\ r \in Locals /\ r.own = proc[p].own /\ r.name = proc[p].name
      /\ r.pc = l /\ r.fd = f /\ r.path = proc[p].path
      /\ r.space = proc[p].space /\ r.keep = proc[p].keep
  BY Holds DEF Locals
<1>2. proc' = [proc EXCEPT ![p] = r]
  OBVIOUS
<1> HIDE DEF r
<1> QED
  BY <1>1, <1>2, MovesTo

LEMMA GoesFailing ==
  ASSUME LInv, NEW p \in Proc, NEW l \in Labels, NEW x \in Errors,
         proc' = [proc EXCEPT ![p].pc = l, ![p].err = x]
  PROVE  Moves(p, l, proc[p].fd, proc[p].path, proc[p].space, proc[p].keep)
<1> DEFINE r == [proc[p] EXCEPT !.pc = l, !.err = x]
<1>1. /\ r \in Locals /\ r.own = proc[p].own /\ r.name = proc[p].name
      /\ r.pc = l /\ r.fd = proc[p].fd /\ r.path = proc[p].path
      /\ r.space = proc[p].space /\ r.keep = proc[p].keep
  BY Holds DEF Locals
<1>2. proc' = [proc EXCEPT ![p] = r]
  OBVIOUS
<1> HIDE DEF r
<1> QED
  BY <1>1, <1>2, MovesTo

LEMMA GoesFailingWith ==
  ASSUME LInv, NEW p \in Proc, NEW l \in Labels, NEW f \in Entry \cup {NoEntry}, NEW x \in Errors,
         proc' = [proc EXCEPT ![p].pc = l, ![p].fd = f, ![p].err = x]
  PROVE  Moves(p, l, f, proc[p].path, proc[p].space, proc[p].keep)
<1> DEFINE r == [proc[p] EXCEPT !.pc = l, !.fd = f, !.err = x]
<1>1. /\ r \in Locals /\ r.own = proc[p].own /\ r.name = proc[p].name
      /\ r.pc = l /\ r.fd = f /\ r.path = proc[p].path
      /\ r.space = proc[p].space /\ r.keep = proc[p].keep
  BY Holds DEF Locals
<1>2. proc' = [proc EXCEPT ![p] = r]
  OBVIOUS
<1> HIDE DEF r
<1> QED
  BY <1>1, <1>2, MovesTo

LEMMA GoesKeeping ==
  ASSUME LInv, NEW p \in Proc, NEW l \in Labels,
         proc' = [proc EXCEPT ![p].pc = l, ![p].keep = TRUE]
  PROVE  Moves(p, l, proc[p].fd, proc[p].path, proc[p].space, TRUE)
<1> DEFINE r == [proc[p] EXCEPT !.pc = l, !.keep = TRUE]
<1>1. /\ r \in Locals /\ r.own = proc[p].own /\ r.name = proc[p].name
      /\ r.pc = l /\ r.fd = proc[p].fd /\ r.path = proc[p].path
      /\ r.space = proc[p].space /\ r.keep = TRUE
  BY Holds DEF Locals
<1>2. proc' = [proc EXCEPT ![p] = r]
  OBVIOUS
<1> HIDE DEF r
<1> QED
  BY <1>1, <1>2, MovesTo

LEMMA GoesSized ==
  ASSUME LInv, NEW p \in Proc, NEW l \in Labels, NEW s \in Nat,
         proc' = [proc EXCEPT ![p].pc = l, ![p].space = s]
  PROVE  Moves(p, l, proc[p].fd, proc[p].path, s, proc[p].keep)
<1> DEFINE r == [proc[p] EXCEPT !.pc = l, !.space = s]
<1>1. /\ r \in Locals /\ r.own = proc[p].own /\ r.name = proc[p].name
      /\ r.pc = l /\ r.fd = proc[p].fd /\ r.path = proc[p].path
      /\ r.space = s /\ r.keep = proc[p].keep
  BY Holds DEF Locals
<1>2. proc' = [proc EXCEPT ![p] = r]
  OBVIOUS
<1> HIDE DEF r
<1> QED
  BY <1>1, <1>2, MovesTo

LEMMA GoesFreed ==
  ASSUME LInv, NEW p \in Proc, NEW l \in Labels, NEW n \in Nat,
         proc' = [proc EXCEPT ![p].pc = l, ![p].freed = n]
  PROVE  Moves(p, l, proc[p].fd, proc[p].path, proc[p].space, proc[p].keep)
<1> DEFINE r == [proc[p] EXCEPT !.pc = l, !.freed = n]
<1>1. /\ r \in Locals /\ r.own = proc[p].own /\ r.name = proc[p].name
      /\ r.pc = l /\ r.fd = proc[p].fd /\ r.path = proc[p].path
      /\ r.space = proc[p].space /\ r.keep = proc[p].keep
  BY Holds DEF Locals
<1>2. proc' = [proc EXCEPT ![p] = r]
  OBVIOUS
<1> HIDE DEF r
<1> QED
  BY <1>1, <1>2, MovesTo

LEMMA GoesListing ==
  ASSUME LInv, NEW p \in Proc, NEW l \in Labels, NEW t \in SUBSET [path : Paths, last : Nat],
         proc' = [proc EXCEPT ![p].pc = l, ![p].tried = TRUE, ![p].freed = 0, ![p].todo = t]
  PROVE  Moves(p, l, proc[p].fd, proc[p].path, proc[p].space, proc[p].keep)
<1> DEFINE r == [proc[p] EXCEPT !.pc = l, !.tried = TRUE, !.freed = 0, !.todo = t]
<1>1. /\ r \in Locals /\ r.own = proc[p].own /\ r.name = proc[p].name
      /\ r.pc = l /\ r.fd = proc[p].fd /\ r.path = proc[p].path
      /\ r.space = proc[p].space /\ r.keep = proc[p].keep
  BY Holds DEF Locals
<1>2. proc' = [proc EXCEPT ![p] = r]
  OBVIOUS
<1> HIDE DEF r
<1> QED
  BY <1>1, <1>2, MovesTo

LEMMA GoesPicking ==
  ASSUME LInv, NEW p \in Proc, NEW l \in Labels, NEW x \in [path : Paths, last : Nat], NEW t \in SUBSET [path : Paths, last : Nat],
         proc' = [proc EXCEPT ![p].pc = l, ![p].path = x.path, ![p].last = x.last, ![p].todo = t]
  PROVE  Moves(p, l, proc[p].fd, x.path, proc[p].space, proc[p].keep)
<1> DEFINE r == [proc[p] EXCEPT !.pc = l, !.path = x.path, !.last = x.last, !.todo = t]
<1>1. /\ r \in Locals /\ r.own = proc[p].own /\ r.name = proc[p].name
      /\ r.pc = l /\ r.fd = proc[p].fd /\ r.path = x.path
      /\ r.space = proc[p].space /\ r.keep = proc[p].keep
  BY Holds DEF Locals
<1>2. proc' = [proc EXCEPT ![p] = r]
  OBVIOUS
<1> HIDE DEF r
<1> QED
  BY <1>1, <1>2, MovesTo

LEMMA GoesIdle ==
  ASSUME LInv, NEW p \in Proc, NEW x \in Errors,
         proc' = [proc EXCEPT ![p] = [Idle EXCEPT !.err = x]]
  PROVE  Ends(p)
<1> DEFINE r == [Idle EXCEPT !.err = x]
<1>1. /\ r \in Locals /\ r.pc = "idle" /\ r.own = NoEntry /\ r.fd = NoEntry
      /\ r.keep = FALSE
  BY DEF Idle, Locals, Labels, Paths, Errors
<1>2. proc' = [proc EXCEPT ![p] = r]
  OBVIOUS
<1> HIDE DEF r
<1> QED
  BY <1>1, <1>2, ProcUpdate DEF Ends, LInv

LEMMA GoesNowhere ==
  ASSUME LInv, NEW p \in Proc, proc' = [proc EXCEPT ![p] = Idle]
  PROVE  Ends(p)
<1>1. /\ Idle \in Locals /\ Idle.pc = "idle" /\ Idle.own = NoEntry /\ Idle.fd = NoEntry
      /\ Idle.keep = FALSE
  BY DEF Idle, Locals, Labels, Paths, Errors
<1> QED
  BY <1>1, ProcUpdate DEF Ends, LInv

\* Updates of an entry, by what they change.
LEMMA SetInfoFile ==
  ASSUME LInv, NEW e \in Entry, NEW b \in BOOLEAN, ent' = [ent EXCEPT ![e].info = b]
  PROVE  Changes(e, ent[e].loc, ent[e].lock, b, ent[e].data,
                 ent[e].writer, ent[e].readers)
<1> DEFINE d == [ent[e] EXCEPT !.info = b]
<1>1. ent[e] \in Entries
  BY EntryTypes
<1>2. d \in Entries
  BY <1>1 DEF Entries, Locations
<1>3. /\ d.loc = ent[e].loc /\ d.data = ent[e].data /\ d.size = ent[e].size
      /\ d.writer = ent[e].writer /\ d.readers = ent[e].readers
  BY <1>1 DEF Entries
<1>4. d.lock = ent[e].lock /\ d.info = b
  BY <1>1 DEF Entries
<1>5. ent' = [ent EXCEPT ![e] = d]
  OBVIOUS
<1> HIDE DEF d
<1> QED
  BY <1>2, <1>3, <1>4, <1>5, EntUpdate DEF Changes, LInv

LEMMA SetLockFile ==
  ASSUME LInv, NEW e \in Entry, NEW b \in BOOLEAN, ent' = [ent EXCEPT ![e].lock = b]
  PROVE  Changes(e, ent[e].loc, b, ent[e].info, ent[e].data,
                 ent[e].writer, ent[e].readers)
<1> DEFINE d == [ent[e] EXCEPT !.lock = b]
<1>1. ent[e] \in Entries
  BY EntryTypes
<1>2. d \in Entries
  BY <1>1 DEF Entries, Locations
<1>3. /\ d.loc = ent[e].loc /\ d.data = ent[e].data /\ d.size = ent[e].size
      /\ d.writer = ent[e].writer /\ d.readers = ent[e].readers
  BY <1>1 DEF Entries
<1>4. d.lock = b /\ d.info = ent[e].info
  BY <1>1 DEF Entries
<1>5. ent' = [ent EXCEPT ![e] = d]
  OBVIOUS
<1> HIDE DEF d
<1> QED
  BY <1>2, <1>3, <1>4, <1>5, EntUpdate DEF Changes, LInv

LEMMA SetData ==
  ASSUME LInv, NEW e \in Entry, NEW x \in {"none", "partial", "whole"}, ent' = [ent EXCEPT ![e].data = x]
  PROVE  Changes(e, ent[e].loc, ent[e].lock, ent[e].info, x,
                 ent[e].writer, ent[e].readers)
<1> DEFINE d == [ent[e] EXCEPT !.data = x]
<1>1. ent[e] \in Entries
  BY EntryTypes
<1>2. d \in Entries
  BY <1>1 DEF Entries, Locations
<1>3. /\ d.loc = ent[e].loc /\ d.data = x /\ d.size = ent[e].size
      /\ d.writer = ent[e].writer /\ d.readers = ent[e].readers
  BY <1>1 DEF Entries
<1>4. d.lock = ent[e].lock /\ d.info = ent[e].info
  BY <1>1 DEF Entries
<1>5. ent' = [ent EXCEPT ![e] = d]
  OBVIOUS
<1> HIDE DEF d
<1> QED
  BY <1>2, <1>3, <1>4, <1>5, EntUpdate DEF Changes, LInv

LEMMA SetLoc ==
  ASSUME LInv, NEW e \in Entry, NEW x \in Locations, ent' = [ent EXCEPT ![e].loc = x]
  PROVE  Changes(e, x, ent[e].lock, ent[e].info, ent[e].data,
                 ent[e].writer, ent[e].readers)
<1> DEFINE d == [ent[e] EXCEPT !.loc = x]
<1>1. ent[e] \in Entries
  BY EntryTypes
<1>2. d \in Entries
  BY <1>1 DEF Entries, Locations
<1>3. /\ d.loc = x /\ d.data = ent[e].data /\ d.size = ent[e].size
      /\ d.writer = ent[e].writer /\ d.readers = ent[e].readers
  BY <1>1 DEF Entries
<1>4. d.lock = ent[e].lock /\ d.info = ent[e].info
  BY <1>1 DEF Entries
<1>5. ent' = [ent EXCEPT ![e] = d]
  OBVIOUS
<1> HIDE DEF d
<1> QED
  BY <1>2, <1>3, <1>4, <1>5, EntUpdate DEF Changes, LInv

LEMMA SetAccessTime ==
  ASSUME LInv, NEW e \in Entry, NEW n \in Nat, ent' = [ent EXCEPT ![e].atime = n]
  PROVE  Changes(e, ent[e].loc, ent[e].lock, ent[e].info, ent[e].data,
                 ent[e].writer, ent[e].readers)
<1> DEFINE d == [ent[e] EXCEPT !.atime = n]
<1>1. ent[e] \in Entries
  BY EntryTypes
<1>2. d \in Entries
  BY <1>1 DEF Entries, Locations
<1>3. /\ d.loc = ent[e].loc /\ d.data = ent[e].data /\ d.size = ent[e].size
      /\ d.writer = ent[e].writer /\ d.readers = ent[e].readers
  BY <1>1 DEF Entries
<1>4. d.lock = ent[e].lock /\ d.info = ent[e].info
  BY <1>1 DEF Entries
<1>5. ent' = [ent EXCEPT ![e] = d]
  OBVIOUS
<1> HIDE DEF d
<1> QED
  BY <1>2, <1>3, <1>4, <1>5, EntUpdate DEF Changes, LInv

LEMMA SetWriter ==
  ASSUME LInv, NEW e \in Entry, NEW w \in Proc \cup {NoProc}, ent' = [ent EXCEPT ![e].writer = w]
  PROVE  Changes(e, ent[e].loc, ent[e].lock, ent[e].info, ent[e].data,
                 w, ent[e].readers)
<1> DEFINE d == [ent[e] EXCEPT !.writer = w]
<1>1. ent[e] \in Entries
  BY EntryTypes
<1>2. d \in Entries
  BY <1>1 DEF Entries, Locations
<1>3. /\ d.loc = ent[e].loc /\ d.data = ent[e].data /\ d.size = ent[e].size
      /\ d.writer = w /\ d.readers = ent[e].readers
  BY <1>1 DEF Entries
<1>4. d.lock = ent[e].lock /\ d.info = ent[e].info
  BY <1>1 DEF Entries
<1>5. ent' = [ent EXCEPT ![e] = d]
  OBVIOUS
<1> HIDE DEF d
<1> QED
  BY <1>2, <1>3, <1>4, <1>5, EntUpdate DEF Changes, LInv

LEMMA AddReader ==
  ASSUME LInv, NEW e \in Entry, NEW p \in Proc, ent' = [ent EXCEPT ![e].readers = @ \cup {p}]
  PROVE  Changes(e, ent[e].loc, ent[e].lock, ent[e].info, ent[e].data,
                 ent[e].writer, ent[e].readers \cup {p})
<1> DEFINE d == [ent[e] EXCEPT !.readers = ent[e].readers \cup {p}]
<1>1. ent[e] \in Entries
  BY EntryTypes
<1>2. d \in Entries
  BY <1>1 DEF Entries, Locations
<1>3. /\ d.loc = ent[e].loc /\ d.data = ent[e].data /\ d.size = ent[e].size
      /\ d.writer = ent[e].writer /\ d.readers = ent[e].readers \cup {p}
  BY <1>1 DEF Entries
<1>4. d.lock = ent[e].lock /\ d.info = ent[e].info
  BY <1>1 DEF Entries
<1>5. ent' = [ent EXCEPT ![e] = d]
  OBVIOUS
<1> HIDE DEF d
<1> QED
  BY <1>2, <1>3, <1>4, <1>5, EntUpdate DEF Changes, LInv

LEMMA DropReader ==
  ASSUME LInv, NEW e \in Entry, NEW p \in Proc, ent' = [ent EXCEPT ![e].readers = @ \ {p}]
  PROVE  Changes(e, ent[e].loc, ent[e].lock, ent[e].info, ent[e].data,
                 ent[e].writer, ent[e].readers \ {p})
<1> DEFINE d == [ent[e] EXCEPT !.readers = ent[e].readers \ {p}]
<1>1. ent[e] \in Entries
  BY EntryTypes
<1>2. d \in Entries
  BY <1>1 DEF Entries, Locations
<1>3. /\ d.loc = ent[e].loc /\ d.data = ent[e].data /\ d.size = ent[e].size
      /\ d.writer = ent[e].writer /\ d.readers = ent[e].readers \ {p}
  BY <1>1 DEF Entries
<1>4. d.lock = ent[e].lock /\ d.info = ent[e].info
  BY <1>1 DEF Entries
<1>5. ent' = [ent EXCEPT ![e] = d]
  OBVIOUS
<1> HIDE DEF d
<1> QED
  BY <1>2, <1>3, <1>4, <1>5, EntUpdate DEF Changes, LInv

LEMMA Unlocks ==
  ASSUME LInv, NEW e \in Entry, ent' = Unlocked(e)
  PROVE  Locked(e, NoProc, ent[e].readers)
  BY SetWriter DEF Unlocked, Locked

-----------------------------------------------------------------------------
StoreBeginEffect(p, n) ==
    /\ proc[p].pc = "idle" /\ UNCHANGED <<clock, csize>>
    /\ proc' \in [Proc -> Locals] /\ \A q \in Proc \ {p} : proc'[q] = proc[q]
    /\ \E e \in Entry, s \in Nat :
          /\ ent[e].loc = "unborn"
          /\ ent' \in [Entry -> Entries] /\ \A f \in Entry \ {e} : ent'[f] = ent[f]
          /\ ent'[e].lock = TRUE /\ ent'[e].info = FALSE
          /\ ent'[e].data = "partial" /\ ent'[e].writer = p /\ ent'[e].readers = {}
          /\ ent'[e].size = s
          /\ proc'[p].own = e /\ proc'[p].fd = NoEntry
          /\ proc'[p].name = n /\ proc'[p].keep = FALSE
          /\ \/ proc'[p].pc = "fill" /\ ent'[e].loc = "anon"
             \/ proc'[p].pc = "stage" /\ ent'[e].loc = "stage"

LEMMA StoreBegins ==
  ASSUME LInv, NEW p \in Proc, NEW n \in Name, StoreBegin(p, n)
  PROVE  StoreBeginEffect(p, n)
<1> USE DEF StoreBeginEffect
<1>1. PICK e \in Entry, s \in EntrySize :
        /\ ent[e].loc = "unborn"
        /\ ent' = [ent EXCEPT ![e] = [Unborn EXCEPT
                      !.loc = IF p \in Compatible THEN "anon" ELSE "stage",
                      !.lock = TRUE, !.data = "partial", !.size = s,
                      !.atime = clock, !.writer = p]]
        /\ proc' = [proc EXCEPT ![p] = [Idle EXCEPT
                      !.pc = IF p \in Compatible THEN "fill" ELSE "stage",
                      !.name = n, !.own = e]]
  BY DEF StoreBegin
<1> DEFINE loc == IF p \in Compatible THEN "anon" ELSE "stage"
           pc == IF p \in Compatible THEN "fill" ELSE "stage"
           d == [Unborn EXCEPT !.loc = loc, !.lock = TRUE, !.data = "partial", !.size = s,
                      !.atime = clock, !.writer = p]
           r == [Idle EXCEPT !.pc = pc, !.name = n, !.own = e]
<1>2. clock \in Nat /\ s \in Nat
  BY Numbers DEF LInv, TypeOK
<1>3. /\ d \in Entries /\ d.loc = loc /\ d.lock = TRUE /\ d.info = FALSE
      /\ d.data = "partial" /\ d.writer = p /\ d.readers = {} /\ d.size = s
  BY <1>2 DEF Entries, Unborn, Locations
<1>4. /\ r \in Locals /\ r.pc = pc /\ r.own = e /\ r.fd = NoEntry /\ r.name = n
      /\ r.keep = FALSE
  BY DEF Idle, Locals, Labels, Paths, Errors
<1>5. ent' = [ent EXCEPT ![e] = d] /\ proc' = [proc EXCEPT ![p] = r]
  BY <1>1
<1> HIDE DEF d, r
<1>6. /\ ent' \in [Entry -> Entries] /\ ent'[e] = d
      /\ \A f \in Entry \ {e} : ent'[f] = ent[f]
  BY <1>3, <1>5, EntUpdate DEF LInv
<1>7. /\ proc' \in [Proc -> Locals] /\ proc'[p] = r
      /\ \A q \in Proc \ {p} : proc'[q] = proc[q]
  BY <1>4, <1>5, ProcUpdate DEF LInv
<1>8. proc[p].pc = "idle" /\ UNCHANGED <<clock, csize>>
  BY DEF StoreBegin, At
<1>9. \/ pc = "fill" /\ loc = "anon"
      \/ pc = "stage" /\ loc = "stage"
  OBVIOUS
<1> HIDE DEF pc, loc
<1>10. /\ ent'[e].lock = TRUE /\ ent'[e].info = FALSE /\ ent'[e].data = "partial"
       /\ ent'[e].writer = p /\ ent'[e].readers = {} /\ ent'[e].size = s
       /\ ent'[e].loc = loc
  BY <1>3, <1>6
<1>11. /\ proc'[p].pc = pc /\ proc'[p].own = e /\ proc'[p].fd = NoEntry
       /\ proc'[p].name = n /\ proc'[p].keep = FALSE
  BY <1>4, <1>7
<1> QED
  BY <1>1, <1>2, <1>6, <1>7, <1>8, <1>9, <1>10, <1>11

FillEffect(p) ==
    LET e == proc[p].own IN
    /\ proc[p].pc = "fill" /\ e \in Entry /\ UNCHANGED <<clock, csize>>
    /\ Files(e, ent[e].lock, ent[e].info, "whole")
    /\ GoesTo(p, "cleanup") \/ GoesTo(p, "account")

LEMMA Fills ==
  ASSUME LInv, NEW p \in Proc, Fill(p)
  PROVE  FillEffect(p)
<1> USE DEF FillEffect
<1> DEFINE e == proc[p].own
<1>1. proc[p].pc = "fill" /\ e \in Entry /\ UNCHANGED <<clock, csize>>
  BY Holds DEF Fill, At, Storing
<1>2. Files(e, ent[e].lock, ent[e].info, "whole")
  BY <1>1, SetData DEF Fill, Files
<1>3. Goto(p, "cleanup") \/ Goto(p, "account")
  BY DEF Fill
<1> QED
  BY <1>1, <1>2, <1>3, Goes DEF Labels

CopyFailsEffect(p) ==
    /\ proc[p].pc = "fill" /\ proc[p].own \in Entry
    /\ UNCHANGED <<ent, clock, csize>>
    /\ GoesTo(p, "cleanup")

LEMMA CopyFailing ==
  ASSUME LInv, NEW p \in Proc, CopyFails(p)
  PROVE  CopyFailsEffect(p)
<1> USE DEF CopyFailsEffect
<1>1. proc' = [proc EXCEPT ![p].pc = "cleanup", ![p].err = "caller"]
  BY DEF CopyFails, Raise
<1>2. GoesTo(p, "cleanup")
  BY <1>1, GoesFailing DEF Labels, Errors, GoesTo
<1> QED
  BY <1>2, Holds DEF CopyFails, At, Storing

AccountEffect(p) ==
    LET s == ent[proc[p].own].size IN
    /\ proc[p].pc = "account" /\ proc[p].own \in Entry /\ UNCHANGED <<ent, clock>>
    /\ \/ SizeAccept(csize, s) /\ csize' = SizeApply(csize, s) /\ GoesTo(p, "info")
       \/ csize' = csize /\ (GoesTo(p, "cleanup") \/ GoesTo(p, "list"))

LEMMA Accounts ==
  ASSUME LInv, NEW p \in Proc, Account(p)
  PROVE  AccountEffect(p)
<1> USE DEF AccountEffect
<1> DEFINE s == ent[proc[p].own].size
<1>1. \/ SizeAccept(csize, s) /\ csize' = SizeApply(csize, s) /\ Goto(p, "info")
      \/ csize' = csize /\ (Goto(p, "cleanup") \/ Goto(p, "list"))
  BY DEF Account
<1>2. \A l \in {"info", "cleanup", "list"} : Goto(p, l) => GoesTo(p, l)
  BY Goes DEF Labels
<1>3. proc[p].pc = "account" /\ proc[p].own \in Entry /\ UNCHANGED <<ent, clock>>
  BY Holds DEF Account, At, Storing
<1> HIDE DEF s
<1> QED
  BY <1>1, <1>2, <1>3 DEF s

WriteInfoEffect(p) ==
    LET e == proc[p].own IN
    /\ proc[p].pc = "info" /\ e \in Entry /\ UNCHANGED <<clock, csize>>
    /\ \/ Files(e, ent[e].lock, TRUE, ent[e].data) /\ GoesTo(p, "rename")
       \/ UNCHANGED ent /\ GoesTo(p, "undo")

LEMMA WritesInfo ==
  ASSUME LInv, NEW p \in Proc, WriteInfo(p)
  PROVE  WriteInfoEffect(p)
<1> USE DEF WriteInfoEffect
<1> DEFINE e == proc[p].own
<1>1. proc[p].pc = "info" /\ e \in Entry /\ UNCHANGED <<clock, csize>>
  BY Holds DEF WriteInfo, At, Storing
<1>2. CASE ent' = [ent EXCEPT ![e].info = TRUE] /\ Goto(p, "rename")
  <2>1. Files(e, ent[e].lock, TRUE, ent[e].data)
    BY <1>1, <1>2, SetInfoFile DEF Files
  <2> QED
    BY <1>1, <1>2, <2>1, Goes DEF Labels
<1>3. CASE UNCHANGED ent /\ proc' = [proc EXCEPT ![p].pc = "undo", ![p].err = "write"]
  <2>1. GoesTo(p, "undo")
    BY <1>3, GoesFailing DEF Labels, Errors, GoesTo
  <2> QED
    BY <1>1, <1>3, <2>1
<1> QED
  BY <1>2, <1>3 DEF WriteInfo

RenameEffect(p) ==
    LET e == proc[p].own
        n == proc[p].name
    IN /\ proc[p].pc = "rename" /\ e \in Entry /\ UNCHANGED <<clock, csize>>
       /\ Moves(p, "undo", proc[p].fd, proc[p].path, proc[p].space, TRUE)
       /\ \/ Taken(n) /\ UNCHANGED ent
          \/ /\ ~Taken(n)
             /\ ent' \in [Entry -> Entries]
             /\ \A f \in Entry :
                   /\ ent'[f].loc = IF f = e THEN n
                                    ELSE IF ent[f].loc = n THEN "gone" ELSE ent[f].loc
                   /\ ent'[f].lock = ent[f].lock /\ ent'[f].info = ent[f].info
                   /\ ent'[f].data = ent[f].data /\ ent'[f].size = ent[f].size
                   /\ ent'[f].writer = ent[f].writer
                   /\ ent'[f].readers = ent[f].readers

LEMMA Renames ==
  ASSUME LInv, NEW p \in Proc, Rename(p)
  PROVE  RenameEffect(p)
<1> USE DEF RenameEffect
<1> DEFINE e == proc[p].own
           n == proc[p].name
           loc(f) == IF f = e THEN n ELSE IF ent[f].loc = n THEN "gone" ELSE ent[f].loc
<1>1. proc[p].pc = "rename" /\ e \in Entry /\ UNCHANGED <<clock, csize>>
  BY Holds DEF Rename, At, Storing
<1>2. Moves(p, "undo", proc[p].fd, proc[p].path, proc[p].space, TRUE)
  BY GoesKeeping DEF Rename, Labels
<1>3. n \in Name
  BY <1>1 DEF LInv, Holding
<1>4. CASE Taken(n) /\ UNCHANGED ent
  BY <1>1, <1>2, <1>4
<1>5. CASE /\ ~Taken(n)
           /\ ent' = [f \in Entry |-> [ent[f] EXCEPT !.loc = loc(f)]]
  <2>1. ASSUME NEW f \in Entry
        PROVE  /\ ent'[f] = [ent[f] EXCEPT !.loc = loc(f)]
               /\ ent[f] \in Entries /\ loc(f) \in Locations
    <3>1. ent[f] \in Entries /\ ent[f].loc \in Locations
      BY EntryTypes DEF Entries
    <3> QED
      BY <1>3, <1>5, <3>1 DEF Locations
  <2> HIDE DEF loc
  <2>2. ASSUME NEW f \in Entry
        PROVE  /\ ent'[f] \in Entries /\ ent'[f].loc = loc(f)
               /\ ent'[f].data = ent[f].data /\ ent'[f].size = ent[f].size
               /\ ent'[f].writer = ent[f].writer /\ ent'[f].readers = ent[f].readers
    BY <2>1 DEF Entries
  <2>3. ASSUME NEW f \in Entry
        PROVE  ent'[f].lock = ent[f].lock /\ ent'[f].info = ent[f].info
    BY <2>1 DEF Entries
  <2>4. ent' \in [Entry -> Entries]
    BY <1>5, <2>2
  <2> QED
    BY <1>1, <1>2, <1>5, <2>2, <2>3, <2>4 DEF loc
<1> QED
  BY <1>4, <1>5 DEF Rename

UndoEffect(p) ==
    LET e == proc[p].own IN
    /\ proc[p].pc = "undo" /\ e \in Entry /\ UNCHANGED <<clock, csize>>
    /\ \/ /\ ent[e].loc = "anon" /\ Files(e, ent[e].lock, FALSE, ent[e].data)
          /\ GoesTo(p, "undoSize")
       \/ ent[e].loc # "anon" /\ UNCHANGED ent /\ GoesTo(p, "cleanup")

LEMMA Undoes ==
  ASSUME LInv, NEW p \in Proc, Undo(p)
  PROVE  UndoEffect(p)
<1> USE DEF UndoEffect
<1> DEFINE e == proc[p].own
<1>1. proc[p].pc = "undo" /\ e \in Entry /\ UNCHANGED <<clock, csize>>
  BY Holds DEF Undo, At, Committed
<1>2. ent' = [ent EXCEPT ![e].info = FALSE] => Files(e, ent[e].lock, FALSE, ent[e].data)
  BY <1>1, SetInfoFile DEF Files
<1>3. \A l \in {"undoSize", "cleanup"} : Goto(p, l) => GoesTo(p, l)
  BY Goes DEF Labels
<1>4. \/ /\ ent[e].loc = "anon" /\ ent' = [ent EXCEPT ![e].info = FALSE]
         /\ Goto(p, "undoSize")
      \/ ent[e].loc # "anon" /\ Goto(p, "cleanup") /\ UNCHANGED ent
  BY DEF Undo
<1> HIDE DEF e
<1> QED
  BY <1>1, <1>2, <1>3, <1>4 DEF e

UndoSizeEffect(p) ==
    /\ proc[p].pc = "undoSize" /\ proc[p].own \in Entry /\ UNCHANGED <<ent, clock>>
    /\ csize' = SizeApply(csize, -ent[proc[p].own].size)
    /\ GoesTo(p, "cleanup")

LEMMA UndoesSize ==
  ASSUME LInv, NEW p \in Proc, UndoSize(p)
  PROVE  UndoSizeEffect(p)
  BY Holds, Goes DEF UndoSizeEffect, UndoSize, At, Committed, Labels

CleanupEffect(p) ==
    LET e == proc[p].own IN
    /\ proc[p].pc = "cleanup" /\ e \in Entry /\ UNCHANGED <<clock, csize>>
    /\ GoesTo(p, "unlock")
    /\ \/ (proc[p].keep \/ ent[e].loc # "anon") /\ UNCHANGED ent
       \/ /\ ~proc[p].keep /\ ent[e].loc = "anon"
          /\ Changes(e, "gone", FALSE, FALSE, "none", ent[e].writer, ent[e].readers)

LEMMA CleansUp ==
  ASSUME LInv, NEW p \in Proc, Cleanup(p)
  PROVE  CleanupEffect(p)
<1> USE DEF CleanupEffect
<1> DEFINE e == proc[p].own
           d == [ent[e] EXCEPT !.loc = "gone", !.lock = FALSE, !.info = FALSE,
                               !.data = "none"]
<1>1. proc[p].pc = "cleanup" /\ e \in Entry /\ UNCHANGED <<clock, csize>>
  BY Holds DEF Cleanup, At, Committed
<1>2. GoesTo(p, "unlock")
  BY Goes DEF Cleanup, Labels
<1>3. CASE proc[p].keep \/ ent[e].loc # "anon"
  BY <1>1, <1>2, <1>3 DEF Cleanup
<1>4. CASE ~(proc[p].keep \/ ent[e].loc # "anon")
  <2>1. ent[e] \in Entries
    BY <1>1, EntryTypes
  <2>2. /\ d \in Entries /\ d.loc = "gone" /\ d.data = "none" /\ d.size = ent[e].size
        /\ d.writer = ent[e].writer /\ d.readers = ent[e].readers
    BY <2>1 DEF Entries, Locations
  <2>3. d.lock = FALSE /\ d.info = FALSE
    BY <2>1 DEF Entries
  <2>4. ent' = [ent EXCEPT ![e] = d]
    BY <1>4 DEF Cleanup
  <2> HIDE DEF d
  <2>5. Changes(e, "gone", FALSE, FALSE, "none", ent[e].writer, ent[e].readers)
    BY <1>1, <2>2, <2>3, <2>4, EntUpdate DEF Changes, LInv
  <2> QED
    BY <1>1, <1>2, <1>4, <2>5
<1> QED
  BY <1>3, <1>4

StoreEndEffect(p) ==
    LET e == proc[p].own IN
    /\ proc[p].pc = "unlock" /\ e \in Entry /\ UNCHANGED <<clock, csize>>
    /\ Locked(e, NoProc, ent[e].readers) /\ Ends(p)

LEMMA StoreEnds ==
  ASSUME LInv, NEW p \in Proc, StoreEnd(p)
  PROVE  StoreEndEffect(p)
<1> USE DEF StoreEndEffect
<1>1. proc[p].pc = "unlock" /\ proc[p].own \in Entry /\ UNCHANGED <<clock, csize>>
  BY Holds DEF StoreEnd, At, Committed
<1>2. proc[p].err \in Errors
  BY Holds DEF Locals
<1> QED
  BY <1>1, <1>2, Unlocks, GoesIdle DEF StoreEnd

StageEndEffect(p) ==
    LET e == proc[p].own IN
    /\ proc[p].pc = "stage" /\ e \in Entry /\ UNCHANGED <<clock, csize>>
    /\ Ends(p)
    /\ ent' \in [Entry -> Entries] /\ \A f \in Entry \ {e} : ent'[f] = ent[f]
    /\ ent'[e].loc = "gone" /\ ent'[e].writer = NoProc /\ ent'[e].readers = {}

LEMMA StageEnds ==
  ASSUME LInv, NEW p \in Proc, StageEnd(p)
  PROVE  StageEndEffect(p)
<1> USE DEF StageEndEffect
<1> DEFINE e == proc[p].own
           d == [Unborn EXCEPT !.loc = "gone"]
<1>1. proc[p].pc = "stage" /\ e \in Entry /\ UNCHANGED <<clock, csize>>
  BY Holds DEF StageEnd, At
<1>2. d \in Entries /\ d.loc = "gone" /\ d.writer = NoProc /\ d.readers = {}
  BY DEF Unborn, Entries, Locations
<1>3. ent' = [ent EXCEPT ![e] = d] /\ Ends(p)
  BY GoesNowhere DEF StageEnd
<1> HIDE DEF d
<1> QED
  BY <1>1, <1>2, <1>3, EntUpdate DEF LInv

ListEffect(p) ==
    /\ proc[p].pc = "list" /\ proc[p].own \in Entry /\ UNCHANGED <<ent, clock, csize>>
    /\ GoesTo(p, "pick")

LEMMA Lists ==
  ASSUME LInv, NEW p \in Proc, List(p)
  PROVE  ListEffect(p)
<1> USE DEF ListEffect
<1> DEFINE t == {[path |-> PathOf(e), last |-> ent[e].atime] :
                    e \in {x \in Entry : InObjects(x) /\ ent[x].lock}}
<1>1. ASSUME NEW e \in Entry, InObjects(e)
      PROVE  PathOf(e) \in Paths /\ ent[e].atime \in Nat
  <2>1. ent[e].atime \in Nat
    BY EntryTypes DEF Entries
  <2> QED
    BY <1>1, <2>1 DEF PathOf, InObjects, Paths
<1>2. t \in SUBSET [path : Paths, last : Nat]
  BY <1>1
<1>3. proc' = [proc EXCEPT ![p].pc = "pick", ![p].tried = TRUE, ![p].freed = 0,
                           ![p].todo = t]
  BY DEF List
<1> HIDE DEF t
<1>4. GoesTo(p, "pick")
  BY <1>2, <1>3, GoesListing DEF GoesTo, Labels
<1> QED
  BY <1>4, Holds DEF List, At, Storing

PickEffect(p) ==
    /\ proc[p].pc = "pick" /\ proc[p].own \in Entry /\ UNCHANGED <<ent, clock, csize>>
    /\ \/ \E path \in Paths :
             Moves(p, "evOpen", proc[p].fd, path, proc[p].space, proc[p].keep)
       \/ GoesTo(p, "account")

LEMMA Picks ==
  ASSUME LInv, NEW p \in Proc, Pick(p)
  PROVE  PickEffect(p)
<1> USE DEF PickEffect
<1>1. proc[p].pc = "pick" /\ proc[p].own \in Entry /\ UNCHANGED <<ent, clock, csize>>
  BY Holds DEF Pick, At, Storing, Evicting
<1>2. CASE \E x \in proc[p].todo :
             proc' = [proc EXCEPT ![p].pc = "evOpen", ![p].path = x.path,
                                  ![p].last = x.last, ![p].todo = @ \ {x}]
  <2>1. PICK x \in proc[p].todo :
          proc' = [proc EXCEPT ![p].pc = "evOpen", ![p].path = x.path,
                               ![p].last = x.last, ![p].todo = proc[p].todo \ {x}]
    BY <1>2
  <2>2. proc[p].todo \in SUBSET [path : Paths, last : Nat]
    BY Holds DEF Locals
  <2>3. /\ x \in [path : Paths, last : Nat] /\ x.path \in Paths
        /\ proc[p].todo \ {x} \in SUBSET [path : Paths, last : Nat]
    BY <2>2
  <2>4. Moves(p, "evOpen", proc[p].fd, x.path, proc[p].space, proc[p].keep)
    BY <2>1, <2>3, GoesPicking DEF Labels
  <2> QED
    BY <1>1, <2>3, <2>4
<1>3. CASE Goto(p, "account")
  BY <1>1, <1>3, Goes DEF Labels
<1> QED
  BY <1>2, <1>3 DEF Pick

EvictOpenEffect(p) ==
    /\ proc[p].pc = "evOpen" /\ proc[p].own \in Entry
    /\ UNCHANGED <<ent, clock, csize>>
    /\ \/ \E e \in Entry :
            /\ Opens(proc[p].path, e)
            /\ Moves(p, "evLock", e, proc[p].path, proc[p].space, proc[p].keep)
       \/ GoesTo(p, "cleanup")

LEMMA EvictOpens ==
  ASSUME LInv, NEW p \in Proc, EvictOpen(p)
  PROVE  EvictOpenEffect(p)
<1> USE DEF EvictOpenEffect
<1>1. /\ proc[p].pc = "evOpen" /\ proc[p].own \in Entry
      /\ UNCHANGED <<ent, clock, csize>>
  BY Holds DEF EvictOpen, At, Storing, Evicting
<1>2. CASE \E e \in Entry : /\ Opens(proc[p].path, e)
                            /\ proc' = [proc EXCEPT ![p].pc = "evLock", ![p].fd = e]
  BY <1>1, <1>2, GoesWith DEF Labels
<1>3. CASE Raise(p, "ENOENT")
  <2>1. proc' = [proc EXCEPT ![p].pc = "cleanup", ![p].err = "ENOENT"]
    BY <1>3 DEF Raise
  <2> QED
    BY <1>1, <2>1, GoesFailing DEF Labels, Errors, GoesTo
<1> QED
  BY <1>2, <1>3 DEF EvictOpen

EvictLockEffect(p) ==
    LET e == proc[p].fd IN
    /\ proc[p].pc = "evLock" /\ proc[p].own \in Entry /\ e \in Entry
    /\ UNCHANGED <<clock, csize>>
    /\ \/ /\ ent[e].writer = NoProc /\ ent[e].readers = {}
          /\ Locked(e, p, ent[e].readers) /\ GoesTo(p, "evVerify")
       \/ /\ UNCHANGED ent
          /\ Moves(p, "pick", NoEntry, proc[p].path, proc[p].space, proc[p].keep)

LEMMA EvictLocks ==
  ASSUME LInv, NEW p \in Proc, EvictLock(p)
  PROVE  EvictLockEffect(p)
<1> USE DEF EvictLockEffect
<1> DEFINE e == proc[p].fd
<1>1. /\ proc[p].pc = "evLock" /\ proc[p].own \in Entry /\ e \in Entry
      /\ UNCHANGED <<clock, csize>>
  BY Holds DEF EvictLock, At, Storing, Evicting
<1>2. CASE WriteLockable(e) /\ ent' = [ent EXCEPT ![e].writer = p] /\ Goto(p, "evVerify")
  <2>1. Locked(e, p, ent[e].readers)
    BY <1>1, <1>2, SetWriter DEF Locked
  <2> QED
    BY <1>1, <1>2, <2>1, Goes DEF Labels, WriteLockable
<1>3. CASE UNCHANGED ent /\ proc' = [proc EXCEPT ![p].pc = "pick", ![p].fd = NoEntry]
  BY <1>1, <1>3, GoesWith DEF Labels
<1> QED
  BY <1>2, <1>3 DEF EvictLock

\* What _calculate_space may say.
LEMMA Spaces ==
  ASSUME LInv, NEW e \in Entry
  PROVE  /\ Space(e) \subseteq Nat
         /\ \A s \in Space(e) : s <= ent[e].size + Overhead
<1>1. /\ ent[e].size \in Nat /\ ent[e].data \in {"none", "partial", "whole"}
      /\ Overhead \in Nat
  BY EntryTypes, Numbers DEF Entries
<1>2. Space(e) = IF ent[e].data = "whole" THEN {ent[e].size + Overhead}
                 ELSE IF ent[e].data = "partial"
                      THEN Overhead .. (ent[e].size + Overhead)
                      ELSE {Overhead}
  BY <1>1 DEF Space
<1> QED
  BY <1>1, <1>2

EvictVerifyEffect(p) ==
    LET e == proc[p].fd IN
    /\ proc[p].pc = "evVerify" /\ proc[p].own \in Entry /\ e \in Entry
    /\ UNCHANGED <<clock, csize>>
    /\ \/ \E l \in {"evOpen", "pick"} :
            /\ Locked(e, NoProc, ent[e].readers)
            /\ Moves(p, l, NoEntry, proc[p].path, proc[p].space, proc[p].keep)
       \/ /\ Opens(proc[p].path, e) /\ UNCHANGED ent
          /\ \E s \in Space(e) :
                Moves(p, "rmInfo", proc[p].fd, proc[p].path, s, proc[p].keep)

LEMMA EvictVerifies ==
  ASSUME LInv, NEW p \in Proc, EvictVerify(p)
  PROVE  EvictVerifyEffect(p)
<1> USE DEF EvictVerifyEffect
<1> DEFINE e == proc[p].fd
<1>1. /\ proc[p].pc = "evVerify" /\ proc[p].own \in Entry /\ e \in Entry
      /\ UNCHANGED <<clock, csize>>
  BY Holds DEF EvictVerify, At, Storing, Evicting, EvictLocked
<1>2. CASE \E l \in {"evOpen", "pick"} :
             /\ ent' = Unlocked(e)
             /\ proc' = [proc EXCEPT ![p].pc = l, ![p].fd = NoEntry]
  <2>1. PICK l \in {"evOpen", "pick"} :
             /\ ent' = Unlocked(e)
             /\ proc' = [proc EXCEPT ![p].pc = l, ![p].fd = NoEntry]
    BY <1>2
  <2>2. Locked(e, NoProc, ent[e].readers)
    BY <1>1, <2>1, Unlocks
  <2>3. Moves(p, l, NoEntry, proc[p].path, proc[p].space, proc[p].keep)
    BY <2>1, GoesWith DEF Labels
  <2> QED
    BY <1>1, <2>2, <2>3
<1>3. CASE /\ Current(p, proc[p].path) /\ UNCHANGED ent
           /\ \E s \in Space(e) :
                 proc' = [proc EXCEPT ![p].pc = "rmInfo", ![p].space = s]
  <2>1. PICK s \in Space(e) : proc' = [proc EXCEPT ![p].pc = "rmInfo", ![p].space = s]
    BY <1>3
  <2>2. s \in Nat
    BY <1>1, Spaces
  <2>3. Moves(p, "rmInfo", proc[p].fd, proc[p].path, s, proc[p].keep)
    BY <2>1, <2>2, GoesSized DEF Labels
  <2> QED
    BY <1>1, <1>3, <2>3 DEF Current
<1> QED
  BY <1>2, <1>3 DEF EvictVerify

RmInfoEffect(p) ==
    LET e == proc[p].fd IN
    /\ proc[p].pc = "rmInfo" /\ proc[p].own \in Entry /\ e \in Entry
    /\ UNCHANGED <<clock, csize>>
    /\ Files(e, ent[e].lock, FALSE, ent[e].data) /\ GoesTo(p, "rmData")

LEMMA RemovesInfo ==
  ASSUME LInv, NEW p \in Proc, RmInfo(p)
  PROVE  RmInfoEffect(p)
<1> USE DEF RmInfoEffect
<1>1. /\ proc[p].pc = "rmInfo" /\ proc[p].own \in Entry /\ proc[p].fd \in Entry
      /\ UNCHANGED <<clock, csize>>
  BY Holds DEF RmInfo, At, Storing, Evicting, EvictLocked
<1>2. GoesTo(p, "rmData")
  BY Goes DEF RmInfo, Labels
<1> QED
  BY <1>1, <1>2, SetInfoFile DEF RmInfo, Files

RmDataEffect(p) ==
    LET e == proc[p].fd IN
    /\ proc[p].pc = "rmData" /\ proc[p].own \in Entry /\ e \in Entry
    /\ UNCHANGED <<clock, csize>>
    /\ \/ /\ ent[e].data = "whole" /\ Files(e, ent[e].lock, ent[e].info, "partial")
          /\ GoesTo(p, "rmData")
       \/ /\ ent[e].data # "whole" /\ Files(e, ent[e].lock, ent[e].info, "none")
          /\ GoesTo(p, "rmLock")

LEMMA RemovesData ==
  ASSUME LInv, NEW p \in Proc, RmData(p)
  PROVE  RmDataEffect(p)
<1> USE DEF RmDataEffect
<1> DEFINE e == proc[p].fd
<1>1. /\ proc[p].pc = "rmData" /\ proc[p].own \in Entry /\ e \in Entry
      /\ UNCHANGED <<clock, csize>>
  BY Holds DEF RmData, At, Storing, Evicting, EvictLocked
<1>2. CASE /\ ent[e].data = "whole" /\ ent' = [ent EXCEPT ![e].data = "partial"]
           /\ UNCHANGED proc
  <2>1. GoesTo(p, "rmData")
    BY <1>1, <1>2 DEF GoesTo, Moves, LInv, TypeOK
  <2>2. Files(e, ent[e].lock, ent[e].info, "partial")
    BY <1>1, <1>2, SetData DEF Files
  <2> QED
    BY <1>1, <1>2, <2>1, <2>2
<1>3. CASE /\ ent[e].data # "whole" /\ ent' = [ent EXCEPT ![e].data = "none"]
           /\ Goto(p, "rmLock")
  <2>1. GoesTo(p, "rmLock")
    BY <1>3, Goes DEF Labels
  <2>2. Files(e, ent[e].lock, ent[e].info, "none")
    BY <1>1, <1>3, SetData DEF Files
  <2> QED
    BY <1>1, <1>3, <2>1, <2>2
<1> QED
  BY <1>2, <1>3 DEF RmData

RmLockEffect(p) ==
    LET e == proc[p].fd IN
    /\ proc[p].pc = "rmLock" /\ proc[p].own \in Entry /\ e \in Entry
    /\ UNCHANGED <<clock, csize>>
    /\ Files(e, FALSE, ent[e].info, ent[e].data) /\ GoesTo(p, "rmDir")

LEMMA RemovesLock ==
  ASSUME LInv, NEW p \in Proc, RmLock(p)
  PROVE  RmLockEffect(p)
<1> USE DEF RmLockEffect
<1>1. /\ proc[p].pc = "rmLock" /\ proc[p].own \in Entry /\ proc[p].fd \in Entry
      /\ UNCHANGED <<clock, csize>>
  BY Holds DEF RmLock, At, Storing, Evicting, EvictLocked
<1>2. GoesTo(p, "rmDir")
  BY Goes DEF RmLock, Labels
<1> QED
  BY <1>1, <1>2, SetLockFile DEF RmLock, Files

RmDirEffect(p) ==
    /\ proc[p].pc = "rmDir" /\ proc[p].own \in Entry /\ proc[p].fd \in Entry
    /\ UNCHANGED <<clock, csize>>
    /\ \/ \E e \in Entry :
            /\ InObjects(e) /\ PathOf(e) = proc[p].path /\ Empty(e)
            /\ Changes(e, "gone", ent[e].lock, ent[e].info, ent[e].data,
                       ent[e].writer, ent[e].readers)
            /\ GoesTo(p, "deaccount")
       \/ /\ \A e \in Entry : ~(InObjects(e) /\ PathOf(e) = proc[p].path)
          /\ UNCHANGED ent /\ GoesTo(p, "deaccount")
       \/ /\ \E e \in Entry : InObjects(e) /\ PathOf(e) = proc[p].path /\ ~Empty(e)
          /\ Locked(proc[p].fd, NoProc, ent[proc[p].fd].readers)
          /\ Moves(p, "cleanup", NoEntry, proc[p].path, proc[p].space, proc[p].keep)
          /\ proc'[p].err = "ENOTEMPTY"

LEMMA RemovesDir ==
  ASSUME LInv, NEW p \in Proc, RmDir(p)
  PROVE  RmDirEffect(p)
<1> USE DEF RmDirEffect
<1>1. /\ proc[p].pc = "rmDir" /\ proc[p].own \in Entry /\ proc[p].fd \in Entry
      /\ UNCHANGED <<clock, csize>>
  BY Holds DEF RmDir, At, Storing, Evicting, EvictLocked
<1>2. CASE /\ \E e \in Entry : /\ InObjects(e) /\ PathOf(e) = proc[p].path /\ Empty(e)
                               /\ ent' = [ent EXCEPT ![e].loc = "gone"]
           /\ Goto(p, "deaccount")
  <2>1. PICK e \in Entry : /\ InObjects(e) /\ PathOf(e) = proc[p].path /\ Empty(e)
                           /\ ent' = [ent EXCEPT ![e].loc = "gone"]
    BY <1>2
  <2>2. Changes(e, "gone", ent[e].lock, ent[e].info, ent[e].data, ent[e].writer,
                ent[e].readers)
    BY <2>1, SetLoc DEF Locations
  <2>3. GoesTo(p, "deaccount")
    BY <1>2, Goes DEF Labels
  <2> QED
    BY <1>1, <2>1, <2>2, <2>3
<1>3. CASE /\ \A e \in Entry : ~(InObjects(e) /\ PathOf(e) = proc[p].path)
           /\ Goto(p, "deaccount") /\ UNCHANGED ent
  BY <1>1, <1>3, Goes DEF Labels
<1>4. CASE /\ \E e \in Entry : InObjects(e) /\ PathOf(e) = proc[p].path /\ ~Empty(e)
           /\ ent' = Unlocked(proc[p].fd)
           /\ proc' = [proc EXCEPT ![p].pc = "cleanup", ![p].fd = NoEntry,
                                   ![p].err = "ENOTEMPTY"]
  <2>1. Locked(proc[p].fd, NoProc, ent[proc[p].fd].readers)
    BY <1>1, <1>4, Unlocks
  <2>2. Moves(p, "cleanup", NoEntry, proc[p].path, proc[p].space, proc[p].keep)
    BY <1>4, GoesFailingWith DEF Labels, Errors
  <2>3. proc'[p].err = "ENOTEMPTY"
    BY <1>4, Holds DEF Locals, LInv, TypeOK
  <2> QED
    BY <1>1, <1>4, <2>1, <2>2, <2>3
<1> QED
  BY <1>2, <1>3, <1>4 DEF RmDir

DeaccountEffect(p) ==
    /\ proc[p].pc = "deaccount" /\ proc[p].own \in Entry /\ proc[p].fd \in Entry
    /\ UNCHANGED <<ent, clock>>
    /\ csize' = SizeApply(csize, -proc[p].space)
    /\ GoesTo(p, "evRelease")

LEMMA Deaccounts ==
  ASSUME LInv, NEW p \in Proc, Deaccount(p)
  PROVE  DeaccountEffect(p)
<1> USE DEF DeaccountEffect
<1>1. proc[p].freed + proc[p].space \in Nat
  <2>1. proc[p] \in Locals
    BY Holds
  <2>2. proc[p].freed \in Nat /\ proc[p].space \in Nat
    BY <2>1 DEF Locals
  <2> QED
    BY <2>2
<1>2. proc' = [proc EXCEPT ![p].pc = "evRelease",
                           ![p].freed = proc[p].freed + proc[p].space]
  BY DEF Deaccount
<1>3. GoesTo(p, "evRelease")
  BY <1>1, <1>2, GoesFreed DEF GoesTo, Labels
<1> QED
  BY <1>3, Holds DEF Deaccount, At, Storing, Evicting, EvictLocked

EvictReleaseEffect(p) ==
    LET e == proc[p].fd IN
    /\ proc[p].pc = "evRelease" /\ proc[p].own \in Entry /\ e \in Entry
    /\ UNCHANGED <<clock, csize>>
    /\ Locked(e, NoProc, ent[e].readers)
    /\ \E l \in {"account", "pick"} :
          Moves(p, l, NoEntry, proc[p].path, proc[p].space, proc[p].keep)

LEMMA EvictReleases ==
  ASSUME LInv, NEW p \in Proc, EvictRelease(p)
  PROVE  EvictReleaseEffect(p)
<1> USE DEF EvictReleaseEffect
<1>1. /\ proc[p].pc = "evRelease" /\ proc[p].own \in Entry /\ proc[p].fd \in Entry
      /\ UNCHANGED <<clock, csize>>
  BY Holds DEF EvictRelease, At, Storing, Evicting, EvictLocked
<1>2. PICK l \in {"account", "pick"} :
        proc' = [proc EXCEPT ![p].pc = l, ![p].fd = NoEntry]
  BY DEF EvictRelease
<1>3. Moves(p, l, NoEntry, proc[p].path, proc[p].space, proc[p].keep)
  BY <1>2, GoesWith DEF Labels
<1> QED
  BY <1>1, <1>3, Unlocks DEF EvictRelease

LoadBeginEffect(p, n) ==
    /\ proc[p].pc = "idle" /\ UNCHANGED <<ent, clock, csize>>
    /\ proc' \in [Proc -> Locals] /\ \A q \in Proc \ {p} : proc'[q] = proc[q]
    /\ proc'[p].pc \in {"idle", "ldOpen"} /\ proc'[p].own = NoEntry
    /\ proc'[p].fd = NoEntry /\ proc'[p].name = n /\ proc'[p].keep = FALSE

LEMMA LoadBegins ==
  ASSUME LInv, NEW p \in Proc, NEW n \in Name, LoadBegin(p, n)
  PROVE  LoadBeginEffect(p, n)
<1> USE DEF LoadBeginEffect
<1> DEFINE pc == IF p \in Compatible THEN "ldOpen" ELSE "idle"
           x == IF p \in Compatible THEN "none" ELSE "Miss"
           r == [Idle EXCEPT !.pc = pc, !.name = n, !.err = x]
<1>1. pc \in {"idle", "ldOpen"} /\ x \in Errors
  BY DEF Errors
<1>2. proc' = [proc EXCEPT ![p] = r]
  BY DEF LoadBegin
<1> HIDE DEF pc, x
<1>3. /\ r \in Locals /\ r.pc = pc /\ r.own = NoEntry /\ r.fd = NoEntry /\ r.name = n
      /\ r.keep = FALSE
  BY <1>1 DEF Idle, Locals, Labels, Paths
<1> HIDE DEF r
<1> QED
  BY <1>1, <1>2, <1>3, ProcUpdate DEF LoadBegin, At, LInv

LEMMA Misses ==
  ASSUME LInv, NEW p \in Proc, Miss(p)
  PROVE  Ends(p)
  BY GoesIdle DEF Miss, Errors

LoadOpenEffect(p) ==
    /\ proc[p].pc = "ldOpen" /\ UNCHANGED <<ent, clock, csize>>
    /\ \/ \E e \in Entry :
            /\ Opens(proc[p].name, e)
            /\ Moves(p, "ldLock", e, proc[p].path, proc[p].space, proc[p].keep)
       \/ Ends(p)

LEMMA LoadOpens ==
  ASSUME LInv, NEW p \in Proc, LoadOpen(p)
  PROVE  LoadOpenEffect(p)
<1> USE DEF LoadOpenEffect
<1>1. proc[p].pc = "ldOpen" /\ UNCHANGED <<ent, clock, csize>>
  BY DEF LoadOpen, At
<1>2. CASE \E e \in Entry : /\ Opens(proc[p].name, e)
                            /\ proc' = [proc EXCEPT ![p].pc = "ldLock", ![p].fd = e]
  BY <1>1, <1>2, GoesWith DEF Labels
<1>3. CASE Miss(p)
  BY <1>1, <1>3, Misses
<1> QED
  BY <1>2, <1>3 DEF LoadOpen

LoadLockEffect(p) ==
    LET e == proc[p].fd IN
    /\ proc[p].pc = "ldLock" /\ e \in Entry /\ UNCHANGED <<clock, csize>>
    /\ \/ /\ ent[e].writer = NoProc
          /\ Locked(e, ent[e].writer, ent[e].readers \cup {p})
          /\ GoesTo(p, "ldVerify")
       \/ UNCHANGED ent /\ Ends(p)

LEMMA LoadLocks ==
  ASSUME LInv, NEW p \in Proc, LoadLock(p)
  PROVE  LoadLockEffect(p)
<1> USE DEF LoadLockEffect
<1> DEFINE e == proc[p].fd
<1>1. proc[p].pc = "ldLock" /\ e \in Entry /\ UNCHANGED <<clock, csize>>
  BY Holds DEF LoadLock, At
<1>2. CASE /\ ent[e].writer = NoProc /\ ent' = [ent EXCEPT ![e].readers = @ \cup {p}]
           /\ Goto(p, "ldVerify")
  <2>1. Locked(e, ent[e].writer, ent[e].readers \cup {p})
    BY <1>1, <1>2, AddReader DEF Locked
  <2> QED
    BY <1>1, <1>2, <2>1, Goes DEF Labels
<1>3. CASE Miss(p) /\ UNCHANGED ent
  BY <1>1, <1>3, Misses
<1> QED
  BY <1>2, <1>3 DEF LoadLock

LoadVerifyEffect(p) ==
    LET e == proc[p].fd IN
    /\ proc[p].pc = "ldVerify" /\ e \in Entry /\ UNCHANGED <<clock, csize>>
    /\ \/ /\ Opens(proc[p].name, e)
          /\ Locked(e, ent[e].writer, ent[e].readers) /\ GoesTo(p, "using")
       \/ /\ Locked(e, ent[e].writer, ent[e].readers \ {p})
          /\ Moves(p, "ldOpen", NoEntry, proc[p].path, proc[p].space, proc[p].keep)

LEMMA LoadVerifies ==
  ASSUME LInv, NEW p \in Proc, LoadVerify(p)
  PROVE  LoadVerifyEffect(p)
<1> USE DEF LoadVerifyEffect
<1> DEFINE e == proc[p].fd
<1>1. proc[p].pc = "ldVerify" /\ e \in Entry /\ UNCHANGED <<clock, csize>>
  BY Holds DEF LoadVerify, At
<1>2. CASE /\ Current(p, proc[p].name) /\ ent' = [ent EXCEPT ![e].atime = clock]
           /\ Goto(p, "using")
  <2>1. clock \in Nat
    BY Numbers DEF LInv, TypeOK
  <2>2. Locked(e, ent[e].writer, ent[e].readers)
    BY <1>1, <1>2, <2>1, SetAccessTime DEF Locked
  <2> QED
    BY <1>1, <1>2, <2>2, Goes DEF Labels, Current
<1>3. CASE /\ ent' = [ent EXCEPT ![e].readers = @ \ {p}]
           /\ proc' = [proc EXCEPT ![p].pc = "ldOpen", ![p].fd = NoEntry]
  <2>1. Locked(e, ent[e].writer, ent[e].readers \ {p})
    BY <1>1, <1>3, DropReader DEF Locked
  <2>2. Moves(p, "ldOpen", NoEntry, proc[p].path, proc[p].space, proc[p].keep)
    BY <1>3, GoesWith DEF Labels
  <2> QED
    BY <1>1, <2>1, <2>2
<1> QED
  BY <1>2, <1>3 DEF LoadVerify

LoadEndEffect(p) ==
    LET e == proc[p].fd IN
    /\ proc[p].pc = "using" /\ e \in Entry /\ UNCHANGED <<clock, csize>>
    /\ Locked(e, ent[e].writer, ent[e].readers \ {p}) /\ Ends(p)

LEMMA LoadEnds ==
  ASSUME LInv, NEW p \in Proc, LoadEnd(p)
  PROVE  LoadEndEffect(p)
<1> USE DEF LoadEndEffect
<1>1. proc[p].pc = "using" /\ proc[p].fd \in Entry /\ UNCHANGED <<clock, csize>>
  BY Holds DEF LoadEnd, At
<1> QED
  BY <1>1, DropReader, GoesNowhere DEF LoadEnd, Locked

CrashEffect(p) ==
    /\ MayCrash /\ UNCHANGED <<clock, csize>> /\ Ends(p)
    /\ ent' \in [Entry -> Entries]
    /\ \A e \in Entry :
          /\ ent'[e].loc = ent[e].loc /\ ent'[e].lock = ent[e].lock
          /\ ent'[e].info = ent[e].info /\ ent'[e].data = ent[e].data
          /\ ent'[e].writer = IF ent[e].writer = p THEN NoProc ELSE ent[e].writer
          /\ ent'[e].readers = ent[e].readers \ {p}
          /\ ent'[e].size = ent[e].size

LEMMA Crashes ==
  ASSUME LInv, NEW p \in Proc, Crash(p)
  PROVE  CrashEffect(p)
<1> USE DEF CrashEffect
<1> DEFINE writer(e) == IF ent[e].writer = p THEN NoProc ELSE ent[e].writer
           d(e) == [ent[e] EXCEPT !.writer = writer(e), !.readers = ent[e].readers \ {p}]
<1>1. ent' = [e \in Entry |-> d(e)]
  BY DEF Crash
<1>2. ASSUME NEW e \in Entry
      PROVE  ent[e] \in Entries /\ writer(e) \in Proc \cup {NoProc}
  <2>1. ent[e] \in Entries
    BY EntryTypes
  <2> QED
    BY <2>1 DEF Entries
<1> HIDE DEF writer
<1>3. ASSUME NEW e \in Entry
      PROVE  /\ d(e) \in Entries /\ d(e).loc = ent[e].loc /\ d(e).data = ent[e].data
             /\ d(e).writer = writer(e) /\ d(e).readers = ent[e].readers \ {p}
  <2>1. ent[e] \in Entries /\ writer(e) \in Proc \cup {NoProc}
    BY <1>2
  <2> QED
    BY <2>1 DEF Entries
<1>4. ASSUME NEW e \in Entry
      PROVE  /\ d(e).lock = ent[e].lock /\ d(e).info = ent[e].info
             /\ d(e).size = ent[e].size
  <2>1. ent[e] \in Entries
    BY <1>2
  <2> QED
    BY <2>1 DEF Entries
<1>5. Ends(p) /\ MayCrash /\ UNCHANGED <<clock, csize>>
  BY GoesNowhere DEF Crash
<1> HIDE DEF d
<1> QED
  BY <1>1, <1>3, <1>4, <1>5 DEF writer

-----------------------------------------------------------------------------
LEMMA LInvStep == LInv /\ [Next]_vars => LInv'
<1> SUFFICES ASSUME LInv, [Next]_vars PROVE LInv'
  OBVIOUS
<1>0. TypeOK /\ Holding /\ Locking /\ Placing
  BY DEF LInv
<1> USE DEF GoesTo, Moves, Ends, Files, Locked, Changes
<1> USE DEF Evicting, EvictLocked, Storing, Committed
<1>1. ASSUME NEW p \in Proc, NEW n \in Name, StoreBegin(p, n) PROVE LInv'
  <2>0. StoreBeginEffect(p, n)
    BY <1>1, StoreBegins
  <2>e. PICK e \in Entry :
            /\ ent[e].loc = "unborn" /\ ent'[e].lock
            /\ \A f \in Entry \ {e} : ent'[f] = ent[f]
            /\ ent'[e].writer = p /\ ent'[e].readers = {}
            /\ proc'[p].own = e /\ proc'[p].fd = NoEntry
            /\ \/ proc'[p].pc = "fill" /\ ent'[e].loc = "anon"
               \/ proc'[p].pc = "stage" /\ ent'[e].loc = "stage"
    BY <2>0 DEF StoreBeginEffect
  <2>f. \A q \in Proc : proc[q].own # e /\ proc[q].fd # e
    BY <1>0, <2>e DEF Placing
  <2>g. proc[p].pc = "idle" /\ \A q \in Proc \ {p} : proc'[q] = proc[q]
    BY <2>0 DEF StoreBeginEffect
  <2>1. TypeOK'
    BY <1>0, <2>0 DEF TypeOK, StoreBeginEffect
  <2>2. Holding'
    BY <1>0, <2>0, Nobody DEF Holding, StoreBeginEffect
  <2>3. Locking'
    <3>1. ASSUME NEW q \in Proc, NEW f \in Entry
          PROVE  /\ (proc[q].own = f => ent[f].writer = q)'
                 /\ (proc[q].fd = f /\ proc[q].pc \in EvictLocked =>
                       ent[f].writer = q /\ proc[q].own # f)'
      BY <1>0, <2>e, <2>f, <2>g, Nobody DEF Locking
    <3>2. ASSUME NEW q \in Proc, NEW f \in Entry
          PROVE  (q \in ent[f].readers
                    <=> proc[q].fd = f /\ proc[q].pc \in {"ldVerify", "using"})'
      BY <1>0, <2>e, <2>f, <2>g, Nobody DEF Locking
    <3>3. ASSUME NEW f \in Entry
          PROVE  (ent[f].writer # NoProc => ent[f].readers = {})'
      BY <1>0, <2>e DEF Locking
    <3> QED
      BY <3>1, <3>2, <3>3 DEF Locking
  <2>4. Placing'
    <3>2. "anon" \notin Name /\ "stage" \notin Name
      BY Names
    <3> QED
      BY <1>0, <2>e, <2>f, <2>g, <3>2, Nobody DEF Placing
  <2> QED
    BY <2>1, <2>2, <2>3, <2>4 DEF LInv
<1>2. ASSUME NEW p \in Proc, NEW n \in Name, LoadBegin(p, n) PROVE LInv'
  <2>0. LoadBeginEffect(p, n)
    BY <1>2, LoadBegins
  <2>1. TypeOK'
    BY <1>0, <2>0 DEF TypeOK, LoadBeginEffect
  <2>2. Holding'
    BY <1>0, <2>0 DEF Holding, LoadBeginEffect
  <2>3. Locking'
    BY <1>0, <2>0, Nobody DEF Locking, LoadBeginEffect
  <2>4. Placing'
    BY <1>0, <2>0, Nobody
      DEF Placing, LoadBeginEffect
  <2> QED
    BY <2>1, <2>2, <2>3, <2>4 DEF LInv
<1>3. ASSUME NEW p \in Proc, Fill(p) PROVE LInv'
  <2>0. FillEffect(p)
    BY <1>3, Fills
  <2>1. TypeOK'
    BY <1>0, <2>0 DEF TypeOK, FillEffect
  <2>2. Holding'
    BY <1>0, <2>0 DEF Holding, FillEffect
  <2>3. Locking'
    BY <1>0, <2>0, Nobody DEF Locking, FillEffect
  <2>4. Placing'
    BY <1>0, <2>0
      DEF Placing, FillEffect
  <2> QED
    BY <2>1, <2>2, <2>3, <2>4 DEF LInv
<1>4. ASSUME NEW p \in Proc, CopyFails(p) PROVE LInv'
  <2>0. CopyFailsEffect(p)
    BY <1>4, CopyFailing
  <2>1. TypeOK'
    BY <1>0, <2>0 DEF TypeOK, CopyFailsEffect
  <2>2. Holding'
    BY <1>0, <2>0 DEF Holding, CopyFailsEffect
  <2>3. Locking'
    BY <1>0, <2>0, Nobody DEF Locking, CopyFailsEffect
  <2>4. Placing'
    BY <1>0, <2>0
      DEF Placing, CopyFailsEffect
  <2> QED
    BY <2>1, <2>2, <2>3, <2>4 DEF LInv
<1>5. ASSUME NEW p \in Proc, Account(p) PROVE LInv'
  <2>0. AccountEffect(p)
    BY <1>5, Accounts
  <2>1. TypeOK'
    <3>1. ent[proc[p].own].size \in Nat
      BY <2>0, EntryTypes DEF AccountEffect, Entries
    <3>2. csize \in Nat
      BY <1>0 DEF TypeOK
    <3>3. SizeApply(csize, ent[proc[p].own].size) \in Nat
      BY <3>1, <3>2 DEF SizeApply
    <3> QED
      BY <1>0, <2>0, <3>3 DEF TypeOK, AccountEffect
  <2>2. Holding'
    BY <1>0, <2>0 DEF Holding, AccountEffect
  <2>3. Locking'
    BY <1>0, <2>0, Nobody DEF Locking, AccountEffect
  <2>4. Placing'
    BY <1>0, <2>0
      DEF Placing, AccountEffect
  <2> QED
    BY <2>1, <2>2, <2>3, <2>4 DEF LInv
<1>6. ASSUME NEW p \in Proc, WriteInfo(p) PROVE LInv'
  <2>0. WriteInfoEffect(p)
    BY <1>6, WritesInfo
  <2>1. TypeOK'
    BY <1>0, <2>0 DEF TypeOK, WriteInfoEffect
  <2>2. Holding'
    BY <1>0, <2>0 DEF Holding, WriteInfoEffect
  <2>3. Locking'
    BY <1>0, <2>0, Nobody DEF Locking, WriteInfoEffect
  <2>4. Placing'
    BY <1>0, <2>0
      DEF Placing, WriteInfoEffect
  <2> QED
    BY <2>1, <2>2, <2>3, <2>4 DEF LInv
<1>7. ASSUME NEW p \in Proc, Rename(p) PROVE LInv'
  <2>0. RenameEffect(p)
    BY <1>7, Renames
  <2>1. TypeOK'
    BY <1>0, <2>0 DEF TypeOK, RenameEffect
  <2>2. Holding'
    BY <1>0, <2>0 DEF Holding, RenameEffect
  <2>3. Locking'
    BY <1>0, <2>0, Nobody DEF Locking, RenameEffect
  <2>4. Placing'
    <3>1. proc[p].name \in Name /\ proc[p].name \notin {"unborn", "anon", "stage", "gone"}
      BY <1>0, <2>0, Names DEF Holding, RenameEffect
    <3>2. "gone" \notin Name
      BY Names
    <3>3. CASE UNCHANGED ent
      BY <1>0, <2>0, <3>3 DEF Placing, RenameEffect
    <3>4. CASE ~Taken(proc[p].name)
      <4>1. \A f \in Entry : ent[f].loc = proc[p].name => ~ent[f].lock
        BY <3>4 DEF Taken, Empty
      <4> QED
        BY <1>0, <2>0, <3>1, <3>2, <3>4, <4>1, Nobody DEF Placing, Locking, RenameEffect
    <3> QED
      BY <2>0, <3>3, <3>4 DEF RenameEffect
  <2> QED
    BY <2>1, <2>2, <2>3, <2>4 DEF LInv
<1>8. ASSUME NEW p \in Proc, Undo(p) PROVE LInv'
  <2>0. UndoEffect(p)
    BY <1>8, Undoes
  <2>1. TypeOK'
    BY <1>0, <2>0 DEF TypeOK, UndoEffect
  <2>2. Holding'
    BY <1>0, <2>0 DEF Holding, UndoEffect
  <2>3. Locking'
    BY <1>0, <2>0, Nobody DEF Locking, UndoEffect
  <2>4. Placing'
    BY <1>0, <2>0
      DEF Placing, UndoEffect
  <2> QED
    BY <2>1, <2>2, <2>3, <2>4 DEF LInv
<1>9. ASSUME NEW p \in Proc, UndoSize(p) PROVE LInv'
  <2>0. UndoSizeEffect(p)
    BY <1>9, UndoesSize
  <2>1. TypeOK'
    <3>1. ent[proc[p].own].size \in Nat
      BY <2>0, EntryTypes DEF UndoSizeEffect, Entries
    <3>2. csize \in Nat
      BY <1>0 DEF TypeOK
    <3>3. SizeApply(csize, -ent[proc[p].own].size) \in Nat
      BY <3>1, <3>2 DEF SizeApply
    <3> QED
      BY <1>0, <2>0, <3>3 DEF TypeOK, UndoSizeEffect
  <2>2. Holding'
    BY <1>0, <2>0 DEF Holding, UndoSizeEffect
  <2>3. Locking'
    BY <1>0, <2>0, Nobody DEF Locking, UndoSizeEffect
  <2>4. Placing'
    BY <1>0, <2>0
      DEF Placing, UndoSizeEffect
  <2> QED
    BY <2>1, <2>2, <2>3, <2>4 DEF LInv
<1>10. ASSUME NEW p \in Proc, Cleanup(p) PROVE LInv'
  <2>0. CleanupEffect(p)
    BY <1>10, CleansUp
  <2>1. TypeOK'
    BY <1>0, <2>0 DEF TypeOK, CleanupEffect
  <2>2. Holding'
    BY <1>0, <2>0 DEF Holding, CleanupEffect
  <2>3. Locking'
    BY <1>0, <2>0, Nobody DEF Locking, CleanupEffect
  <2>4. Placing'
    <3>1. "gone" \notin Name
      BY Names
    <3> QED
      BY <1>0, <2>0, <3>1, Nobody DEF Placing, Locking, CleanupEffect
  <2> QED
    BY <2>1, <2>2, <2>3, <2>4 DEF LInv
<1>11. ASSUME NEW p \in Proc, StoreEnd(p) PROVE LInv'
  <2>0. StoreEndEffect(p)
    BY <1>11, StoreEnds
  <2>1. TypeOK'
    BY <1>0, <2>0 DEF TypeOK, StoreEndEffect
  <2>2. Holding'
    BY <1>0, <2>0 DEF Holding, StoreEndEffect
  <2>3. Locking'
    BY <1>0, <2>0, Nobody DEF Locking, StoreEndEffect
  <2>4. Placing'
    BY <1>0, <2>0, Nobody
      DEF Placing, StoreEndEffect
  <2> QED
    BY <2>1, <2>2, <2>3, <2>4 DEF LInv
<1>12. ASSUME NEW p \in Proc, StageEnd(p) PROVE LInv'
  <2>0. StageEndEffect(p)
    BY <1>12, StageEnds
  <2>1. TypeOK'
    BY <1>0, <2>0 DEF TypeOK, StageEndEffect
  <2>2. Holding'
    BY <1>0, <2>0 DEF Holding, StageEndEffect
  <2>3. Locking'
    BY <1>0, <2>0, Nobody DEF Locking, StageEndEffect
  <2>4. Placing'
    <3>1. "gone" \notin Name
      BY Names
    <3> QED
      BY <1>0, <2>0, <3>1, Nobody DEF Placing, Locking, StageEndEffect
  <2> QED
    BY <2>1, <2>2, <2>3, <2>4 DEF LInv
<1>13. ASSUME NEW p \in Proc, List(p) PROVE LInv'
  <2>0. ListEffect(p)
    BY <1>13, Lists
  <2>1. TypeOK'
    BY <1>0, <2>0 DEF TypeOK, ListEffect
  <2>2. Holding'
    BY <1>0, <2>0 DEF Holding, ListEffect
  <2>3. Locking'
    BY <1>0, <2>0, Nobody DEF Locking, ListEffect
  <2>4. Placing'
    BY <1>0, <2>0
      DEF Placing, ListEffect
  <2> QED
    BY <2>1, <2>2, <2>3, <2>4 DEF LInv
<1>14. ASSUME NEW p \in Proc, Pick(p) PROVE LInv'
  <2>0. PickEffect(p)
    BY <1>14, Picks
  <2>1. TypeOK'
    BY <1>0, <2>0 DEF TypeOK, PickEffect
  <2>2. Holding'
    BY <1>0, <2>0 DEF Holding, PickEffect
  <2>3. Locking'
    BY <1>0, <2>0, Nobody DEF Locking, PickEffect
  <2>4. Placing'
    BY <1>0, <2>0
      DEF Placing, PickEffect
  <2> QED
    BY <2>1, <2>2, <2>3, <2>4 DEF LInv
<1>15. ASSUME NEW p \in Proc, EvictOpen(p) PROVE LInv'
  <2>0. EvictOpenEffect(p)
    BY <1>15, EvictOpens
  <2>1. TypeOK'
    BY <1>0, <2>0 DEF TypeOK, EvictOpenEffect
  <2>2. Holding'
    BY <1>0, <2>0, Nobody DEF Holding, EvictOpenEffect
  <2>3. Locking'
    BY <1>0, <2>0, Nobody DEF Locking, EvictOpenEffect
  <2>4. Placing'
    <3>1. \A e \in Entry : Opens(proc[p].path, e) => ent[e].loc \notin {"unborn", "stage"}
      BY Names DEF Opens, InObjects
    <3> QED
      BY <1>0, <2>0, <3>1 DEF Placing, EvictOpenEffect
  <2> QED
    BY <2>1, <2>2, <2>3, <2>4 DEF LInv
<1>16. ASSUME NEW p \in Proc, EvictLock(p) PROVE LInv'
  <2>0. EvictLockEffect(p)
    BY <1>16, EvictLocks
  <2>1. TypeOK'
    BY <1>0, <2>0 DEF TypeOK, EvictLockEffect
  <2>2. Holding'
    BY <1>0, <2>0 DEF Holding, EvictLockEffect
  <2>3. Locking'
    BY <1>0, <2>0, Nobody DEF Locking, EvictLockEffect
  <2>4. Placing'
    BY <1>0, <2>0, Nobody
      DEF Placing, EvictLockEffect
  <2> QED
    BY <2>1, <2>2, <2>3, <2>4 DEF LInv
<1>17. ASSUME NEW p \in Proc, EvictVerify(p) PROVE LInv'
  <2>0. EvictVerifyEffect(p)
    BY <1>17, EvictVerifies
  <2>1. TypeOK'
    BY <1>0, <2>0 DEF TypeOK, EvictVerifyEffect
  <2>2. Holding'
    BY <1>0, <2>0 DEF Holding, EvictVerifyEffect
  <2>3. Locking'
    BY <1>0, <2>0, Nobody DEF Locking, EvictVerifyEffect
  <2>4. Placing'
    BY <1>0, <2>0, Nobody, SMTT(30)
      DEF Placing, EvictVerifyEffect
  <2> QED
    BY <2>1, <2>2, <2>3, <2>4 DEF LInv
<1>18. ASSUME NEW p \in Proc, RmInfo(p) PROVE LInv'
  <2>0. RmInfoEffect(p)
    BY <1>18, RemovesInfo
  <2>1. TypeOK'
    BY <1>0, <2>0 DEF TypeOK, RmInfoEffect
  <2>2. Holding'
    BY <1>0, <2>0 DEF Holding, RmInfoEffect
  <2>3. Locking'
    BY <1>0, <2>0, Nobody DEF Locking, RmInfoEffect
  <2>4. Placing'
    BY <1>0, <2>0
      DEF Placing, RmInfoEffect
  <2> QED
    BY <2>1, <2>2, <2>3, <2>4 DEF LInv
<1>19. ASSUME NEW p \in Proc, RmData(p) PROVE LInv'
  <2>0. RmDataEffect(p)
    BY <1>19, RemovesData
  <2>1. TypeOK'
    BY <1>0, <2>0 DEF TypeOK, RmDataEffect
  <2>2. Holding'
    BY <1>0, <2>0 DEF Holding, RmDataEffect
  <2>3. Locking'
    BY <1>0, <2>0, Nobody DEF Locking, RmDataEffect
  <2>4. Placing'
    BY <1>0, <2>0
      DEF Placing, RmDataEffect
  <2> QED
    BY <2>1, <2>2, <2>3, <2>4 DEF LInv
<1>20. ASSUME NEW p \in Proc, RmLock(p) PROVE LInv'
  <2>0. RmLockEffect(p)
    BY <1>20, RemovesLock
  <2>1. TypeOK'
    BY <1>0, <2>0 DEF TypeOK, RmLockEffect
  <2>2. Holding'
    BY <1>0, <2>0 DEF Holding, RmLockEffect
  <2>3. Locking'
    BY <1>0, <2>0, Nobody DEF Locking, RmLockEffect
  <2>4. Placing'
    BY <1>0, <2>0, Nobody DEF Placing, Locking, RmLockEffect
  <2> QED
    BY <2>1, <2>2, <2>3, <2>4 DEF LInv
<1>21. ASSUME NEW p \in Proc, RmDir(p) PROVE LInv'
  <2>0. RmDirEffect(p)
    BY <1>21, RemovesDir
  <2>1. TypeOK'
    BY <1>0, <2>0 DEF TypeOK, RmDirEffect
  <2>2. Holding'
    BY <1>0, <2>0 DEF Holding, RmDirEffect
  <2>3. Locking'
    BY <1>0, <2>0, Nobody DEF Locking, RmDirEffect
  <2>4. Placing'
    <3>1. "gone" \notin Name
      BY Names
    <3>2. \A e \in Entry : InObjects(e) /\ Empty(e) => ~ent[e].lock /\ ent[e].loc # "stage"
      BY Names DEF InObjects, Empty
    <3> QED
      BY <1>0, <2>0, <3>1, <3>2, Nobody, SMTT(30) DEF Placing, RmDirEffect
  <2> QED
    BY <2>1, <2>2, <2>3, <2>4 DEF LInv
<1>22. ASSUME NEW p \in Proc, Deaccount(p) PROVE LInv'
  <2>0. DeaccountEffect(p)
    BY <1>22, Deaccounts
  <2>1. TypeOK'
    <3>1. proc[p].space \in Nat
      BY Holds DEF Locals
    <3>2. csize \in Nat
      BY <1>0 DEF TypeOK
    <3>3. SizeApply(csize, -proc[p].space) \in Nat
      BY <3>1, <3>2 DEF SizeApply
    <3> QED
      BY <1>0, <2>0, <3>3 DEF TypeOK, DeaccountEffect
  <2>2. Holding'
    BY <1>0, <2>0 DEF Holding, DeaccountEffect
  <2>3. Locking'
    BY <1>0, <2>0, Nobody DEF Locking, DeaccountEffect
  <2>4. Placing'
    BY <1>0, <2>0
      DEF Placing, DeaccountEffect
  <2> QED
    BY <2>1, <2>2, <2>3, <2>4 DEF LInv
<1>23. ASSUME NEW p \in Proc, EvictRelease(p) PROVE LInv'
  <2>0. EvictReleaseEffect(p)
    BY <1>23, EvictReleases
  <2>1. TypeOK'
    BY <1>0, <2>0 DEF TypeOK, EvictReleaseEffect
  <2>2. Holding'
    BY <1>0, <2>0 DEF Holding, EvictReleaseEffect
  <2>3. Locking'
    BY <1>0, <2>0, Nobody DEF Locking, EvictReleaseEffect
  <2>4. Placing'
    BY <1>0, <2>0, Nobody
      DEF Placing, EvictReleaseEffect
  <2> QED
    BY <2>1, <2>2, <2>3, <2>4 DEF LInv
<1>24. ASSUME NEW p \in Proc, LoadOpen(p) PROVE LInv'
  <2>0. LoadOpenEffect(p)
    BY <1>24, LoadOpens
  <2>1. TypeOK'
    BY <1>0, <2>0 DEF TypeOK, LoadOpenEffect
  <2>2. Holding'
    BY <1>0, <2>0, Nobody DEF Holding, LoadOpenEffect
  <2>3. Locking'
    BY <1>0, <2>0, Nobody DEF Locking, LoadOpenEffect
  <2>4. Placing'
    <3>1. \A e \in Entry : Opens(proc[p].name, e) => ent[e].loc \notin {"unborn", "stage"}
      BY Names DEF Opens, InObjects
    <3> QED
      BY <1>0, <2>0, <3>1, Nobody DEF Placing, LoadOpenEffect
  <2> QED
    BY <2>1, <2>2, <2>3, <2>4 DEF LInv
<1>25. ASSUME NEW p \in Proc, LoadLock(p) PROVE LInv'
  <2>0. LoadLockEffect(p)
    BY <1>25, LoadLocks
  <2>1. TypeOK'
    BY <1>0, <2>0 DEF TypeOK, LoadLockEffect
  <2>2. Holding'
    BY <1>0, <2>0 DEF Holding, LoadLockEffect
  <2>3. Locking'
    BY <1>0, <2>0, Nobody DEF Locking, LoadLockEffect
  <2>4. Placing'
    BY <1>0, <2>0, Nobody
      DEF Placing, LoadLockEffect
  <2> QED
    BY <2>1, <2>2, <2>3, <2>4 DEF LInv
<1>26. ASSUME NEW p \in Proc, LoadVerify(p) PROVE LInv'
  <2>0. LoadVerifyEffect(p)
    BY <1>26, LoadVerifies
  <2>1. TypeOK'
    BY <1>0, <2>0 DEF TypeOK, LoadVerifyEffect
  <2>2. Holding'
    BY <1>0, <2>0 DEF Holding, LoadVerifyEffect
  <2>3. Locking'
    BY <1>0, <2>0, Nobody DEF Locking, LoadVerifyEffect
  <2>4. Placing'
    <3>1. proc[p].name \in Name
      BY <1>0, <2>0 DEF Holding, LoadVerifyEffect
    <3>2. \A e \in Entry : Opens(proc[p].name, e) => ent[e].loc = proc[p].name /\ ent[e].lock
      BY <3>1, Names DEF Opens, InObjects, PathOf
    <3> DEFINE e == proc[p].fd
    <3>3. CASE /\ Opens(proc[p].name, e)
               /\ Locked(e, ent[e].writer, ent[e].readers) /\ GoesTo(p, "using")
      <4>1. ent[e].loc = proc[p].name /\ ent[e].lock /\ e \in Entry
        BY <2>0, <3>2, <3>3 DEF LoadVerifyEffect
      <4> HIDE DEF e
      <4>2. /\ \A f \in Entry : ent'[f].loc = ent[f].loc /\ ent'[f].lock = ent[f].lock
            /\ proc'[p].pc = "using" /\ proc'[p].own = proc[p].own
            /\ proc'[p].fd = proc[p].fd /\ proc'[p].name = proc[p].name
            /\ \A q \in Proc \ {p} : proc'[q] = proc[q]
        BY <3>3, <4>1
      <4> QED
        BY <1>0, <4>1, <4>2 DEF Placing, e
    <3>4. CASE /\ Locked(e, ent[e].writer, ent[e].readers \ {p})
               /\ Moves(p, "ldOpen", NoEntry, proc[p].path, proc[p].space, proc[p].keep)
      <4>1. e \in Entry
        BY <2>0 DEF LoadVerifyEffect
      <4> HIDE DEF e
      <4> QED
        BY <1>0, <3>4, <4>1, Nobody DEF Placing
    <3> QED
      BY <2>0, <3>3, <3>4 DEF LoadVerifyEffect
  <2> QED
    BY <2>1, <2>2, <2>3, <2>4 DEF LInv
<1>27. ASSUME NEW p \in Proc, LoadEnd(p) PROVE LInv'
  <2>0. LoadEndEffect(p)
    BY <1>27, LoadEnds
  <2>1. TypeOK'
    BY <1>0, <2>0 DEF TypeOK, LoadEndEffect
  <2>2. Holding'
    BY <1>0, <2>0 DEF Holding, LoadEndEffect
  <2>3. Locking'
    BY <1>0, <2>0, Nobody DEF Locking, LoadEndEffect
  <2>4. Placing'
    BY <1>0, <2>0, Nobody
      DEF Placing, LoadEndEffect
  <2> QED
    BY <2>1, <2>2, <2>3, <2>4 DEF LInv
<1>28. ASSUME NEW p \in Proc, Crash(p) PROVE LInv'
  <2>0. CrashEffect(p)
    BY <1>28, Crashes
  <2>1. TypeOK'
    BY <1>0, <2>0 DEF TypeOK, CrashEffect
  <2>2. Holding'
    BY <1>0, <2>0 DEF Holding, CrashEffect
  <2>3. Locking'
    BY <1>0, <2>0, Nobody DEF Locking, CrashEffect
  <2>4. Placing'
    BY <1>0, <2>0, Nobody
      DEF Placing, CrashEffect
  <2> QED
    BY <2>1, <2>2, <2>3, <2>4 DEF LInv
<1>29. CASE Tick
  <2>1. TypeOK'
    BY <1>0, <1>29, Numbers DEF TypeOK, Tick
  <2>2. Holding' /\ Locking' /\ Placing'
    BY <1>0, <1>29 DEF Holding, Locking, Placing, Tick
  <2> QED
    BY <2>1, <2>2 DEF LInv
<1>30. CASE UNCHANGED vars
  BY <1>0, <1>30 DEF vars, LInv, TypeOK, Holding, Locking, Placing
<1> QED
  BY <1>1, <1>2, <1>3, <1>4, <1>5, <1>6, <1>7, <1>8, <1>9, <1>10, <1>11,
     <1>12, <1>13, <1>14, <1>15, <1>16, <1>17, <1>18, <1>19, <1>20, <1>21,
     <1>22, <1>23, <1>24, <1>25, <1>26, <1>27, <1>28, <1>29, <1>30
     DEF Next, Step, StoreStep, EvictStep, LoadStep


\* The variables keep their types.
THEOREM Typing == Spec => []TypeOK
<1>1. LInv => TypeOK
  BY DEF LInv
<1> QED
  BY <1>1, InitLInv, LInvStep, PTL DEF Spec

-----------------------------------------------------------------------------
\* The read lock of load() keeps evictions out from the comparison of the path until
\* its caller is done, and no commit takes the name: the entry stays as it is.
LEMMA Undisturbed == LInv => ReadersUndisturbed
<1> SUFFICES ASSUME LInv PROVE ReadersUndisturbed
  OBVIOUS
<1>1. ASSUME NEW p \in Proc, NEW e \in Entry, Using(p, e)
      PROVE  ent[e].loc = proc[p].name /\ ent[e].lock /\ ent[e].writer = NoProc
  BY <1>1 DEF LInv, Locking, Placing, Using, At
<1>2. ASSUME NEW p \in Proc, NEW e \in Entry, Using(p, e), NEW q \in Proc, proc[q].fd = e
      PROVE  proc[q].pc \notin {"rmInfo", "rmData", "rmLock", "rmDir"}
  <2>1. ent[e].writer = NoProc
    BY <1>1, <1>2
  <2> QED
    BY <1>2, <2>1, Nobody DEF LInv, Locking, EvictLocked
<1> QED
  BY <1>1, <1>2 DEF ReadersUndisturbed

\* While load() has control in its caller nothing happens to the entry.
THEOREM ReadersSafe == Spec => []ReadersUndisturbed
  BY InitLInv, LInvStep, Undisturbed, PTL DEF Spec

-----------------------------------------------------------------------------
\* What a step does to the place of an entry that is in the cache.
LEMMA NameStep ==
  LInv /\ [Next]_vars =>
    \A e \in Entry : ent[e].loc \in Name /\ ent'[e].loc # ent[e].loc => Empty(e)
<1> SUFFICES ASSUME LInv, [Next]_vars, NEW e \in Entry, ent[e].loc \in Name,
                    ent'[e].loc # ent[e].loc
             PROVE  Empty(e)
  OBVIOUS
<1> USE DEF GoesTo, Moves, Ends, Files, Locked, Changes
<1>0. ent[e].loc \notin {"unborn", "anon", "stage", "gone"}
  BY Names
<1>1. ASSUME NEW p \in Proc, NEW n \in Name, StoreBegin(p, n) PROVE Empty(e)
  <2>1. StoreBeginEffect(p, n)
    BY <1>1, StoreBegins
  <2> QED
    BY <1>0, <2>1 DEF StoreBeginEffect
<1>2. ASSUME NEW p \in Proc, Fill(p) PROVE Empty(e)
  <2>1. FillEffect(p)
    BY <1>2, Fills
  <2> QED
    BY <1>0, <2>1 DEF FillEffect
<1>3. ASSUME NEW p \in Proc, CopyFails(p) PROVE Empty(e)
  <2>1. CopyFailsEffect(p)
    BY <1>3, CopyFailing
  <2> QED
    BY <1>0, <2>1 DEF CopyFailsEffect
<1>4. ASSUME NEW p \in Proc, Account(p) PROVE Empty(e)
  <2>1. AccountEffect(p)
    BY <1>4, Accounts
  <2> QED
    BY <1>0, <2>1 DEF AccountEffect
<1>5. ASSUME NEW p \in Proc, WriteInfo(p) PROVE Empty(e)
  <2>1. WriteInfoEffect(p)
    BY <1>5, WritesInfo
  <2> QED
    BY <1>0, <2>1 DEF WriteInfoEffect
<1>6. ASSUME NEW p \in Proc, Rename(p) PROVE Empty(e)
  <2>1. RenameEffect(p)
    BY <1>6, Renames
  <2> QED
    BY <1>0, <2>1 DEF LInv, Placing, Storing, Taken, RenameEffect
<1>7. ASSUME NEW p \in Proc, Undo(p) PROVE Empty(e)
  <2>1. UndoEffect(p)
    BY <1>7, Undoes
  <2> QED
    BY <1>0, <2>1 DEF UndoEffect
<1>8. ASSUME NEW p \in Proc, UndoSize(p) PROVE Empty(e)
  <2>1. UndoSizeEffect(p)
    BY <1>8, UndoesSize
  <2> QED
    BY <1>0, <2>1 DEF UndoSizeEffect
<1>9. ASSUME NEW p \in Proc, Cleanup(p) PROVE Empty(e)
  <2>1. CleanupEffect(p)
    BY <1>9, CleansUp
  <2> QED
    BY <1>0, <2>1 DEF CleanupEffect
<1>10. ASSUME NEW p \in Proc, StoreEnd(p) PROVE Empty(e)
  <2>1. StoreEndEffect(p)
    BY <1>10, StoreEnds
  <2> QED
    BY <1>0, <2>1 DEF StoreEndEffect
<1>11. ASSUME NEW p \in Proc, StageEnd(p) PROVE Empty(e)
  <2>1. StageEndEffect(p)
    BY <1>11, StageEnds
  <2> QED
    BY <1>0, <2>1 DEF LInv, Placing, StageEndEffect
<1>12. ASSUME NEW p \in Proc, List(p) PROVE Empty(e)
  <2>1. ListEffect(p)
    BY <1>12, Lists
  <2> QED
    BY <1>0, <2>1 DEF ListEffect
<1>13. ASSUME NEW p \in Proc, Pick(p) PROVE Empty(e)
  <2>1. PickEffect(p)
    BY <1>13, Picks
  <2> QED
    BY <1>0, <2>1 DEF PickEffect
<1>14. ASSUME NEW p \in Proc, EvictOpen(p) PROVE Empty(e)
  <2>1. EvictOpenEffect(p)
    BY <1>14, EvictOpens
  <2> QED
    BY <1>0, <2>1 DEF EvictOpenEffect
<1>15. ASSUME NEW p \in Proc, EvictLock(p) PROVE Empty(e)
  <2>1. EvictLockEffect(p)
    BY <1>15, EvictLocks
  <2> QED
    BY <1>0, <2>1 DEF EvictLockEffect
<1>16. ASSUME NEW p \in Proc, EvictVerify(p) PROVE Empty(e)
  <2>1. EvictVerifyEffect(p)
    BY <1>16, EvictVerifies
  <2> QED
    BY <1>0, <2>1 DEF EvictVerifyEffect
<1>17. ASSUME NEW p \in Proc, RmInfo(p) PROVE Empty(e)
  <2>1. RmInfoEffect(p)
    BY <1>17, RemovesInfo
  <2> QED
    BY <1>0, <2>1 DEF RmInfoEffect
<1>18. ASSUME NEW p \in Proc, RmData(p) PROVE Empty(e)
  <2>1. RmDataEffect(p)
    BY <1>18, RemovesData
  <2> QED
    BY <1>0, <2>1 DEF RmDataEffect
<1>19. ASSUME NEW p \in Proc, RmLock(p) PROVE Empty(e)
  <2>1. RmLockEffect(p)
    BY <1>19, RemovesLock
  <2> QED
    BY <1>0, <2>1 DEF RmLockEffect
<1>20. ASSUME NEW p \in Proc, RmDir(p) PROVE Empty(e)
  <2>1. RmDirEffect(p)
    BY <1>20, RemovesDir
  <2> QED
    BY <1>0, <2>1 DEF RmDirEffect
<1>21. ASSUME NEW p \in Proc, Deaccount(p) PROVE Empty(e)
  <2>1. DeaccountEffect(p)
    BY <1>21, Deaccounts
  <2> QED
    BY <1>0, <2>1 DEF DeaccountEffect
<1>22. ASSUME NEW p \in Proc, EvictRelease(p) PROVE Empty(e)
  <2>1. EvictReleaseEffect(p)
    BY <1>22, EvictReleases
  <2> QED
    BY <1>0, <2>1 DEF EvictReleaseEffect
<1>23. ASSUME NEW p \in Proc, LoadOpen(p) PROVE Empty(e)
  <2>1. LoadOpenEffect(p)
    BY <1>23, LoadOpens
  <2> QED
    BY <1>0, <2>1 DEF LoadOpenEffect
<1>24. ASSUME NEW p \in Proc, LoadLock(p) PROVE Empty(e)
  <2>1. LoadLockEffect(p)
    BY <1>24, LoadLocks
  <2> QED
    BY <1>0, <2>1 DEF LoadLockEffect
<1>25. ASSUME NEW p \in Proc, LoadVerify(p) PROVE Empty(e)
  <2>1. LoadVerifyEffect(p)
    BY <1>25, LoadVerifies
  <2> QED
    BY <1>0, <2>1 DEF LoadVerifyEffect
<1>26. ASSUME NEW p \in Proc, LoadEnd(p) PROVE Empty(e)
  <2>1. LoadEndEffect(p)
    BY <1>26, LoadEnds
  <2> QED
    BY <1>0, <2>1 DEF LoadEndEffect
<1>27. ASSUME NEW p \in Proc, Crash(p) PROVE Empty(e)
  <2>1. CrashEffect(p)
    BY <1>27, Crashes
  <2> QED
    BY <1>0, <2>1 DEF CrashEffect
<1> QED
  BY <1>1, <1>2, <1>3, <1>4, <1>5, <1>6, <1>7, <1>8, <1>9, <1>10, <1>11,
     <1>12, <1>13, <1>14, <1>15, <1>16, <1>17, <1>18, <1>19, <1>20, <1>21,
     <1>22, <1>23, <1>24, <1>25, <1>26, <1>27, LoadBegins
     DEF LoadBeginEffect, Next, Step, StoreStep, EvictStep, LoadStep, vars, Tick

\* An entry leaves the name it is stored under only when an eviction has removed its
\* files: the rename of a commit never takes the place of another entry's content.
THEOREM NamesKept == Spec => NameNotStolen
<1>1. LInv /\ [Next]_vars =>
        [\A e \in Entry : ent[e].loc \in Name /\ ent'[e].loc # ent[e].loc => Empty(e)]_vars
  BY NameStep
<1> QED
  BY <1>1, InitLInv, LInvStep, PTL DEF Spec, NameNotStolen
-----------------------------------------------------------------------------
\* Which entries have all their data, unless processes die: the own entry of a call
\* of store() once it is filled, and what has a lock file at a name, but for an entry
\* that an eviction is removing.
Contents ==
    /\ \A p \in Proc, e \in Entry :
          proc[p].own = e /\ proc[p].pc \in Storing \ {"fill"} => ent[e].data = "whole"
    /\ \A e \in Entry :
          ent[e].loc \in Name /\ ent[e].lock =>
              \/ ent[e].data = "whole"
              \/ \E p \in Proc : proc[p].fd = e /\ proc[p].pc \in {"rmData", "rmLock"}

LEMMA InitContents == Init => Contents
<1> SUFFICES ASSUME Init PROVE Contents
  OBVIOUS
<1>1. /\ \A p \in Proc : proc[p].own = NoEntry
      /\ \A e \in Entry : ent[e].loc = "unborn"
  BY DEF Init, Idle, Unborn
<1> QED
  BY <1>1, Nobody, Names DEF Contents

LEMMA ContentsStep ==
  ASSUME ~MayCrash, LInv, Contents, [Next]_vars
  PROVE  Contents'
<1>0. LInv /\ Contents /\ ~MayCrash
  OBVIOUS
<1> USE DEF GoesTo, Moves, Ends, Files, Locked, Changes
<1> USE DEF Evicting, EvictLocked, Storing, Committed
<1>1. ASSUME NEW p \in Proc, NEW n \in Name, StoreBegin(p, n) PROVE Contents'
  <2>1. StoreBeginEffect(p, n)
    BY <1>1, StoreBegins
  <2>2. PICK e \in Entry :
            /\ ent[e].loc = "unborn"
            /\ \A f \in Entry \ {e} : ent'[f] = ent[f]
            /\ proc'[p].own = e /\ proc'[p].fd = NoEntry
            /\ \/ proc'[p].pc = "fill" /\ ent'[e].loc = "anon"
               \/ proc'[p].pc = "stage" /\ ent'[e].loc = "stage"
    BY <2>1 DEF StoreBeginEffect
  <2>3. \A q \in Proc : proc[q].own # e /\ proc[q].fd # e
    BY <1>0, <2>2 DEF LInv, Placing
  <2>4. proc[p].pc = "idle" /\ \A q \in Proc \ {p} : proc'[q] = proc[q]
    BY <2>1 DEF StoreBeginEffect
  <2>5. "anon" \notin Name /\ "stage" \notin Name
    BY Names
  <2> QED
    BY <1>0, <2>2, <2>3, <2>4, <2>5, Nobody DEF Contents
<1>2. ASSUME NEW p \in Proc, NEW n \in Name, LoadBegin(p, n) PROVE Contents'
  <2>1. LoadBeginEffect(p, n)
    BY <1>2, LoadBegins
  <2> QED
    BY <1>0, <2>1 DEF Contents, LoadBeginEffect
<1>3. ASSUME NEW p \in Proc, Fill(p) PROVE Contents'
  <2>1. FillEffect(p)
    BY <1>3, Fills
  <2> QED
    BY <1>0, <2>1 DEF Contents, FillEffect
<1>4. ASSUME NEW p \in Proc, CopyFails(p) PROVE Contents'
  <2>1. CopyFailsEffect(p)
    BY <1>4, CopyFailing
  <2> QED
    BY <1>0, <2>1 DEF Contents, CopyFailsEffect
<1>5. ASSUME NEW p \in Proc, Account(p) PROVE Contents'
  <2>1. AccountEffect(p)
    BY <1>5, Accounts
  <2> QED
    BY <1>0, <2>1 DEF Contents, AccountEffect
<1>6. ASSUME NEW p \in Proc, WriteInfo(p) PROVE Contents'
  <2>1. WriteInfoEffect(p)
    BY <1>6, WritesInfo
  <2> QED
    BY <1>0, <2>1 DEF Contents, WriteInfoEffect
<1>7. ASSUME NEW p \in Proc, Rename(p) PROVE Contents'
  <2>1. RenameEffect(p)
    BY <1>7, Renames
  <2> QED
    BY <1>0, <2>1 DEF Contents, Placing, Holding, Taken, Empty, RenameEffect, LInv
<1>8. ASSUME NEW p \in Proc, Undo(p) PROVE Contents'
  <2>1. UndoEffect(p)
    BY <1>8, Undoes
  <2> QED
    BY <1>0, <2>1 DEF Contents, UndoEffect
<1>9. ASSUME NEW p \in Proc, UndoSize(p) PROVE Contents'
  <2>1. UndoSizeEffect(p)
    BY <1>9, UndoesSize
  <2> QED
    BY <1>0, <2>1 DEF Contents, UndoSizeEffect
<1>10. ASSUME NEW p \in Proc, Cleanup(p) PROVE Contents'
  <2>1. CleanupEffect(p)
    BY <1>10, CleansUp
  <2>2. "gone" \notin Name
    BY Names
  <2> QED
    BY <1>0, <2>1, <2>2 DEF Contents, Locking, CleanupEffect, LInv
<1>11. ASSUME NEW p \in Proc, StoreEnd(p) PROVE Contents'
  <2>1. StoreEndEffect(p)
    BY <1>11, StoreEnds
  <2> QED
    BY <1>0, <2>1, Nobody DEF Contents, StoreEndEffect
<1>12. ASSUME NEW p \in Proc, StageEnd(p) PROVE Contents'
  <2>1. StageEndEffect(p)
    BY <1>12, StageEnds
  <2>2. "gone" \notin Name
    BY Names
  <2> QED
    BY <1>0, <2>1, <2>2, Nobody DEF Contents, Locking, StageEndEffect, LInv
<1>13. ASSUME NEW p \in Proc, List(p) PROVE Contents'
  <2>1. ListEffect(p)
    BY <1>13, Lists
  <2> QED
    BY <1>0, <2>1 DEF Contents, ListEffect
<1>14. ASSUME NEW p \in Proc, Pick(p) PROVE Contents'
  <2>1. PickEffect(p)
    BY <1>14, Picks
  <2> QED
    BY <1>0, <2>1 DEF Contents, PickEffect
<1>15. ASSUME NEW p \in Proc, EvictOpen(p) PROVE Contents'
  <2>1. EvictOpenEffect(p)
    BY <1>15, EvictOpens
  <2> QED
    BY <1>0, <2>1 DEF Contents, EvictOpenEffect
<1>16. ASSUME NEW p \in Proc, EvictLock(p) PROVE Contents'
  <2>1. EvictLockEffect(p)
    BY <1>16, EvictLocks
  <2> QED
    BY <1>0, <2>1 DEF Contents, EvictLockEffect
<1>17. ASSUME NEW p \in Proc, EvictVerify(p) PROVE Contents'
  <2>1. EvictVerifyEffect(p)
    BY <1>17, EvictVerifies
  <2> QED
    BY <1>0, <2>1 DEF Contents, EvictVerifyEffect
<1>18. ASSUME NEW p \in Proc, RmInfo(p) PROVE Contents'
  <2>1. RmInfoEffect(p)
    BY <1>18, RemovesInfo
  <2> QED
    BY <1>0, <2>1 DEF Contents, RmInfoEffect
<1>19. ASSUME NEW p \in Proc, RmData(p) PROVE Contents'
  <2>1. RmDataEffect(p)
    BY <1>19, RemovesData
  <2> QED
    BY <1>0, <2>1 DEF Contents, Locking, RmDataEffect, LInv
<1>20. ASSUME NEW p \in Proc, RmLock(p) PROVE Contents'
  <2>1. RmLockEffect(p)
    BY <1>20, RemovesLock
  <2> QED
    BY <1>0, <2>1 DEF Contents, RmLockEffect
<1>21. ASSUME NEW p \in Proc, RmDir(p) PROVE Contents'
  <2>1. RmDirEffect(p)
    BY <1>21, RemovesDir
  <2>2. "gone" \notin Name
    BY Names
  <2> QED
    BY <1>0, <2>1, <2>2 DEF Contents, RmDirEffect
<1>22. ASSUME NEW p \in Proc, Deaccount(p) PROVE Contents'
  <2>1. DeaccountEffect(p)
    BY <1>22, Deaccounts
  <2> QED
    BY <1>0, <2>1 DEF Contents, DeaccountEffect
<1>23. ASSUME NEW p \in Proc, EvictRelease(p) PROVE Contents'
  <2>1. EvictReleaseEffect(p)
    BY <1>23, EvictReleases
  <2> QED
    BY <1>0, <2>1 DEF Contents, EvictReleaseEffect
<1>24. ASSUME NEW p \in Proc, LoadOpen(p) PROVE Contents'
  <2>1. LoadOpenEffect(p)
    BY <1>24, LoadOpens
  <2> QED
    BY <1>0, <2>1 DEF Contents, LoadOpenEffect
<1>25. ASSUME NEW p \in Proc, LoadLock(p) PROVE Contents'
  <2>1. LoadLockEffect(p)
    BY <1>25, LoadLocks
  <2> QED
    BY <1>0, <2>1 DEF Contents, LoadLockEffect
<1>26. ASSUME NEW p \in Proc, LoadVerify(p) PROVE Contents'
  <2>1. LoadVerifyEffect(p)
    BY <1>26, LoadVerifies
  <2> QED
    BY <1>0, <2>1 DEF Contents, LoadVerifyEffect
<1>27. ASSUME NEW p \in Proc, LoadEnd(p) PROVE Contents'
  <2>1. LoadEndEffect(p)
    BY <1>27, LoadEnds
  <2> QED
    BY <1>0, <2>1, Nobody DEF Contents, LoadEndEffect
<1>28. ASSUME NEW p \in Proc, Crash(p) PROVE Contents'
  BY <1>0, <1>28, Crashes DEF CrashEffect
<1>29. CASE Tick \/ UNCHANGED vars
  BY <1>0, <1>29 DEF Contents, Tick, vars
<1> QED
  BY <1>1, <1>2, <1>3, <1>4, <1>5, <1>6, <1>7, <1>8, <1>9, <1>10, <1>11,
     <1>12, <1>13, <1>14, <1>15, <1>16, <1>17, <1>18, <1>19, <1>20, <1>21,
     <1>22, <1>23, <1>24, <1>25, <1>26, <1>27, <1>28, <1>29
     DEF Next, Step, StoreStep, EvictStep, LoadStep

\* What load() finds at a name with a lock file is all there, until it is evicted.
LEMMA Whole == LInv /\ Contents => LoadsWhole
<1> SUFFICES ASSUME LInv, Contents, NEW p \in Proc, NEW e \in Entry, Using(p, e)
             PROVE  ent[e].data = "whole"
  BY DEF LoadsWhole
<1>1. ReadersUndisturbed
  BY Undisturbed
<1>2. ent[e].loc \in Name /\ ent[e].lock
  BY <1>1 DEF ReadersUndisturbed, LInv, Holding, Using, At
<1>3. \A q \in Proc : proc[q].fd = e => proc[q].pc \notin {"rmData", "rmLock"}
  BY <1>1 DEF ReadersUndisturbed
<1> QED
  BY <1>2, <1>3 DEF Contents

\* While no process dies, load() hands out complete contents only.
THEOREM LoadsComplete ==
  ASSUME ~MayCrash
  PROVE  Spec => []LoadsWhole
<1>1. Init => LInv /\ Contents
  BY InitLInv, InitContents
<1>2. LInv /\ Contents /\ [Next]_vars => (LInv /\ Contents)'
  BY LInvStep, ContentsStep
<1>3. LInv /\ Contents => LoadsWhole
  BY Whole
<1> QED
  BY <1>1, <1>2, <1>3, PTL DEF Spec

-----------------------------------------------------------------------------
(***************************************************************************)
(* cache.size: what the accounting of a call relies on.                    *)
(***************************************************************************)

\* Where _remove_lru has measured an entry and not removed its lock file yet.
Removing == {"rmInfo", "rmData", "rmLock"}

\* What a call knows of its entries: the own one, as long as it is anonymous, has its
\* lock file; the path of an entry that is being removed leads to it until its lock
\* file is gone; and what was measured is at most its data and its metadata.
Known(p) ==
    \A e \in Entry :
        /\ proc[p].own = e /\ proc[p].pc = "undo" /\ ent[e].loc = "anon" => ent[e].lock
        /\ proc[p].fd = e /\ proc[p].pc \in Removing => Opens(proc[p].path, e)
        /\ proc[p].fd = e /\ proc[p].pc \in Removing \cup {"rmDir", "deaccount"} =>
              proc[p].space <= ent[e].size + Overhead

Knowing == \A p \in Proc : Known(p)

BInv == LInv /\ Knowing /\ Limited

-----------------------------------------------------------------------------
(***************************************************************************)
(* Sums over finite sets.                                                  *)
(***************************************************************************)

\* Induction, over a set of numbers: every non-empty set of numbers has a least one.
LEMMA NumberInduction ==
  ASSUME NEW A \in SUBSET Nat, 0 \in A, \A n \in A : n + 1 \in A
  PROVE  A = Nat
<1> DEFINE B == Nat \ A
<1> SUFFICES ASSUME B # {} PROVE FALSE
  OBVIOUS
<1>1. PICK x \in B : \A y \in B : ~(<<y, x>> \in OpToRel(<, Nat))
  <2>1. B \subseteq Nat
    OBVIOUS
  <2> HIDE DEF B
  <2> QED
    BY <2>1, WFMin, NatLessThanWellFounded
<1>2. x # 0 /\ x \in Nat
  OBVIOUS
<1>3. x - 1 \in Nat /\ x - 1 \in B
  <2>1. x - 1 \in Nat
    BY <1>2
  <2>2. x = (x - 1) + 1
    BY <1>2
  <2> QED
    BY <2>1, <2>2
<1>4. <<x - 1, x>> \in OpToRel(<, Nat)
  BY <1>2, <1>3 DEF OpToRel
<1> QED
  BY <1>1, <1>3, <1>4

\* ... and over the subsets of a finite set.
LEMMA SubsetInduction ==
  ASSUME NEW S, IsFiniteSet(S), NEW T \in SUBSET SUBSET S, {} \in T,
         \A s \in SUBSET S : s # {} /\ (\A x \in s : s \ {x} \in T) => s \in T
  PROVE  T = SUBSET S
<1> DEFINE A == {n \in Nat : \A s \in SUBSET S : Cardinality(s) = n => s \in T}
<1>0. \A s \in SUBSET S : IsFiniteSet(s) /\ Cardinality(s) \in Nat
  BY FS_Subset, FS_CardinalityType
<1>1. A \in SUBSET Nat
  OBVIOUS
<1>2. 0 \in A
  <2>1. \A s \in SUBSET S : Cardinality(s) = 0 => s = {}
    BY <1>0, FS_EmptySet
  <2> QED
    BY <2>1
<1>3. ASSUME NEW n \in A PROVE n + 1 \in A
  <2>1. ASSUME NEW s \in SUBSET S, Cardinality(s) = n + 1 PROVE s \in T
    <3>1. n \in Nat /\ n + 1 # 0 /\ n + 1 \in Nat
      OBVIOUS
    <3>2. s # {}
      BY <2>1, <3>1, FS_EmptySet
    <3>3. ASSUME NEW x \in s PROVE s \ {x} \in T
      <4>1. IsFiniteSet(s)
        BY <1>0
      <4>2. Cardinality(s \ {x}) = Cardinality(s) - 1
        BY <4>1, FS_RemoveElement
      <4>3. Cardinality(s \ {x}) = n
        BY <2>1, <3>1, <4>2
      <4> QED
        BY <4>3
    <3> QED
      BY <3>2, <3>3
  <2>2. n + 1 \in Nat
    OBVIOUS
  <2> QED
    BY <2>1, <2>2
<1>4. A = Nat
  <2> HIDE DEF A
  <2> QED
    BY <1>1, <1>2, <1>3, NumberInduction
<1> QED
  BY <1>0, <1>4

\* h is the sum of f over every subset of D, computed as MapThenSumSet does.
IsSum(h, f, D) ==
    h = [s \in D |-> IF s = {} THEN 0
                     ELSE f[CHOOSE x \in s : TRUE] + h[s \ {CHOOSE x \in s : TRUE}]]

LEMMA SumExists ==
  ASSUME NEW S, IsFiniteSet(S), NEW f
  PROVE  \E h : IsSum(h, f, SUBSET S)
<1> DEFINE Small(n) == {s \in SUBSET S : Cardinality(s) <= n}
           A == {n \in Nat : \E h : IsSum(h, f, Small(n))}
<1>0. \A s \in SUBSET S : /\ IsFiniteSet(s) /\ Cardinality(s) \in Nat
                          /\ Cardinality(s) <= Cardinality(S)
  BY FS_Subset, FS_CardinalityType
<1>1. A \in SUBSET Nat
  OBVIOUS
<1>2. 0 \in A
  <2> DEFINE h == [s \in Small(0) |-> 0]
  <2>1. \A s \in Small(0) : s = {}
    <3>1. ASSUME NEW s \in Small(0) PROVE s = {}
      <4>1. IsFiniteSet(s) /\ Cardinality(s) \in Nat /\ Cardinality(s) <= 0
        BY <1>0
      <4>2. Cardinality(s) = 0
        BY <4>1
      <4> QED
        BY <4>1, <4>2, FS_EmptySet
    <3> QED
      BY <3>1
  <2> HIDE DEF Small
  <2>2. IsSum(h, f, Small(0))
    BY <2>1 DEF IsSum
  <2> HIDE DEF h
  <2> QED
    BY <2>2
<1>3. ASSUME NEW n \in A PROVE n + 1 \in A
  <2>1. PICK h : IsSum(h, f, Small(n))
    OBVIOUS
  <2>2. n \in Nat /\ n + 1 \in Nat
    OBVIOUS
  <2> DEFINE c(s) == CHOOSE x \in s : TRUE
             g == [s \in Small(n + 1) |-> IF s = {} THEN 0 ELSE f[c(s)] + h[s \ {c(s)}]]
  <2>3. ASSUME NEW s \in Small(n) PROVE s \in Small(n + 1) /\ g[s] = h[s]
    <3>1. s \in Small(n + 1)
      <4>1. Cardinality(s) \in Nat /\ Cardinality(s) <= n
        BY <1>0
      <4> QED
        BY <2>2, <4>1
    <3> HIDE DEF Small
    <3>2. h[s] = IF s = {} THEN 0 ELSE f[c(s)] + h[s \ {c(s)}]
      BY <2>1, <2>3 DEF IsSum
    <3> QED
      BY <3>1, <3>2
  <2>4. ASSUME NEW s \in Small(n + 1), s # {} PROVE s \ {c(s)} \in Small(n)
    <3>1. c(s) \in s
      BY <2>4
    <3> HIDE DEF c
    <3>2. IsFiniteSet(s) /\ Cardinality(s) \in Nat /\ Cardinality(s) <= n + 1
      BY <1>0
    <3>3. Cardinality(s \ {c(s)}) = Cardinality(s) - 1
      BY <3>1, <3>2, FS_RemoveElement
    <3>4. Cardinality(s \ {c(s)}) <= n
      BY <2>2, <3>2, <3>3
    <3> QED
      BY <3>4
  <2> HIDE DEF Small
  <2>5. ASSUME NEW s \in Small(n + 1), s # {} PROVE g[s \ {c(s)}] = h[s \ {c(s)}]
    <3>1. s \ {c(s)} \in Small(n)
      BY <2>4, <2>5
    <3> HIDE DEF c, g
    <3> QED
      BY <2>3, <3>1
  <2>6. g = [s \in Small(n + 1) |-> IF s = {} THEN 0 ELSE f[c(s)] + g[s \ {c(s)}]]
    <3> HIDE DEF c
    <3>1. \A s \in Small(n + 1) : s # {} => g[s \ {c(s)}] = h[s \ {c(s)}]
      BY <2>5
    <3>2. \A s \in Small(n + 1) :
            (IF s = {} THEN 0 ELSE f[c(s)] + h[s \ {c(s)}])
              = (IF s = {} THEN 0 ELSE f[c(s)] + g[s \ {c(s)}])
      <4> HIDE DEF g
      <4> QED
        BY <3>1
    <3>3. g = [s \in Small(n + 1) |-> IF s = {} THEN 0 ELSE f[c(s)] + h[s \ {c(s)}]]
      OBVIOUS
    <3> HIDE DEF g
    <3> QED
      BY <3>2, <3>3
  <2>7. IsSum(g, f, Small(n + 1))
    <3> HIDE DEF g
    <3> QED
      BY <2>6 DEF IsSum
  <2> HIDE DEF g
  <2> QED
    BY <2>2, <2>7
<1>4. A = Nat
  <2> HIDE DEF A
  <2> QED
    BY <1>1, <1>2, <1>3, NumberInduction
<1>5. Cardinality(S) \in Nat
  BY FS_CardinalityType
<1>6. Cardinality(S) \in A
  <2> HIDE DEF A
  <2> QED
    BY <1>4, <1>5
<1>7. Small(Cardinality(S)) = SUBSET S
  BY <1>0
<1> HIDE DEF Small
<1> QED
  BY <1>6, <1>7

LEMMA TotalIsSum ==
  ASSUME NEW S, IsFiniteSet(S), NEW f
  PROVE  \E h : IsSum(h, f, SUBSET S) /\ Total(f, S) = h[S]
<1> DEFINE h == CHOOSE h : IsSum(h, f, SUBSET S)
<1>1. IsSum(h, f, SUBSET S)
  <2>1. \E i : IsSum(i, f, SUBSET S)
    BY SumExists
  <2> QED
    BY <2>1
<1>2. Total(f, S) = h[S]
  BY DEF Total, MapThenSumSet, MapThenFoldSet, IsSum
<1> QED
  BY <1>1, <1>2

\* Sums of numbers are numbers.
LEMMA TotalType ==
  ASSUME NEW S, IsFiniteSet(S), NEW f \in [S -> Nat]
  PROVE  Total(f, S) \in Nat
<1>1. PICK h : IsSum(h, f, SUBSET S) /\ Total(f, S) = h[S]
  BY TotalIsSum
<1> DEFINE T == {s \in SUBSET S : h[s] \in Nat}
<1>2. {} \in T
  BY <1>1 DEF IsSum
<1>3. ASSUME NEW s \in SUBSET S, \A x \in s : s \ {x} \in T, s # {}
      PROVE  s \in T
  <2> DEFINE x == CHOOSE x \in s : TRUE
  <2>1. x \in s /\ h[s] = f[x] + h[s \ {x}]
    BY <1>1, <1>3 DEF IsSum
  <2> HIDE DEF x
  <2>2. f[x] \in Nat /\ h[s \ {x}] \in Nat
    BY <1>3, <2>1
  <2> QED
    BY <2>1, <2>2
<1>4. T = SUBSET S
  <2>1. T \in SUBSET SUBSET S
    OBVIOUS
  <2> HIDE DEF T
  <2> QED
    BY <1>2, <1>3, <2>1, SubsetInduction
<1> QED
  BY <1>1, <1>4

\* A sum changes as much as the one summand that changes.
LEMMA TotalUpdate ==
  ASSUME NEW S, IsFiniteSet(S), NEW f \in [S -> Nat], NEW g \in [S -> Nat],
         NEW x \in S, \A y \in S \ {x} : g[y] = f[y]
  PROVE  Total(g, S) = Total(f, S) + g[x] - f[x]
<1>1. PICK i : IsSum(i, f, SUBSET S) /\ Total(f, S) = i[S]
  BY TotalIsSum
<1>2. PICK j : IsSum(j, g, SUBSET S) /\ Total(g, S) = j[S]
  BY TotalIsSum
<1> DEFINE T == {s \in SUBSET S : i[s] \in Int /\ j[s] = IF x \in s THEN i[s] + g[x] - f[x] ELSE i[s]}
<1>3. {} \in T
  BY <1>1, <1>2 DEF IsSum
<1>4. ASSUME NEW s \in SUBSET S, \A y \in s : s \ {y} \in T, s # {}
      PROVE  s \in T
  <2> DEFINE y == CHOOSE y \in s : TRUE
  <2>1. y \in s
    BY <1>4
  <2>2. i[s] = f[y] + i[s \ {y}] /\ j[s] = g[y] + j[s \ {y}]
    BY <1>1, <1>2, <1>4 DEF IsSum
  <2> HIDE DEF y
  <2>3. s \ {y} \in T /\ y \in S
    BY <1>4, <2>1
  <2>4. f[y] \in Nat /\ g[y] \in Nat /\ f[x] \in Nat /\ g[x] \in Nat
    BY <2>3
  <2>5. CASE y = x
    BY <2>1, <2>2, <2>3, <2>4, <2>5
  <2>6. CASE y # x
    <3>1. g[y] = f[y]
      BY <2>3, <2>6
    <3> QED
      BY <2>1, <2>2, <2>3, <2>4, <2>6, <3>1
  <2> QED
    BY <2>5, <2>6
<1>5. T = SUBSET S
  <2>1. T \in SUBSET SUBSET S
    OBVIOUS
  <2> HIDE DEF T
  <2> QED
    BY <1>3, <1>4, <2>1, SubsetInduction
<1> QED
  BY <1>1, <1>2, <1>5

-----------------------------------------------------------------------------
(***************************************************************************)
(* cache.size against a sum.                                               *)
(***************************************************************************)

SizeTypes ==
    /\ \A e \in Entry : Stored(e) \in Nat /\ ent[e].size \in Nat
    /\ \A p \in Proc : Share(p) \in Nat /\ proc[p].space \in Nat

\* The entries that the share of a process is about.
LEMMA Shares ==
  ASSUME LInv, NEW q \in Proc
  PROVE  /\ Reserved(q) => proc[q].own \in Entry
         /\ Removed(q) => proc[q].fd \in Entry /\ proc[q].pc \in EvictLocked
<1>1. Reserved(q) => proc[q].own \in Entry
  BY Holds DEF Reserved, At, Committed, Storing
<1>2. Removed(q) => proc[q].fd \in Entry /\ proc[q].pc \in EvictLocked
  BY Holds DEF Removed, At, EvictLocked
<1> QED
  BY <1>1, <1>2

LEMMA Sizes == LInv => SizeTypes
<1> SUFFICES ASSUME LInv PROVE SizeTypes
  OBVIOUS
<1>1. ASSUME NEW e \in Entry PROVE ent[e].size \in Nat
  BY EntryTypes DEF Entries
<1>2. ASSUME NEW e \in Entry PROVE Stored(e) \in Nat
  BY <1>1 DEF Stored
<1>3. ASSUME NEW p \in Proc PROVE proc[p].space \in Nat
  BY Holds DEF Locals
<1>4. ASSUME NEW p \in Proc PROVE Share(p) \in Nat
  <2>1. Reserved(p) => proc[p].own \in Entry
    BY Shares
  <2>2. Removed(p) => proc[p].fd \in Entry
    BY Shares
  <2> QED
    BY <1>1, <2>1, <2>2 DEF Share
<1> QED
  BY <1>1, <1>2, <1>3, <1>4 DEF SizeTypes

LEMMA SizesNext == LInv' => SizeTypes'
  BY Sizes, PTL

\* e keeps its size, and its place and its lock file: only a directory without one may
\* go away.
Alike(e) ==
    /\ ent'[e].size = ent[e].size
    /\ \/ ent'[e].loc = ent[e].loc /\ ent'[e].lock = ent[e].lock
       \/ ~ent[e].lock /\ ~ent'[e].lock /\ ent'[e].loc = "gone"

\* Only p moves.
Alone(p) == \A q \in Proc \ {p} : proc'[q] = proc[q]

\* No process but p works with e.
Private(p, e) ==
    \A q \in Proc \ {p} :
        proc[q].own # e /\ (proc[q].fd = e => proc[q].pc \notin EvictLocked)

LEMMA Privacy ==
  ASSUME LInv, NEW p \in Proc, NEW e \in Entry, ent[e].writer = p
  PROVE  Private(p, e)
  BY DEF LInv, Locking, Private

\* An entry that stays alike counts for the same.
LEMMA StoredKept ==
  ASSUME NEW e \in Entry, Alike(e)
  PROVE  Stored(e)' = Stored(e)
  BY DEF Stored, Alike

\* A step keeps the share of a process that stays where it is, with its entries, and
\* what the process knows.
LEMMA ShareKept ==
  ASSUME LInv, NEW q \in Proc, Known(q), proc'[q] = proc[q],
         proc[q].own \in Entry => Alike(proc[q].own),
         proc[q].fd \in Entry /\ proc[q].pc \in EvictLocked => Alike(proc[q].fd)
  PROVE  Share(q)' = Share(q) /\ Known(q)'
<1>1. Reserved(q)' <=> Reserved(q)
  <2>1. proc[q].pc = "undo" => proc[q].own \in Entry
    BY Holds DEF Committed
  <2>2. proc[q].pc = "undo" /\ ent[proc[q].own].loc = "anon" => ent[proc[q].own].lock
    BY <2>1 DEF Known
  <2> QED
    BY <2>1, <2>2 DEF Reserved, At, Alike
<1>2. Removed(q)' <=> Removed(q)
  BY DEF Removed
<1>3. Reserved(q) => proc[q].own \in Entry
  BY Shares
<1>4. Removed(q) => proc[q].fd \in Entry /\ proc[q].pc \in EvictLocked
  BY Shares
<1>5. Share(q)' = Share(q)
  BY <1>1, <1>2, <1>3, <1>4 DEF Share, Alike
<1>6. ASSUME NEW e \in Entry, proc[q].own = e, proc[q].pc = "undo", ent'[e].loc = "anon"
      PROVE  ent'[e].lock
  BY <1>6 DEF Known, Alike
<1>7. ASSUME NEW e \in Entry, proc[q].fd = e, proc[q].pc \in Removing
      PROVE  Opens(proc[q].path, e)'
  <2>1. Opens(proc[q].path, e)
    BY <1>7 DEF Known
  <2>2. Alike(e)
    BY <1>7 DEF Removing, EvictLocked
  <2>3. ent'[e].loc = ent[e].loc /\ ent'[e].lock
    BY <2>1, <2>2 DEF Alike, Opens
  <2> QED
    BY <2>1, <2>3 DEF Opens, InObjects, PathOf
<1>8. ASSUME NEW e \in Entry, proc[q].fd = e,
             proc[q].pc \in Removing \cup {"rmDir", "deaccount"}
      PROVE  proc[q].space <= ent'[e].size + Overhead
  <2>1. ent'[e].size = ent[e].size
    BY <1>8 DEF Removing, EvictLocked, Alike
  <2> QED
    BY <1>8, <2>1 DEF Known
<1>9. Known(q)'
  BY <1>6, <1>7, <1>8 DEF Known
<1> QED
  BY <1>5, <1>9

\* A step of p that changes the shares of p and of at most one entry, which is private.
LEMMA OneMoves ==
  ASSUME IsFiniteSet(Proc), IsFiniteSet(Entry), LInv, LInv', Knowing,
         NEW p \in Proc, NEW e \in Entry, Alone(p), Private(p, e) \/ Alike(e),
         \A f \in Entry \ {e} : Alike(f), Known(p)'
  PROVE  /\ Knowing' /\ Balance \in Int
         /\ Balance' = Balance + (csize' - csize) - (Stored(e)' - Stored(e))
                         - (Share(p)' - Share(p))
<1> DEFINE f == [x \in Entry |-> Stored(x)]
           g == [x \in Entry |-> Stored(x)']
           i == [q \in Proc |-> Share(q)]
           j == [q \in Proc |-> Share(q)']
<1>a. \A x \in Entry \ {e} : Stored(x)' = Stored(x)
  BY StoredKept
<1>b. ASSUME NEW q \in Proc \ {p} PROVE Share(q)' = Share(q) /\ Known(q)'
  <2>1. proc'[q] = proc[q] /\ Known(q)
    BY DEF Alone, Knowing
  <2>2. proc[q].own \in Entry => Alike(proc[q].own)
    BY DEF Private
  <2>3. proc[q].fd \in Entry /\ proc[q].pc \in EvictLocked => Alike(proc[q].fd)
    BY DEF Private
  <2> QED
    BY <2>1, <2>2, <2>3, ShareKept
<1>c. Knowing'
  BY <1>b DEF Knowing
<1>1. f \in [Entry -> Nat] /\ i \in [Proc -> Nat]
  BY Sizes DEF SizeTypes
<1>2. \A x \in Entry : Stored(x)' \in Nat
  BY SizesNext DEF SizeTypes
<1>3. \A q \in Proc : Share(q)' \in Nat
  BY SizesNext DEF SizeTypes
<1>4. g \in [Entry -> Nat] /\ j \in [Proc -> Nat]
  BY <1>2, <1>3
<1>5. /\ f[e] = Stored(e) /\ g[e] = Stored(e)' /\ \A x \in Entry \ {e} : g[x] = f[x]
      /\ i[p] = Share(p) /\ j[p] = Share(p)' /\ \A q \in Proc \ {p} : j[q] = i[q]
  BY <1>a, <1>b
<1>6. StoredSize = Total(f, Entry) /\ InFlight = Total(i, Proc)
  BY DEF StoredSize, InFlight
<1>7. StoredSize' = Total(g, Entry) /\ InFlight' = Total(j, Proc)
  BY DEF StoredSize, InFlight
<1>8. Stored(e) \in Nat /\ Stored(e)' \in Nat /\ Share(p) \in Nat /\ Share(p)' \in Nat
  BY <1>2, <1>3, Sizes DEF SizeTypes
<1> HIDE DEF f, g, i, j
<1>9. Total(g, Entry) = Total(f, Entry) + g[e] - f[e]
  BY <1>1, <1>4, <1>5, TotalUpdate
<1>10. Total(j, Proc) = Total(i, Proc) + j[p] - i[p]
  BY <1>1, <1>4, <1>5, TotalUpdate
<1>11. Total(f, Entry) \in Nat /\ Total(i, Proc) \in Nat
  BY <1>1, TotalType
<1>12. csize \in Nat /\ csize' \in Nat
  BY DEF LInv, TypeOK
<1>13. Balance = csize - (Total(f, Entry) + Total(i, Proc))
  BY <1>6 DEF Balance
<1>14. Balance' = csize' - (Total(g, Entry) + Total(j, Proc))
  BY <1>7 DEF Balance
<1> QED
  BY <1>c, <1>5, <1>8, <1>9, <1>10, <1>11, <1>12, <1>13, <1>14

\* A step of p that leaves all entries, cache.size and the share of p alone.
LEMMA NothingMoves ==
  ASSUME LInv, Knowing, NEW p \in Proc, Alone(p), csize' = csize,
         \A e \in Entry : Alike(e), Share(p)' = Share(p), Known(p)'
  PROVE  Knowing' /\ Balance' = Balance
<1>1. \A e \in Entry : Stored(e)' = Stored(e)
  BY StoredKept
<1>2. ASSUME NEW q \in Proc PROVE Share(q)' = Share(q) /\ Known(q)'
  <2>1. CASE q = p
    BY <2>1
  <2>2. CASE q # p
    <3>1. proc'[q] = proc[q] /\ Known(q)
      BY <2>2 DEF Alone, Knowing
    <3> QED
      BY <3>1, ShareKept
  <2> QED
    BY <2>1, <2>2
<1>3. StoredSize' = Total([e \in Entry |-> Stored(e)'], Entry)
  BY DEF StoredSize
<1>4. InFlight' = Total([q \in Proc |-> Share(q)'], Proc)
  BY DEF InFlight
<1>5. [e \in Entry |-> Stored(e)'] = [e \in Entry |-> Stored(e)]
  BY <1>1
<1>6. [q \in Proc |-> Share(q)'] = [q \in Proc |-> Share(q)]
  BY <1>2
<1>7. StoredSize' = StoredSize
  BY <1>3, <1>5 DEF StoredSize
<1>8. InFlight' = InFlight
  BY <1>4, <1>6 DEF InFlight
<1> QED
  BY <1>2, <1>7, <1>8 DEF Balance, Knowing

\* The action law of BooksKept.
Law ==
    \/ Balance' = Balance
    \/ Balance' > Balance /\ \E p \in Proc :
          \/ Crash(p)
          \/ RmDir(p) /\ proc'[p].err = "ENOTEMPTY"
          \/ UndoSize(p) /\ csize' = 0
    \/ \E p \in Proc : Deaccount(p) /\ Balance' >= Balance - Excess(p)

Kept == Knowing' /\ Law

LEMMA BooksStep ==
  ASSUME IsFiniteSet(Proc), IsFiniteSet(Entry), LInv, Knowing, [Next]_vars
  PROVE  Kept
<1>0. LInv /\ Knowing
  OBVIOUS
<1>a. LInv'
  BY LInvStep
<1>b. IsFiniteSet(Proc) /\ IsFiniteSet(Entry)
  OBVIOUS
<1>c. "anon" \notin Name /\ "stage" \notin Name /\ "gone" \notin Name /\ "unborn" \notin Name
  BY Names
<1>d. Overhead \in Nat
  BY Numbers
<1> USE DEF GoesTo, Moves, Ends, Files, Locked, Changes
<1> USE DEF Evicting, EvictLocked, Storing, Committed
<1>1. ASSUME NEW p \in Proc, NEW n \in Name, StoreBegin(p, n) PROVE Kept
  <2>1. StoreBeginEffect(p, n)
    BY <1>1, StoreBegins
  <2>2. PICK e \in Entry :
            /\ ent[e].loc = "unborn" /\ ent'[e].loc \in {"anon", "stage"}
            /\ \A f \in Entry \ {e} : ent'[f] = ent[f]
            /\ proc'[p].pc \in {"fill", "stage"}
    BY <2>1 DEF StoreBeginEffect
  <2>3. Private(p, e)
    BY <1>0, <2>2 DEF LInv, Placing, Private
  <2>4. /\ Alone(p) /\ csize' = csize /\ proc[p].pc = "idle"
        /\ \A f \in Entry \ {e} : Alike(f)
    BY <2>1, <2>2 DEF StoreBeginEffect, Alone, Alike
  <2>5. Stored(e) = 0 /\ Stored(e)' = 0
    BY <1>c, <2>2 DEF Stored
  <2>6. Share(p) = 0 /\ Share(p)' = 0
    BY <2>2, <2>4 DEF Share, Reserved, Removed, At
  <2>7. Known(p)'
    BY <2>2 DEF Known, Removing
  <2>8. /\ Knowing' /\ Balance \in Int
        /\ Balance' = Balance + (csize' - csize) - (Stored(e)' - Stored(e))
                        - (Share(p)' - Share(p))
    BY <1>0, <1>a, <1>b, <2>3, <2>4, <2>7, OneMoves
  <2>9. csize \in Nat
    BY <1>0 DEF LInv, TypeOK
  <2>10. Balance' = Balance
    BY <2>4, <2>5, <2>6, <2>8, <2>9
  <2> QED
    BY <2>8, <2>10 DEF Kept, Law
<1>2. ASSUME NEW p \in Proc, NEW n \in Name, LoadBegin(p, n) PROVE Kept
  <2>1. LoadBeginEffect(p, n)
    BY <1>2, LoadBegins
  <2>2. Alone(p) /\ csize' = csize /\ \A f \in Entry : Alike(f)
    BY <2>1 DEF LoadBeginEffect, Alone, Alike
  <2>3. Share(p) = 0 /\ Share(p)' = 0
    BY <2>1 DEF Share, Reserved, Removed, At, LoadBeginEffect
  <2>4. Known(p)'
    BY <2>1 DEF Known, Removing, LoadBeginEffect
  <2> QED
    BY <1>0, <2>2, <2>3, <2>4, NothingMoves DEF Kept, Law
<1>3. ASSUME NEW p \in Proc, Fill(p) PROVE Kept
  <2>1. FillEffect(p)
    BY <1>3, Fills
  <2>2. Alone(p) /\ csize' = csize /\ \A f \in Entry : Alike(f)
    BY <2>1 DEF FillEffect, Alone, Alike
  <2>3. Share(p) = 0 /\ Share(p)' = 0
    BY <2>1 DEF Share, Reserved, Removed, At, FillEffect
  <2>4. Known(p)'
    BY <2>1 DEF Known, Removing, FillEffect
  <2> QED
    BY <1>0, <2>2, <2>3, <2>4, NothingMoves DEF Kept, Law
<1>4. ASSUME NEW p \in Proc, CopyFails(p) PROVE Kept
  <2>1. CopyFailsEffect(p)
    BY <1>4, CopyFailing
  <2>2. Alone(p) /\ csize' = csize /\ \A f \in Entry : Alike(f)
    BY <2>1 DEF CopyFailsEffect, Alone, Alike
  <2>3. Share(p) = 0 /\ Share(p)' = 0
    BY <2>1 DEF Share, Reserved, Removed, At, CopyFailsEffect
  <2>4. Known(p)'
    BY <2>1 DEF Known, Removing, CopyFailsEffect
  <2> QED
    BY <1>0, <2>2, <2>3, <2>4, NothingMoves DEF Kept, Law
<1>5. ASSUME NEW p \in Proc, Account(p) PROVE Kept
  <2>1. AccountEffect(p)
    BY <1>5, Accounts
  <2>e. PICK e \in Entry : proc[p].own = e
    BY <2>1 DEF AccountEffect
  <2>2. proc[p].pc = "account" /\ ent' = ent
    BY <2>1 DEF AccountEffect
  <2>3. Alone(p) /\ (\A f \in Entry : Alike(f)) /\ proc'[p].own = e
    BY <2>e, <2>1, <2>2 DEF AccountEffect, Alone, Alike
  <2>4. Known(p)'
    BY <2>1 DEF Known, Removing, AccountEffect
  <2>5. Share(p) = 0
    BY <2>e, <2>2 DEF Share, Reserved, Removed, At
  <2>6. csize \in Nat /\ ent[e].size \in Nat /\ Stored(e) \in Nat
    BY <1>0, Sizes DEF LInv, TypeOK, SizeTypes
  <2>7. CASE csize' = SizeApply(csize, ent[e].size) /\ proc'[p].pc = "info"
    <3>1. Share(p)' = ent[e].size
      BY <2>e, <2>2, <2>3, <2>7 DEF Share, Reserved, At
    <3>2. csize' = csize + ent[e].size
      BY <2>6, <2>7 DEF SizeApply
    <3>3. Stored(e)' = Stored(e)
      BY <2>3, StoredKept
    <3>4. /\ Knowing' /\ Balance \in Int
          /\ Balance' = Balance + (csize' - csize) - (Stored(e)' - Stored(e))
                          - (Share(p)' - Share(p))
      BY <1>0, <1>a, <1>b, <2>3, <2>4, OneMoves
    <3>5. Balance' = Balance
      BY <2>5, <2>6, <3>1, <3>2, <3>3, <3>4
    <3> QED
      BY <3>4, <3>5 DEF Kept, Law
  <2>8. CASE csize' = csize /\ proc'[p].pc \in {"cleanup", "list"}
    <3>1. Share(p)' = 0
      BY <2>8 DEF Share, Reserved, Removed, At
    <3> QED
      BY <1>0, <2>3, <2>4, <2>5, <2>8, <3>1, NothingMoves DEF Kept, Law
  <2> QED
    BY <2>e, <2>1, <2>7, <2>8 DEF AccountEffect
<1>6. ASSUME NEW p \in Proc, WriteInfo(p) PROVE Kept
  <2>1. WriteInfoEffect(p)
    BY <1>6, WritesInfo
  <2>e. PICK e \in Entry : proc[p].own = e
    BY <2>1 DEF WriteInfoEffect
  <2>2. proc[p].pc = "info" /\ ent[e].loc = "anon" /\ ent[e].lock
    BY <2>e, <1>0, <2>1 DEF LInv, Placing, WriteInfoEffect
  <2>3. /\ Alone(p) /\ csize' = csize /\ (\A f \in Entry : Alike(f)) /\ proc'[p].own = e
        /\ proc'[p].pc \in {"rename", "undo"}
        /\ ent'[e].loc = "anon" /\ ent'[e].lock /\ ent'[e].size = ent[e].size
    BY <2>e, <2>1, <2>2 DEF WriteInfoEffect, Alone, Alike
  <2>4. Share(p) = ent[e].size
    BY <2>e, <2>2 DEF Share, Reserved
  <2>5. Share(p)' = ent[e].size
    BY <2>e, <2>3 DEF Share, Reserved, At
  <2>6. Known(p)'
    BY <2>3 DEF Known, Removing
  <2> QED
    BY <1>0, <2>3, <2>4, <2>5, <2>6, NothingMoves DEF Kept, Law
<1>7. ASSUME NEW p \in Proc, Rename(p) PROVE Kept
  <2>1. RenameEffect(p)
    BY <1>7, Renames
  <2>e. PICK e \in Entry : proc[p].own = e
    BY <2>1 DEF RenameEffect
  <2>n. PICK n \in Name : proc[p].name = n
    BY <1>0, <2>1 DEF LInv, Holding, RenameEffect
  <2>2. /\ proc[p].pc = "rename" /\ ent[e].loc = "anon" /\ ent[e].lock
        /\ ent[e].writer = p
    BY <2>e, <1>0, <2>1 DEF LInv, Placing, Locking, RenameEffect
  <2>3. Private(p, e)
    BY <1>0, <2>2, Privacy
  <2>4. /\ Alone(p) /\ csize' = csize /\ proc'[p].own = e /\ proc'[p].pc = "undo"
        /\ ent'[e].lock /\ ent'[e].size = ent[e].size
    BY <2>e, <2>1, <2>2 DEF RenameEffect, Alone
  <2>5. \A f \in Entry \ {e} : Alike(f)
    <3>1. CASE UNCHANGED ent
      BY <3>1 DEF Alike
    <3>2. CASE ~Taken(n)
      BY <2>e, <2>n, <2>1, <3>2 DEF RenameEffect, Alike, Taken, Empty
    <3> QED
      BY <2>n, <2>1, <3>1, <3>2 DEF RenameEffect
  <2>6. ent'[e].loc = n \/ ent'[e].loc = "anon"
    BY <2>e, <2>n, <2>1, <2>2 DEF RenameEffect
  <2>7. Known(p)'
    BY <2>4 DEF Known, Removing
  <2>8. csize \in Nat /\ ent[e].size \in Nat
    BY <1>0, Sizes DEF LInv, TypeOK, SizeTypes
  <2>9. Share(p) = ent[e].size /\ Stored(e) = 0
    BY <2>e, <1>c, <2>2 DEF Share, Reserved, Stored
  <2>10. \/ Share(p)' = 0 /\ Stored(e)' = ent[e].size
         \/ Share(p)' = ent[e].size /\ Stored(e)' = 0
    <3>1. CASE ent'[e].loc = n
      BY <1>c, <2>4, <3>1 DEF Share, Reserved, Removed, At, Stored
    <3>2. CASE ent'[e].loc = "anon"
      BY <1>c, <2>4, <3>2 DEF Share, Reserved, Removed, At, Stored
    <3> QED
      BY <2>6, <3>1, <3>2
  <2>11. /\ Knowing' /\ Balance \in Int
         /\ Balance' = Balance + (csize' - csize) - (Stored(e)' - Stored(e))
                         - (Share(p)' - Share(p))
    BY <1>0, <1>a, <1>b, <2>3, <2>4, <2>5, <2>7, OneMoves
  <2>12. Balance' = Balance
    BY <2>4, <2>8, <2>9, <2>10, <2>11
  <2> QED
    BY <2>11, <2>12 DEF Kept, Law
<1>8. ASSUME NEW p \in Proc, Undo(p) PROVE Kept
  <2>1. UndoEffect(p)
    BY <1>8, Undoes
  <2>e. PICK e \in Entry : proc[p].own = e
    BY <2>1 DEF UndoEffect
  <2>2. proc[p].pc = "undo"
    BY <2>1 DEF UndoEffect
  <2>3. /\ Alone(p) /\ csize' = csize /\ (\A f \in Entry : Alike(f)) /\ proc'[p].own = e
        /\ \/ ent[e].loc = "anon" /\ proc'[p].pc = "undoSize"
           \/ ent[e].loc # "anon" /\ proc'[p].pc = "cleanup"
        /\ ent'[e].size = ent[e].size
    BY <2>e, <2>1 DEF UndoEffect, Alone, Alike
  <2>4. Share(p) = Share(p)'
    BY <2>e, <2>2, <2>3 DEF Share, Reserved, Removed, At
  <2>5. Known(p)'
    BY <2>3 DEF Known, Removing
  <2> QED
    BY <1>0, <2>3, <2>4, <2>5, NothingMoves DEF Kept, Law
<1>9. ASSUME NEW p \in Proc, UndoSize(p) PROVE Kept
  <2>1. UndoSizeEffect(p)
    BY <1>9, UndoesSize
  <2>e. PICK e \in Entry : proc[p].own = e
    BY <2>1 DEF UndoSizeEffect
  <2>2. /\ proc[p].pc = "undoSize" /\ ent' = ent
        /\ csize' = SizeApply(csize, -ent[e].size)
    BY <2>e, <2>1 DEF UndoSizeEffect
  <2>3. Alone(p) /\ (\A f \in Entry : Alike(f)) /\ proc'[p].pc = "cleanup"
    BY <2>1, <2>2 DEF UndoSizeEffect, Alone, Alike
  <2>4. Share(p) = ent[e].size /\ Share(p)' = 0 /\ Stored(e)' = Stored(e)
    BY <2>e, <2>2, <2>3, StoredKept DEF Share, Reserved, Removed, At
  <2>5. csize \in Nat /\ ent[e].size \in Nat /\ Stored(e) \in Nat
    BY <1>0, Sizes DEF LInv, TypeOK, SizeTypes
  <2>6. Known(p)'
    BY <2>3 DEF Known, Removing
  <2>7. /\ Knowing' /\ Balance \in Int
        /\ Balance' = Balance + (csize' - csize) - (Stored(e)' - Stored(e))
                        - (Share(p)' - Share(p))
    BY <1>0, <1>a, <1>b, <2>3, <2>6, OneMoves
  <2>8. CASE csize - ent[e].size >= 0
    <3>1. csize' = csize - ent[e].size
      BY <2>2, <2>5, <2>8 DEF SizeApply
    <3>2. Balance' = Balance
      BY <2>4, <2>5, <2>7, <3>1
    <3> QED
      BY <2>7, <3>2 DEF Kept, Law
  <2>9. CASE csize - ent[e].size < 0
    <3>1. csize' = 0
      BY <2>2, <2>5, <2>9 DEF SizeApply
    <3>2. Balance' > Balance
      BY <2>4, <2>5, <2>7, <2>9, <3>1
    <3> QED
      BY <1>9, <2>7, <3>1, <3>2 DEF Kept, Law
  <2> QED
    BY <2>5, <2>8, <2>9
<1>10. ASSUME NEW p \in Proc, Cleanup(p) PROVE Kept
  <2>1. CleanupEffect(p)
    BY <1>10, CleansUp
  <2>e. PICK e \in Entry : proc[p].own = e
    BY <2>1 DEF CleanupEffect
  <2>2. proc[p].pc = "cleanup" /\ ent[e].writer = p
    BY <2>e, <1>0, <2>1 DEF LInv, Locking, CleanupEffect
  <2>3. Private(p, e)
    BY <1>0, <2>2, Privacy
  <2>4. /\ Alone(p) /\ csize' = csize /\ proc'[p].pc = "unlock"
        /\ \A f \in Entry \ {e} : Alike(f)
    BY <2>e, <2>1 DEF CleanupEffect, Alone, Alike
  <2>5. Share(p) = 0 /\ Share(p)' = 0
    BY <2>2, <2>4 DEF Share, Reserved, Removed, At
  <2>6. Stored(e)' = Stored(e)
    BY <2>e, <1>c, <2>1 DEF CleanupEffect, Stored
  <2>7. Known(p)'
    BY <2>4 DEF Known, Removing
  <2>8. csize \in Nat /\ Stored(e) \in Nat
    BY <1>0, Sizes DEF LInv, TypeOK, SizeTypes
  <2>9. /\ Knowing' /\ Balance \in Int
        /\ Balance' = Balance + (csize' - csize) - (Stored(e)' - Stored(e))
                        - (Share(p)' - Share(p))
    BY <1>0, <1>a, <1>b, <2>3, <2>4, <2>7, OneMoves
  <2>10. Balance' = Balance
    BY <2>4, <2>5, <2>6, <2>8, <2>9
  <2> QED
    BY <2>9, <2>10 DEF Kept, Law
<1>11. ASSUME NEW p \in Proc, StoreEnd(p) PROVE Kept
  <2>1. StoreEndEffect(p)
    BY <1>11, StoreEnds
  <2>2. Alone(p) /\ csize' = csize /\ \A f \in Entry : Alike(f)
    BY <2>1 DEF StoreEndEffect, Alone, Alike
  <2>3. Share(p) = 0 /\ Share(p)' = 0
    BY <2>1 DEF Share, Reserved, Removed, At, StoreEndEffect
  <2>4. Known(p)'
    BY <2>1 DEF Known, Removing, StoreEndEffect
  <2> QED
    BY <1>0, <2>2, <2>3, <2>4, NothingMoves DEF Kept, Law
<1>12. ASSUME NEW p \in Proc, StageEnd(p) PROVE Kept
  <2>1. StageEndEffect(p)
    BY <1>12, StageEnds
  <2>e. PICK e \in Entry : proc[p].own = e
    BY <2>1 DEF StageEndEffect
  <2>2. proc[p].pc = "stage" /\ ent[e].writer = p /\ ent[e].loc = "stage"
    BY <2>e, <1>0, <2>1 DEF LInv, Locking, Placing, StageEndEffect
  <2>3. Private(p, e)
    BY <1>0, <2>2, Privacy
  <2>4. /\ Alone(p) /\ csize' = csize /\ proc'[p].pc = "idle" /\ ent'[e].loc = "gone"
        /\ \A f \in Entry \ {e} : Alike(f)
    BY <2>e, <2>1 DEF StageEndEffect, Alone, Alike
  <2>5. Share(p) = 0 /\ Share(p)' = 0
    BY <2>2, <2>4 DEF Share, Reserved, Removed, At
  <2>6. Stored(e) = 0 /\ Stored(e)' = 0
    BY <1>c, <2>2, <2>4 DEF Stored
  <2>7. Known(p)'
    BY <2>4 DEF Known, Removing
  <2>8. csize \in Nat
    BY <1>0 DEF LInv, TypeOK
  <2>9. /\ Knowing' /\ Balance \in Int
        /\ Balance' = Balance + (csize' - csize) - (Stored(e)' - Stored(e))
                        - (Share(p)' - Share(p))
    BY <1>0, <1>a, <1>b, <2>3, <2>4, <2>7, OneMoves
  <2>10. Balance' = Balance
    BY <2>4, <2>5, <2>6, <2>8, <2>9
  <2> QED
    BY <2>9, <2>10 DEF Kept, Law
<1>13. ASSUME NEW p \in Proc, List(p) PROVE Kept
  <2>1. ListEffect(p)
    BY <1>13, Lists
  <2>2. Alone(p) /\ csize' = csize /\ \A f \in Entry : Alike(f)
    BY <2>1 DEF ListEffect, Alone, Alike
  <2>3. Share(p) = 0 /\ Share(p)' = 0
    BY <2>1 DEF Share, Reserved, Removed, At, ListEffect
  <2>4. Known(p)'
    BY <2>1 DEF Known, Removing, ListEffect
  <2> QED
    BY <1>0, <2>2, <2>3, <2>4, NothingMoves DEF Kept, Law
<1>14. ASSUME NEW p \in Proc, Pick(p) PROVE Kept
  <2>1. PickEffect(p)
    BY <1>14, Picks
  <2>2. Alone(p) /\ csize' = csize /\ \A f \in Entry : Alike(f)
    BY <2>1 DEF PickEffect, Alone, Alike
  <2>3. Share(p) = 0 /\ Share(p)' = 0
    BY <2>1 DEF Share, Reserved, Removed, At, PickEffect
  <2>4. Known(p)'
    BY <2>1 DEF Known, Removing, PickEffect
  <2> QED
    BY <1>0, <2>2, <2>3, <2>4, NothingMoves DEF Kept, Law
<1>15. ASSUME NEW p \in Proc, EvictOpen(p) PROVE Kept
  <2>1. EvictOpenEffect(p)
    BY <1>15, EvictOpens
  <2>2. Alone(p) /\ csize' = csize /\ \A f \in Entry : Alike(f)
    BY <2>1 DEF EvictOpenEffect, Alone, Alike
  <2>3. Share(p) = 0 /\ Share(p)' = 0
    BY <2>1 DEF Share, Reserved, Removed, At, EvictOpenEffect
  <2>4. Known(p)'
    BY <2>1 DEF Known, Removing, EvictOpenEffect
  <2> QED
    BY <1>0, <2>2, <2>3, <2>4, NothingMoves DEF Kept, Law
<1>16. ASSUME NEW p \in Proc, EvictLock(p) PROVE Kept
  <2>1. EvictLockEffect(p)
    BY <1>16, EvictLocks
  <2>2. Alone(p) /\ csize' = csize /\ \A f \in Entry : Alike(f)
    BY <2>1 DEF EvictLockEffect, Alone, Alike
  <2>3. Share(p) = 0 /\ Share(p)' = 0
    BY <2>1 DEF Share, Reserved, Removed, At, EvictLockEffect
  <2>4. Known(p)'
    BY <2>1 DEF Known, Removing, EvictLockEffect
  <2> QED
    BY <1>0, <2>2, <2>3, <2>4, NothingMoves DEF Kept, Law
<1>17. ASSUME NEW p \in Proc, EvictVerify(p) PROVE Kept
  <2>1. EvictVerifyEffect(p)
    BY <1>17, EvictVerifies
  <2>2. Alone(p) /\ csize' = csize /\ \A f \in Entry : Alike(f)
    BY <2>1 DEF EvictVerifyEffect, Alone, Alike
  <2>3. Share(p) = 0 /\ Share(p)' = 0
    BY <2>1 DEF Share, Reserved, Removed, At, EvictVerifyEffect
  <2>4. Known(p)'
    <3> DEFINE e == proc[p].fd
    <3>1. CASE \E l \in {"evOpen", "pick"} :
                 /\ Locked(e, NoProc, ent[e].readers)
                 /\ Moves(p, l, NoEntry, proc[p].path, proc[p].space, proc[p].keep)
      BY <3>1 DEF Known, Removing
    <3>2. CASE /\ Opens(proc[p].path, e) /\ UNCHANGED ent
               /\ \E s \in Space(e) : Moves(p, "rmInfo", e, proc[p].path, s, proc[p].keep)
      <4>1. e \in Entry
        BY <2>1 DEF EvictVerifyEffect
      <4>2. \A s \in Space(e) : s <= ent[e].size + Overhead
        BY <1>0, <4>1, Spaces
      <4>3. /\ proc'[p].fd = e /\ proc'[p].pc = "rmInfo" /\ proc'[p].path = proc[p].path
            /\ proc'[p].space <= ent[e].size + Overhead
        BY <3>2, <4>2
      <4>4. Opens(proc[p].path, e)'
        BY <3>2 DEF Opens, InObjects, PathOf
      <4> HIDE DEF e
      <4> QED
        BY <3>2, <4>3, <4>4 DEF Known, Opens, InObjects, PathOf
    <3> QED
      BY <2>1, <3>1, <3>2 DEF EvictVerifyEffect
  <2> QED
    BY <1>0, <2>2, <2>3, <2>4, NothingMoves DEF Kept, Law
<1>18. ASSUME NEW p \in Proc, RmInfo(p) PROVE Kept
  <2>1. RmInfoEffect(p)
    BY <1>18, RemovesInfo
  <2>e. PICK e \in Entry : proc[p].fd = e
    BY <2>1 DEF RmInfoEffect
  <2>2. proc[p].pc = "rmInfo" /\ Opens(proc[p].path, e) /\ proc[p].space <= ent[e].size + Overhead
    BY <2>e, <1>0, <2>1 DEF Knowing, Known, Removing, RmInfoEffect
  <2>3. /\ Alone(p) /\ csize' = csize /\ (\A f \in Entry : Alike(f))
        /\ proc'[p].pc \in {"rmData"} /\ proc'[p].fd = e
        /\ proc'[p].path = proc[p].path /\ proc'[p].space = proc[p].space
        /\ ent'[e].loc = ent[e].loc /\ ent'[e].lock = ent[e].lock
        /\ ent'[e].size = ent[e].size
    BY <2>e, <2>1 DEF RmInfoEffect, Alone, Alike
  <2>4. Share(p) = 0 /\ Share(p)' = 0
    BY <2>2, <2>3 DEF Share, Reserved, Removed, At
  <2>5. Opens(proc[p].path, e)'
    BY <2>2, <2>3 DEF Opens, InObjects, PathOf
  <2>6. Known(p)'
    BY <2>2, <2>3, <2>5 DEF Known, Removing, Opens, InObjects, PathOf
  <2> QED
    BY <1>0, <2>3, <2>4, <2>6, NothingMoves DEF Kept, Law
<1>19. ASSUME NEW p \in Proc, RmData(p) PROVE Kept
  <2>1. RmDataEffect(p)
    BY <1>19, RemovesData
  <2>e. PICK e \in Entry : proc[p].fd = e
    BY <2>1 DEF RmDataEffect
  <2>2. proc[p].pc = "rmData" /\ Opens(proc[p].path, e) /\ proc[p].space <= ent[e].size + Overhead
    BY <2>e, <1>0, <2>1 DEF Knowing, Known, Removing, RmDataEffect
  <2>3. /\ Alone(p) /\ csize' = csize /\ (\A f \in Entry : Alike(f))
        /\ proc'[p].pc \in {"rmData", "rmLock"} /\ proc'[p].fd = e
        /\ proc'[p].path = proc[p].path /\ proc'[p].space = proc[p].space
        /\ ent'[e].loc = ent[e].loc /\ ent'[e].lock = ent[e].lock
        /\ ent'[e].size = ent[e].size
    BY <2>e, <2>1 DEF RmDataEffect, Alone, Alike
  <2>4. Share(p) = 0 /\ Share(p)' = 0
    BY <2>2, <2>3 DEF Share, Reserved, Removed, At
  <2>5. Opens(proc[p].path, e)'
    BY <2>2, <2>3 DEF Opens, InObjects, PathOf
  <2>6. Known(p)'
    BY <2>2, <2>3, <2>5 DEF Known, Removing, Opens, InObjects, PathOf
  <2> QED
    BY <1>0, <2>3, <2>4, <2>6, NothingMoves DEF Kept, Law
<1>20. ASSUME NEW p \in Proc, RmLock(p) PROVE Kept
  <2>1. RmLockEffect(p)
    BY <1>20, RemovesLock
  <2>e. PICK e \in Entry : proc[p].fd = e
    BY <2>1 DEF RmLockEffect
  <2>2. /\ proc[p].pc = "rmLock" /\ ent[e].writer = p
        /\ Opens(proc[p].path, e) /\ proc[p].space <= ent[e].size + Overhead
    BY <2>e, <1>0, <2>1 DEF Knowing, Known, Removing, LInv, Locking, RmLockEffect
  <2>3. Private(p, e)
    BY <1>0, <2>2, Privacy
  <2>4. /\ Alone(p) /\ csize' = csize /\ (\A f \in Entry \ {e} : Alike(f))
        /\ proc'[p].pc = "rmDir" /\ proc'[p].fd = e
        /\ proc'[p].path = proc[p].path /\ proc'[p].space = proc[p].space
        /\ ~ent'[e].lock /\ ent'[e].size = ent[e].size
    BY <2>e, <2>1 DEF RmLockEffect, Alone, Alike
  <2>5. proc[p].path \in Name <=> ent[e].loc \in Name
    BY <1>c, <2>2, Names DEF Opens, InObjects, PathOf
  <2>6. csize \in Nat /\ ent[e].size \in Nat
    BY <1>0, Sizes DEF LInv, TypeOK, SizeTypes
  <2>7. Stored(e) = (IF proc[p].path \in Name THEN ent[e].size ELSE 0) /\ Stored(e)' = 0
    BY <2>2, <2>4, <2>5 DEF Stored, Opens
  <2>8. Share(p) = 0 /\ Share(p)' = IF proc[p].path \in Name THEN ent[e].size ELSE 0
    BY <2>2, <2>4 DEF Share, Reserved, Removed, At
  <2>9. Known(p)'
    BY <2>2, <2>4 DEF Known, Removing
  <2>10. /\ Knowing' /\ Balance \in Int
         /\ Balance' = Balance + (csize' - csize) - (Stored(e)' - Stored(e))
                         - (Share(p)' - Share(p))
    BY <1>0, <1>a, <1>b, <2>3, <2>4, <2>9, OneMoves
  <2>11. Balance' = Balance
    BY <2>4, <2>6, <2>7, <2>8, <2>10
  <2> QED
    BY <2>10, <2>11 DEF Kept, Law
<1>21. ASSUME NEW p \in Proc, RmDir(p) PROVE Kept
  <2>1. RmDirEffect(p)
    BY <1>21, RemovesDir
  <2>e. PICK e \in Entry : proc[p].fd = e
    BY <2>1 DEF RmDirEffect
  <2>2. proc[p].pc = "rmDir" /\ proc[p].space <= ent[e].size + Overhead
    BY <2>e, <1>0, <2>1 DEF Knowing, Known, RmDirEffect
  <2>3. Alone(p) /\ csize' = csize /\ \A f \in Entry : Alike(f)
    BY <2>1 DEF RmDirEffect, Alone, Alike, Empty
  <2>4. CASE /\ proc'[p].pc = "deaccount" /\ proc'[p].fd = e
             /\ proc'[p].path = proc[p].path /\ proc'[p].space = proc[p].space
    <3>1. ent'[e].size = ent[e].size
      BY <2>3 DEF Alike
    <3>2. Share(p)' = Share(p)
      BY <2>e, <2>2, <2>4, <3>1 DEF Share, Reserved, Removed, At
    <3>3. Known(p)'
      BY <2>2, <2>4, <3>1 DEF Known, Removing
    <3> QED
      BY <1>0, <2>3, <3>2, <3>3, NothingMoves DEF Kept, Law
  <2>5. CASE proc'[p].pc = "cleanup" /\ proc'[p].err = "ENOTEMPTY"
    <3>1. Share(p)' = 0 /\ Known(p)'
      BY <2>5 DEF Share, Reserved, Removed, At, Known, Removing
    <3>2. Stored(e)' = Stored(e)
      BY <2>3, StoredKept
    <3>3. csize \in Nat /\ Share(p) \in Nat /\ Stored(e) \in Nat
      BY <1>0, Sizes DEF LInv, TypeOK, SizeTypes
    <3>4. /\ Knowing' /\ Balance \in Int
          /\ Balance' = Balance + (csize' - csize) - (Stored(e)' - Stored(e))
                          - (Share(p)' - Share(p))
      BY <1>0, <1>a, <1>b, <2>3, <3>1, OneMoves
    <3>5. Balance' >= Balance /\ Balance' \in Int
      BY <2>3, <3>1, <3>2, <3>3, <3>4
    <3>6. Balance' = Balance \/ Balance' > Balance
      BY <3>4, <3>5
    <3> QED
      BY <1>21, <2>5, <3>4, <3>6 DEF Kept, Law
  <2> QED
    BY <2>e, <2>1, <2>4, <2>5 DEF RmDirEffect
<1>22. ASSUME NEW p \in Proc, Deaccount(p) PROVE Kept
  <2>1. DeaccountEffect(p)
    BY <1>22, Deaccounts
  <2>e. PICK e \in Entry : proc[p].fd = e
    BY <2>1 DEF DeaccountEffect
  <2>2. /\ proc[p].pc = "deaccount" /\ ent' = ent
        /\ csize' = SizeApply(csize, -proc[p].space)
        /\ proc[p].space <= ent[e].size + Overhead
    BY <2>e, <1>0, <2>1 DEF Knowing, Known, DeaccountEffect
  <2>3. Alone(p) /\ (\A f \in Entry : Alike(f)) /\ proc'[p].pc = "evRelease"
    BY <2>1, <2>2 DEF DeaccountEffect, Alone, Alike
  <2>4. Share(p) = (IF proc[p].path \in Name THEN ent[e].size ELSE 0) /\ Share(p)' = 0
    BY <2>e, <2>2, <2>3 DEF Share, Reserved, Removed, At
  <2>5. Stored(e)' = Stored(e)
    BY <2>3, StoredKept
  <2>6. /\ csize \in Nat /\ proc[p].space \in Nat /\ Stored(e) \in Nat
        /\ ent[e].size \in Nat
    BY <1>0, Sizes DEF LInv, TypeOK, SizeTypes
  <2>7. Known(p)'
    BY <2>3 DEF Known, Removing
  <2>8. /\ Knowing' /\ Balance \in Int
        /\ Balance' = Balance + (csize' - csize) - (Stored(e)' - Stored(e))
                        - (Share(p)' - Share(p))
    BY <1>0, <1>a, <1>b, <2>3, <2>7, OneMoves
  <2>9. csize' >= csize - proc[p].space /\ csize' \in Nat
    BY <2>2, <2>6 DEF SizeApply
  <2>10. CASE proc[p].path \in Name
    <3>1. Balance' >= Balance - Overhead
      BY <1>d, <2>2, <2>4, <2>5, <2>6, <2>8, <2>9, <2>10
    <3> QED
      BY <1>22, <2>8, <2>10, <3>1 DEF Kept, Law, Excess
  <2>11. CASE proc[p].path \notin Name
    <3>1. Balance' >= Balance - proc[p].space
      BY <2>4, <2>5, <2>6, <2>8, <2>9, <2>11
    <3> QED
      BY <1>22, <2>8, <2>11, <3>1 DEF Kept, Law, Excess
  <2> QED
    BY <2>10, <2>11
<1>23. ASSUME NEW p \in Proc, EvictRelease(p) PROVE Kept
  <2>1. EvictReleaseEffect(p)
    BY <1>23, EvictReleases
  <2>2. Alone(p) /\ csize' = csize /\ \A f \in Entry : Alike(f)
    BY <2>1 DEF EvictReleaseEffect, Alone, Alike
  <2>3. Share(p) = 0 /\ Share(p)' = 0
    BY <2>1 DEF Share, Reserved, Removed, At, EvictReleaseEffect
  <2>4. Known(p)'
    BY <2>1 DEF Known, Removing, EvictReleaseEffect
  <2> QED
    BY <1>0, <2>2, <2>3, <2>4, NothingMoves DEF Kept, Law
<1>24. ASSUME NEW p \in Proc, LoadOpen(p) PROVE Kept
  <2>1. LoadOpenEffect(p)
    BY <1>24, LoadOpens
  <2>2. Alone(p) /\ csize' = csize /\ \A f \in Entry : Alike(f)
    BY <2>1 DEF LoadOpenEffect, Alone, Alike
  <2>3. Share(p) = 0 /\ Share(p)' = 0
    BY <2>1 DEF Share, Reserved, Removed, At, LoadOpenEffect
  <2>4. Known(p)'
    BY <2>1 DEF Known, Removing, LoadOpenEffect
  <2> QED
    BY <1>0, <2>2, <2>3, <2>4, NothingMoves DEF Kept, Law
<1>25. ASSUME NEW p \in Proc, LoadLock(p) PROVE Kept
  <2>1. LoadLockEffect(p)
    BY <1>25, LoadLocks
  <2>2. Alone(p) /\ csize' = csize /\ \A f \in Entry : Alike(f)
    BY <2>1 DEF LoadLockEffect, Alone, Alike
  <2>3. Share(p) = 0 /\ Share(p)' = 0
    BY <2>1 DEF Share, Reserved, Removed, At, LoadLockEffect
  <2>4. Known(p)'
    BY <2>1 DEF Known, Removing, LoadLockEffect
  <2> QED
    BY <1>0, <2>2, <2>3, <2>4, NothingMoves DEF Kept, Law
<1>26. ASSUME NEW p \in Proc, LoadVerify(p) PROVE Kept
  <2>1. LoadVerifyEffect(p)
    BY <1>26, LoadVerifies
  <2>2. Alone(p) /\ csize' = csize /\ \A f \in Entry : Alike(f)
    BY <2>1 DEF LoadVerifyEffect, Alone, Alike
  <2>3. Share(p) = 0 /\ Share(p)' = 0
    BY <2>1 DEF Share, Reserved, Removed, At, LoadVerifyEffect
  <2>4. Known(p)'
    BY <2>1 DEF Known, Removing, LoadVerifyEffect
  <2> QED
    BY <1>0, <2>2, <2>3, <2>4, NothingMoves DEF Kept, Law
<1>27. ASSUME NEW p \in Proc, LoadEnd(p) PROVE Kept
  <2>1. LoadEndEffect(p)
    BY <1>27, LoadEnds
  <2>2. Alone(p) /\ csize' = csize /\ \A f \in Entry : Alike(f)
    BY <2>1 DEF LoadEndEffect, Alone, Alike
  <2>3. Share(p) = 0 /\ Share(p)' = 0
    BY <2>1 DEF Share, Reserved, Removed, At, LoadEndEffect
  <2>4. Known(p)'
    BY <2>1 DEF Known, Removing, LoadEndEffect
  <2> QED
    BY <1>0, <2>2, <2>3, <2>4, NothingMoves DEF Kept, Law
<1>28. ASSUME NEW p \in Proc, Crash(p) PROVE Kept
  <2>1. CrashEffect(p)
    BY <1>28, Crashes
  <2>2. Alone(p) /\ csize' = csize /\ proc'[p].pc = "idle" /\ \A f \in Entry : Alike(f)
    BY <2>1 DEF CrashEffect, Alone, Alike
  <2>3. Share(p)' = 0 /\ Known(p)'
    BY <2>2 DEF Share, Reserved, Removed, At, Known, Removing
  <2>4. CASE Share(p) = 0
    BY <1>0, <2>2, <2>3, <2>4, NothingMoves DEF Kept, Law
  <2>5. CASE Share(p) # 0
    <3>1. PICK e \in Entry : TRUE
      <4>1. Reserved(p) \/ Removed(p)
        BY <2>5 DEF Share
      <4> QED
        BY <1>0, <4>1, Shares
    <3>2. Stored(e)' = Stored(e)
      BY <2>2, StoredKept
    <3>3. csize \in Nat /\ Share(p) \in Nat /\ Stored(e) \in Nat
      BY <1>0, Sizes DEF LInv, TypeOK, SizeTypes
    <3>4. /\ Knowing' /\ Balance \in Int
          /\ Balance' = Balance + (csize' - csize) - (Stored(e)' - Stored(e))
                          - (Share(p)' - Share(p))
      BY <1>0, <1>a, <1>b, <2>2, <2>3, OneMoves
    <3>5. Balance' > Balance
      BY <2>2, <2>3, <2>5, <3>2, <3>3, <3>4
    <3> QED
      BY <1>28, <3>4, <3>5 DEF Kept, Law
  <2> QED
    BY <2>4, <2>5
<1>29. CASE Tick \/ UNCHANGED vars
  <2>1. ent' = ent /\ csize' = csize /\ proc' = proc
    BY <1>29 DEF Tick, vars
  <2>2. StoredSize' = StoredSize
    BY <2>1 DEF StoredSize, Stored
  <2>3. InFlight' = InFlight
    BY <2>1 DEF InFlight, Share, Reserved, Removed, At
  <2>4. Knowing'
    BY <1>0, <2>1 DEF Knowing, Known, Opens, InObjects, PathOf
  <2> QED
    BY <2>1, <2>2, <2>3, <2>4 DEF Kept, Law, Balance
<1> QED
  BY <1>1, <1>2, <1>3, <1>4, <1>5, <1>6, <1>7, <1>8, <1>9, <1>10, <1>11,
     <1>12, <1>13, <1>14, <1>15, <1>16, <1>17, <1>18, <1>19, <1>20, <1>21,
     <1>22, <1>23, <1>24, <1>25, <1>26, <1>27, <1>28, <1>29
     DEF Next, Step, StoreStep, EvictStep, LoadStep

\* The limit is a number.
LEMMA Limits == MaxSize \in Int
<1>1. MaxSize \in Nat \cup {-1}
  BY CacheAssumption
<1> QED
  BY <1>1

\* Where cache.size changes, and that it only grows below the limit.
LEMMA LimitedStep ==
  ASSUME LInv, Limited, [Next]_vars
  PROVE  Limited'
<1>1. csize \in Nat
  BY DEF LInv, TypeOK
<1>2. ASSUME NEW s \in Nat, csize' = SizeApply(csize, -s) PROVE Limited'
  <2>1. csize' <= csize
    BY <1>1, <1>2 DEF SizeApply
  <2>2. csize' \in Nat
    BY <1>1, <1>2 DEF SizeApply
  <2> QED
    BY <1>1, <2>1, <2>2, Limits DEF Limited
<1>3. ASSUME NEW p \in Proc, Account(p) PROVE Limited'
  <2>1. AccountEffect(p)
    BY <1>3, Accounts
  <2>2. PICK s \in Nat : s = ent[proc[p].own].size
    BY <2>1, Sizes DEF AccountEffect, SizeTypes
  <2>3. CASE csize' = csize
    BY <2>3 DEF Limited
  <2>4. CASE SizeAccept(csize, s) /\ csize' = SizeApply(csize, s)
    <3>1. MaxSize \in Int
      BY Limits
    <3> QED
      BY <1>1, <2>4, <3>1 DEF Limited, SizeAccept, SizeApply
  <2> QED
    BY <2>1, <2>2, <2>3, <2>4 DEF AccountEffect
<1>4. ASSUME NEW p \in Proc, UndoSize(p) PROVE Limited'
  <2>1. UndoSizeEffect(p)
    BY <1>4, UndoesSize
  <2>2. PICK s \in Nat : s = ent[proc[p].own].size
    BY <2>1, Sizes DEF UndoSizeEffect, SizeTypes
  <2> QED
    BY <1>2, <2>1, <2>2 DEF UndoSizeEffect
<1>5. ASSUME NEW p \in Proc, Deaccount(p) PROVE Limited'
  <2>1. DeaccountEffect(p)
    BY <1>5, Deaccounts
  <2>2. proc[p].space \in Nat
    BY Sizes DEF SizeTypes
  <2> QED
    BY <1>2, <2>1, <2>2 DEF DeaccountEffect
<1>6. CASE csize' = csize
  BY <1>6 DEF Limited
<1> QED
  BY <1>3, <1>4, <1>5, <1>6, ZenonT(40)
     DEF Next, Step, StoreStep, EvictStep, LoadStep, StoreBegin, LoadBegin, Fill, CopyFails,
         WriteInfo, Rename, Undo, Cleanup, StoreEnd, StageEnd, List, Pick, EvictOpen,
         EvictLock, EvictVerify, RmInfo, RmData, RmLock, RmDir, EvictRelease, LoadOpen,
         LoadLock, LoadVerify, LoadEnd, Crash, Tick, vars

LEMMA InitBInv == Init => BInv
<1> SUFFICES ASSUME Init PROVE BInv
  OBVIOUS
<1>1. /\ csize = 0
      /\ \A p \in Proc : proc[p].pc = "idle" /\ proc[p].own = NoEntry
  BY DEF Init, Idle
<1>2. LInv
  BY InitLInv
<1>3. Knowing
  BY <1>1 DEF Knowing, Known, Removing
<1>4. Limited
  BY <1>1 DEF Limited
<1> QED
  BY <1>2, <1>3, <1>4 DEF BInv

\* The accounting of store() and eviction, for all processes, names, sizes and
\* interleavings, failures and deaths included: cache.size stays within the limit; what
\* it has too little grows only when _remove_lru de-accounts an entry, by the space of
\* its metadata (or of a directory that store() forgot); what it has too much, only
\* when a process dies or an rmdir fails between the two updates, or when a
\* subtraction is capped at 0.
THEOREM BooksBalance ==
  ASSUME IsFiniteSet(Proc), IsFiniteSet(Entry)
  PROVE  Spec => BooksKept
<1>1. Init => BInv
  BY InitBInv
<1>2. BInv /\ [Next]_vars => BInv' /\ [Law]_vars
  <2> SUFFICES ASSUME BInv, [Next]_vars PROVE BInv' /\ Law
    OBVIOUS
  <2>1. LInv /\ Knowing /\ Limited
    BY DEF BInv
  <2>2. LInv' /\ Limited'
    BY <2>1, LInvStep, LimitedStep
  <2>3. Kept
    BY <2>1, BooksStep
  <2> QED
    BY <2>2, <2>3 DEF BInv, Kept
<1>3. BInv => TypeOK /\ Limited
  BY DEF BInv, LInv
<1> QED
  BY <1>1, <1>2, <1>3, PTL DEF Spec, BooksKept, Law
=============================================================================
