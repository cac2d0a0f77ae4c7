------------------------- MODULE LoopDevicesProofs --------------------------
(***************************************************************************)
(* Proofs about LoopDevices, for any users and minor numbers: that a       *)
(* device belongs to whoever has configured it until he closes it, and     *)
(* that nothing stays bound or locked when all are done.                   *)
(***************************************************************************)
EXTENDS LoopDevices, TLAPS

\* Where a user has a Loop object, where that is open, and where the device is bound to
\* the user's file.
Holding == {"setup", "lock", "configure", "status", "clear", "exit"} \cup Using \cup Closing
Placed == Holding \cup {"init"}
Owning == {"status", "clear", "bound", "use", "flush", "clear_fd", "exit"}

\* What a user has at each point.
UserOK(u) ==
    /\ user[u].at \in Placed <=> user[u].minor # NoMinor
    /\ \A m \in Minors : u \in dev[m].opened <=>
          user[u].minor = m /\ user[u].at \in Holding
    /\ \A m \in Minors : dev[m].locked = u <=>
          user[u].minor = m /\ u \in Locking /\ user[u].at \in Holding \ {"setup", "lock"}
    /\ \A m \in Minors : user[u].minor = m /\ user[u].at \in Owning => dev[m].file = u
    /\ \A m \in Minors :
          /\ user[u].minor = m
          /\ \/ user[u].at = "clear_fd"
             \/ user[u].at = "get_status" /\ dev[m].file = u
          => dev[m].flushed
    /\ user[u].at = "lock" => u \in Locking
    /\ user[u].at \in {"status", "clear"} => legacy
    /\ u \in Requests => user[u].at \notin Closing \cup {"exit"}

\* The device is bound as long as somebody has it open, or until its user sets autoclear
\* on an old kernel, or for ever when he was killed before.
Kept(m) ==
    \/ dev[m].file = NoUser
    \/ dev[m].autoclear /\ dev[m].opened # {}
    \/ /\ legacy
       /\ \/ user[dev[m].file].at = "killed"
          \/ user[dev[m].file].at \in {"status", "clear"} /\ user[dev[m].file].minor = m

DeviceOK(m) ==
    Kept(m) /\ (dev[m].opened # {} \/ dev[m].file # NoUser => dev[m].present)

\* The LoopServer serves its requests one after the other.
Apart ==
    \A r, s \in Requests : r # s /\ user[r].minor # NoMinor => user[r].minor # user[s].minor

\* A lock file is that of a service that has the device open, unless one was killed.
Inhibition ==
    \A m \in inhibited : \E s \in Services :
        \/ user[s].at = "killed"
        \/ user[s].minor = m /\ user[s].at \in Holding \ {"setup"}

DevInv ==
    /\ TypeOK /\ lost = {}
    /\ (\A u \in Users : UserOK(u)) /\ (\A m \in Minors : DeviceOK(m))
    /\ Apart /\ Inhibition

-----------------------------------------------------------------------------
(***************************************************************************)
(* What the kernel does with a device when one of its users acts: those    *)
(* who have it open besides keep it, and what is bound to their file stays *)
(* so.                                                                     *)
(***************************************************************************)
Spares(d, e, u) ==
    \A w \in Users \ {u} :
        /\ w \in e.opened <=> w \in d.opened
        /\ e.locked = w <=> d.locked = w
        /\ e.file = w => d.file = w
        /\ w \in d.opened /\ d.file = w => e.file = w /\ (d.flushed => e.flushed)

LEMMA Nobody == NoUser \notin Users /\ Other \notin Users /\ NoMinor \notin Minors
  BY LoopAssumption

LEMMA Opening ==
  ASSUME NEW d \in Device, NEW u \in Users \cup {Other}
  PROVE  /\ Opened(d, u) \in Device /\ Spares(d, Opened(d, u), u)
         /\ u \in Opened(d, u).opened /\ Opened(d, u).locked = d.locked
         /\ Opened(d, u).file = d.file /\ Opened(d, u).present = d.present
         /\ Opened(d, u).autoclear = d.autoclear /\ Opened(d, u).flushed = d.flushed
<1> DEFINE e == Opened(d, u)
<1>1. /\ e \in Device /\ e.opened = d.opened \cup {u} /\ e.locked = d.locked
      /\ e.file = d.file /\ e.present = d.present
      /\ e.autoclear = d.autoclear /\ e.flushed = d.flushed
  BY DEF Opened, Device
<1> HIDE DEF e
<1>2. Spares(d, e, u)
  BY <1>1 DEF Spares
<1> QED
  BY <1>1, <1>2 DEF e

LEMMA Unbinding ==
  ASSUME NEW d \in Device
  PROVE  /\ Unbound(d) \in Device /\ Unbound(d).file = NoUser
         /\ Unbound(d).opened = d.opened /\ Unbound(d).locked = d.locked
         /\ Unbound(d).present = d.present
  BY DEF Unbound, Device

\* A close: the last one unbinds when autoclear is set.
LEMMA Releasing ==
  ASSUME NEW d \in Device, NEW u \in Users \cup {Other}
  PROVE  LET e == Released(d, u) IN
         /\ e \in Device /\ e.opened = d.opened \ {u} /\ e.present = d.present
         /\ e.locked = IF d.locked = u THEN NoUser ELSE d.locked
         /\ e.file = IF e.opened = {} /\ d.autoclear THEN NoUser ELSE d.file
         /\ e.opened # {} => e.autoclear = d.autoclear /\ e.flushed = d.flushed
         /\ Spares(d, e, u)
<1> DEFINE c == [d EXCEPT !.opened = @ \ {u}, !.locked = IF @ = u THEN NoUser ELSE @]
           e == Released(d, u)
<1>1. /\ c \in Device /\ c.opened = d.opened \ {u} /\ c.present = d.present
      /\ c.locked = IF d.locked = u THEN NoUser ELSE d.locked
      /\ c.file = d.file /\ c.autoclear = d.autoclear /\ c.flushed = d.flushed
  <2>1. (IF d.locked = u THEN NoUser ELSE d.locked) \in Users \cup {NoUser}
    BY DEF Device
  <2>2. d.opened \ {u} \in SUBSET (Users \cup {Other})
    BY DEF Device
  <2> QED
    BY <2>1, <2>2 DEF Device
<1>2. e = IF c.opened # {} THEN c
          ELSE IF d.autoclear THEN Unbound(c) ELSE [c EXCEPT !.flushed = TRUE]
  BY DEF Released
<1> HIDE DEF c
<1>3. /\ e \in Device /\ e.opened = c.opened /\ e.present = c.present
      /\ e.locked = c.locked
      /\ e.file = IF e.opened = {} /\ d.autoclear THEN NoUser ELSE d.file
      /\ e.opened # {} => e = c
  <2>1. CASE c.opened # {}
    BY <1>1, <1>2, <2>1
  <2>2. CASE c.opened = {} /\ d.autoclear
    BY <1>1, <1>2, <2>2, Unbinding
  <2>3. CASE c.opened = {} /\ ~d.autoclear
    BY <1>1, <1>2, <2>3 DEF Device
  <2> QED
    BY <2>1, <2>2, <2>3
<1> HIDE DEF e
<1>4. Spares(d, e, u)
  <2> SUFFICES ASSUME NEW w \in Users \ {u}
               PROVE  /\ w \in e.opened <=> w \in d.opened
                      /\ e.locked = w <=> d.locked = w
                      /\ e.file = w => d.file = w
                      /\ w \in d.opened /\ d.file = w =>
                            e.file = w /\ (d.flushed => e.flushed)
    BY DEF Spares
  <2>1. e.locked = w <=> d.locked = w
    BY <1>1, <1>3, Nobody
  <2>2. e.file = w => d.file = w
    BY <1>3, Nobody
  <2>3. w \in d.opened => e.opened # {}
    BY <1>1, <1>3
  <2> QED
    BY <1>1, <1>3, <2>1, <2>2, <2>3
<1> QED
  BY <1>1, <1>3, <1>4 DEF e

\* LOOP_CLR_FD by somebody who has the device open.
LEMMA Clearing ==
  ASSUME NEW d \in Device, NEW u \in Users, u \in d.opened
  PROVE  LET e == Cleared(d, u) IN
         /\ e \in Device /\ e.opened = d.opened /\ e.present = d.present
         /\ e.locked = d.locked
         /\ e.file = IF d.opened = {u} THEN NoUser ELSE d.file
         /\ d.opened # {u} => e.autoclear /\ e.flushed = d.flushed
         /\ Spares(d, e, u)
<1> DEFINE e == Cleared(d, u)
<1>1. /\ e \in Device /\ e.opened = d.opened /\ e.present = d.present
      /\ e.locked = d.locked
      /\ e.file = IF d.opened = {u} THEN NoUser ELSE d.file
      /\ d.opened # {u} => e.autoclear /\ e.flushed = d.flushed
  <2>1. CASE d.opened = {u}
    BY <2>1, Unbinding DEF Cleared
  <2>2. CASE d.opened # {u}
    <3>1. e = [d EXCEPT !.autoclear = TRUE]
      BY <2>2 DEF Cleared
    <3> HIDE DEF e
    <3> QED
      BY <2>2, <3>1 DEF Device
  <2> QED
    BY <2>1, <2>2
<1> HIDE DEF e
<1>2. Spares(d, e, u)
  <2> SUFFICES ASSUME NEW w \in Users \ {u}
               PROVE  /\ e.file = w => d.file = w
                      /\ w \in d.opened => e.file = d.file /\ e.flushed = d.flushed
    BY <1>1 DEF Spares
  <2>1. w \in d.opened => d.opened # {u}
    OBVIOUS
  <2> QED
    BY <1>1, <2>1, Nobody
<1> QED
  BY <1>1, <1>2 DEF e

\* LOOP_CONFIGURE, LOOP_SET_FD and LOOP_SET_STATUS64, of a device that nobody else's
\* file is bound to.
LEMMA Binding ==
  ASSUME NEW d \in Device, NEW u \in Users, NEW flag \in BOOLEAN, d.file \in {NoUser, u}
  PROVE  LET e == Bound(d, u, flag) IN
         /\ e \in Device /\ e.opened = d.opened /\ e.present = d.present
         /\ e.locked = d.locked /\ e.file = u /\ e.autoclear = flag
         /\ e.flushed = d.flushed /\ Spares(d, e, u)
<1> DEFINE e == Bound(d, u, flag)
<1>1. /\ e \in Device /\ e.opened = d.opened /\ e.present = d.present
      /\ e.locked = d.locked /\ e.file = u /\ e.autoclear = flag
      /\ e.flushed = d.flushed
  BY DEF Bound, Device
<1> HIDE DEF e
<1>2. Spares(d, e, u)
  BY <1>1, Nobody DEF Spares
<1> QED
  BY <1>1, <1>2 DEF e

-----------------------------------------------------------------------------
(***************************************************************************)
(* A step of the user u at the device m: what it makes of both says all.   *)
(***************************************************************************)
Places == {"idle", "exit"} \cup Creating \cup Using \cup Closing \cup Ended
UserRec == [at : Places, minor : Minors \cup {NoMinor}]

\* The state v of u, and the state d of the device m, fit.
Fits(u, v, m, d) ==
    /\ v.at \in Placed <=> v.minor # NoMinor
    /\ v.minor \in {m, NoMinor}
    /\ u \in d.opened <=> v.minor = m /\ v.at \in Holding
    /\ d.locked = u <=> v.minor = m /\ u \in Locking /\ v.at \in Holding \ {"setup", "lock"}
    /\ v.minor = m /\ v.at \in Owning => d.file = u
    /\ v.minor = m /\ (v.at = "clear_fd" \/ (v.at = "get_status" /\ d.file = u)) => d.flushed
    /\ v.at = "lock" => u \in Locking
    /\ v.at \in {"status", "clear"} => legacy
    /\ u \in Requests => v.at \notin Closing \cup {"exit"}

\* The device d with the number m stays bound only as long as it should, when its user
\* may be u, who is in the state v.
Stays(u, v, m, d) ==
    /\ \/ d.file = NoUser
       \/ d.autoclear /\ d.opened # {}
       \/ /\ legacy /\ d.file = u
          /\ v.at = "killed" \/ (v.at \in {"status", "clear"} /\ v.minor = m)
       \/ /\ legacy /\ d.file # u
          /\ \/ user[d.file].at = "killed"
             \/ user[d.file].at \in {"status", "clear"} /\ user[d.file].minor = m
    /\ d.opened # {} \/ d.file # NoUser => d.present

LEMMA Typed ==
  ASSUME DevInv
  PROVE  /\ dev \in [Minors -> Device] /\ user \in [Users -> UserRec]
         /\ inhibited \in SUBSET Minors /\ lost = {} /\ legacy \in BOOLEAN
         /\ server \in {"up", "cleanup", "down"} /\ meddling \in 0..MaxMeddling
  BY DEF DevInv, TypeOK, UserRec, Places

LEMMA Fit ==
  ASSUME DevInv, NEW u \in Users, NEW m \in Minors, user[u].minor \in {m, NoMinor}
  PROVE  Fits(u, user[u], m, dev[m]) /\ Stays(u, user[u], m, dev[m])
<1>1. UserOK(u) /\ DeviceOK(m)
  BY DEF DevInv
<1>2. Fits(u, user[u], m, dev[m])
  BY <1>1 DEF UserOK, Fits
<1>3. Stays(u, user[u], m, dev[m])
  BY <1>1 DEF DeviceOK, Kept, Stays
<1> QED
  BY <1>2, <1>3

\* A user keeps what he has where his devices are not touched.
LEMMA Undisturbed ==
  ASSUME DevInv, NEW w \in Users, user'[w] = user[w], legacy' = legacy,
         \A n \in Minors :
            /\ w \in dev'[n].opened <=> w \in dev[n].opened
            /\ dev'[n].locked = w <=> dev[n].locked = w
            /\ dev'[n].file = w => dev[n].file = w
            /\ w \in dev[n].opened /\ dev[n].file = w =>
                  dev'[n].file = w /\ (dev[n].flushed => dev'[n].flushed)
  PROVE  UserOK(w)'
<1>1. UserOK(w)
  BY DEF DevInv
<1>3. Owning \subseteq Holding /\ "clear_fd" \in Owning /\ "get_status" \in Holding
  BY DEF Owning, Holding, Using, Closing
<1>4. /\ \A n \in Minors : w \in dev'[n].opened <=>
            user'[w].minor = n /\ user'[w].at \in Holding
      /\ \A n \in Minors : dev'[n].locked = w <=>
            user'[w].minor = n /\ w \in Locking /\ user'[w].at \in Holding \ {"setup", "lock"}
  BY <1>1 DEF UserOK
<1>5. ASSUME NEW n \in Minors, user[w].minor = n, user[w].at \in Owning
      PROVE  dev'[n].file = w
  <2>1. dev[n].file = w /\ w \in dev[n].opened
    BY <1>1, <1>3, <1>5 DEF UserOK
  <2> QED
    BY <2>1
<1>6. ASSUME NEW n \in Minors, user[w].minor = n,
             user[w].at = "clear_fd" \/ (user[w].at = "get_status" /\ dev'[n].file = w)
      PROVE  dev'[n].flushed
  <2>1. w \in dev[n].opened /\ dev[n].file = w
    BY <1>1, <1>3, <1>6 DEF UserOK
  <2>2. dev[n].flushed
    BY <1>1, <1>6, <2>1 DEF UserOK
  <2> QED
    BY <2>1, <2>2
<1> QED
  BY <1>1, <1>4, <1>5, <1>6 DEF UserOK

LEMMA OthersKept ==
  ASSUME DevInv, NEW u, NEW m \in Minors, NEW e \in Device, dev' = [dev EXCEPT ![m] = e],
         Spares(dev[m], e, u), legacy' = legacy, NEW w \in Users \ {u}, user'[w] = user[w]
  PROVE  UserOK(w)'
<1>1. dev \in [Minors -> Device]
  BY Typed
<1>2. ASSUME NEW n \in Minors
      PROVE  /\ w \in dev'[n].opened <=> w \in dev[n].opened
             /\ dev'[n].locked = w <=> dev[n].locked = w
             /\ dev'[n].file = w => dev[n].file = w
             /\ w \in dev[n].opened /\ dev[n].file = w =>
                   dev'[n].file = w /\ (dev[n].flushed => dev'[n].flushed)
  <2>1. CASE n = m
    BY <1>1, <2>1 DEF Spares
  <2>2. CASE n # m
    BY <1>1, <2>2
  <2> QED
    BY <2>1, <2>2
<1> QED
  BY <1>2, Undisturbed

LEMMA ElsewhereKept ==
  ASSUME DevInv, NEW u \in Users, NEW v, user' = [user EXCEPT ![u] = v], legacy' = legacy,
         NEW n \in Minors, user[u].minor # n, user[u].at # "killed", dev'[n] = dev[n]
  PROVE  DeviceOK(n)'
<1>1. DeviceOK(n) /\ user \in [Users -> UserRec] /\ dev[n] \in Device
  BY Typed DEF DevInv
<1>2. dev[n].file = NoUser \/ dev[n].file \in Users
  BY <1>1 DEF Device
<1>3. Kept(n)'
  <2>1. CASE dev[n].file = u
    BY <1>1, <2>1 DEF DeviceOK, Kept
  <2>2. CASE dev[n].file # u
    BY <1>1, <1>2, <2>2 DEF DeviceOK, Kept
  <2> QED
    BY <2>1, <2>2
<1> QED
  BY <1>1, <1>3 DEF DeviceOK

LEMMA Acts ==
  ASSUME DevInv, NEW u \in Users, NEW v \in UserRec, user' = [user EXCEPT ![u] = v],
         NEW m \in Minors, user[u].minor \in {m, NoMinor}, user[u].at # "killed",
         NEW e \in Device, dev' = [dev EXCEPT ![m] = e], Spares(dev[m], e, u),
         legacy' = legacy, lost' = {}, server' = server, meddling' = meddling,
         inhibited' \in SUBSET Minors,
         Fits(u, v, m, e), Stays(u, v, m, e), Apart', Inhibition'
  PROVE  DevInv'
<1>1. TypeOK'
  BY Typed DEF TypeOK, UserRec, Places
<1>2. /\ user'[u] = v /\ \A w \in Users \ {u} : user'[w] = user[w]
      /\ dev'[m] = e /\ \A n \in Minors \ {m} : dev'[n] = dev[n]
  BY Typed
<1>3. ASSUME NEW w \in Users \ {u} PROVE UserOK(w)'
  BY <1>2, OthersKept
<1>4. UserOK(u)'
  <2>1. ASSUME NEW n \in Minors \ {m}
        PROVE  user[u].minor # n /\ v.minor # n /\ u \notin dev'[n].opened /\ dev'[n].locked # u
    <3>1. UserOK(u)
      BY DEF DevInv
    <3>2. user[u].minor # n /\ v.minor # n
      BY Nobody DEF Fits
    <3> QED
      BY <1>2, <3>1, <3>2 DEF UserOK
  <2> QED
    BY <1>2, <2>1 DEF UserOK, Fits
<1>5. DeviceOK(m)'
  <2>1. e.file \in Users \cup {NoUser}
    BY DEF Device
  <2> QED
    BY <1>2, <2>1 DEF DeviceOK, Kept, Stays
<1>6. ASSUME NEW n \in Minors \ {m} PROVE DeviceOK(n)'
  <2>1. user[u].minor # n
    BY Nobody
  <2> QED
    BY <1>2, <2>1, ElsewhereKept
<1> QED
  BY <1>1, <1>3, <1>4, <1>5, <1>6 DEF DevInv

LEMMA ApartKept ==
  ASSUME DevInv, NEW u \in Users, NEW v \in UserRec, user' = [user EXCEPT ![u] = v],
         v.minor \in {user[u].minor, NoMinor}
  PROVE  Apart'
<1>1. /\ user'[u] = v /\ \A w \in Users \ {u} : user'[w] = user[w]
      /\ Requests \subseteq Users /\ Apart
  BY Typed DEF DevInv, Users
<1>2. ASSUME NEW r \in Requests PROVE user'[r].minor \in {user[r].minor, NoMinor}
  BY <1>1
<1>3. ASSUME NEW r \in Requests, NEW s \in Requests, r # s, user'[r].minor # NoMinor
      PROVE  user'[r].minor # user'[s].minor
  BY <1>1, <1>2, <1>3 DEF Apart
<1> QED
  BY <1>3 DEF Apart

LEMMA LocksStay ==
  ASSUME DevInv, NEW u \in Users, NEW v \in UserRec, user' = [user EXCEPT ![u] = v],
         inhibited' = inhibited, user[u].at # "killed",
         user[u].at \in Holding \ {"setup"} =>
            v.minor = user[u].minor /\ v.at \in Holding \ {"setup"}
  PROVE  Inhibition'
<1>1. /\ user'[u] = v /\ \A w \in Users \ {u} : user'[w] = user[w]
      /\ Services \subseteq Users /\ Inhibition
  BY Typed DEF DevInv, Users
<1> SUFFICES ASSUME NEW m \in inhibited
             PROVE  \E s \in Services :
                       \/ user'[s].at = "killed"
                       \/ user'[s].minor = m /\ user'[s].at \in Holding \ {"setup"}
  BY DEF Inhibition
<1>2. PICK s \in Services : \/ user[s].at = "killed"
                            \/ user[s].minor = m /\ user[s].at \in Holding \ {"setup"}
  BY <1>1 DEF Inhibition
<1> QED
  BY <1>1, <1>2

LEMMA LocksGo ==
  ASSUME DevInv, NEW u \in Users, NEW v \in UserRec, user' = [user EXCEPT ![u] = v],
         inhibited' = Release(u), user[u].at # "killed"
  PROVE  Inhibition' /\ inhibited' \in SUBSET Minors
<1>1. /\ user'[u] = v /\ \A w \in Users \ {u} : user'[w] = user[w]
      /\ Services \subseteq Users /\ Inhibition
  BY Typed DEF DevInv, Users
<1>2. inhibited' \subseteq inhibited
  BY DEF Release
<1> SUFFICES ASSUME NEW m \in inhibited'
             PROVE  \E s \in Services :
                       \/ user'[s].at = "killed"
                       \/ user'[s].minor = m /\ user'[s].at \in Holding \ {"setup"}
  BY <1>2, Typed DEF Inhibition
<1>3. PICK s \in Services : \/ user[s].at = "killed"
                            \/ user[s].minor = m /\ user[s].at \in Holding \ {"setup"}
  BY <1>1, <1>2 DEF Inhibition
<1>4. s # u
  BY <1>3 DEF Release
<1> QED
  BY <1>1, <1>3, <1>4

\* What u may make of its device d when it goes on to the place.
Allowed(u, place, d, e) ==
    /\ e \in Device /\ Spares(d, e, u) /\ u \in e.opened /\ e.present
    /\ e.locked = u <=> u \in Locking /\ place \notin {"setup", "lock"}
    /\ place \in Owning => e.file = u
    /\ place = "clear_fd" \/ (place = "get_status" /\ e.file = u) => e.flushed
    /\ place = "lock" => u \in Locking
    /\ place \in {"status", "clear"} => legacy
    /\ u \in Requests => place \notin Closing \cup {"exit"}
    /\ \/ /\ e.file \in {NoUser, u}
          /\ e.file = NoUser \/ e.autoclear \/ place \in {"status", "clear"}
       \/ /\ e.file = d.file /\ e.autoclear = d.autoclear
          /\ user[u].at \notin {"status", "clear"}

\* u goes on with the device that it has.
LEMMA GoesOn ==
  ASSUME DevInv, NEW u \in Users, NEW place \in Holding, Goes(u, place),
         user[u].at \in Placed, NEW e, dev' = [dev EXCEPT ![user[u].minor] = e],
         Allowed(u, place, dev[user[u].minor], e),
         UNCHANGED <<server, legacy, meddling>>, lost' = {},
         \/ inhibited' = inhibited /\ (user[u].at \notin {"init", "setup"} => place # "setup")
         \/ /\ u \in Services /\ place # "setup"
            /\ inhibited' = inhibited \cup {user[u].minor}
  PROVE  DevInv'
<1> DEFINE m == user[u].minor
           d == dev[m]
           v == [user[u] EXCEPT !.at = place]
<1>1. m \in Minors /\ user[u] \in UserRec /\ d \in Device /\ UserOK(u)
  BY Typed DEF DevInv, UserOK, UserRec
<1>2. place \in Places /\ place \in Placed /\ user[u].at # "killed"
  BY DEF Holding, Placed, Places, Creating, Using, Closing
<1>3. v \in UserRec /\ v.at = place /\ v.minor = m
  BY <1>1, <1>2 DEF UserRec
<1>4. user' = [user EXCEPT ![u] = v]
  BY Typed DEF Goes, UserRec
<1>5. m # NoMinor
  BY <1>1, Nobody
<1>6. Stays(u, user[u], m, d)
  BY <1>1, Fit
<1> HIDE DEF v
<1>7. Fits(u, v, m, e)
  BY <1>2, <1>3, <1>5 DEF Fits, Allowed
<1>8. Stays(u, v, m, e)
  <2>0. e.present
    BY DEF Allowed
  <2>1. CASE /\ e.file \in {NoUser, u}
             /\ e.file = NoUser \/ e.autoclear \/ place \in {"status", "clear"}
    <3>1. e.opened # {} /\ (place \in {"status", "clear"} => legacy)
      BY DEF Allowed
    <3> QED
      BY <1>3, <2>0, <2>1, <3>1 DEF Stays
  <2>2. CASE /\ e.file = d.file /\ e.autoclear = d.autoclear
             /\ user[u].at \notin {"status", "clear"}
    <3>1. e.opened # {}
      BY DEF Allowed
    <3> QED
      BY <1>2, <1>3, <1>6, <2>0, <2>2, <3>1 DEF Stays
  <2> QED
    BY <2>1, <2>2 DEF Allowed
<1>9. Apart'
  BY <1>3, <1>4, ApartKept
<1>10. Inhibition' /\ inhibited' \in SUBSET Minors
  <2>1. CASE inhibited' = inhibited /\ (user[u].at \notin {"init", "setup"} => place # "setup")
    <3>1. user[u].at \in Holding \ {"setup"} => v.minor = user[u].minor /\ v.at \in Holding \ {"setup"}
      BY <1>3, <2>1 DEF Holding, Using, Closing
    <3> QED
      BY <1>2, <1>3, <1>4, <2>1, <3>1, LocksStay, Typed
  <2>2. CASE /\ u \in Services /\ place # "setup"
             /\ inhibited' = inhibited \cup {m}
    <3>1. /\ user'[u] = v /\ \A w \in Users \ {u} : user'[w] = user[w]
          /\ Services \subseteq Users /\ Inhibition
      BY <1>4, Typed DEF DevInv, Users
    <3>2. ASSUME NEW n \in inhibited', n # m
          PROVE  \E s \in Services :
                    \/ user'[s].at = "killed"
                    \/ user'[s].minor = n /\ user'[s].at \in Holding \ {"setup"}
      <4>1. PICK s \in Services :
               \/ user[s].at = "killed"
               \/ user[s].minor = n /\ user[s].at \in Holding \ {"setup"}
        BY <2>2, <3>1, <3>2 DEF Inhibition
      <4>2. s # u
        BY <1>2, <3>2, <4>1
      <4> QED
        BY <3>1, <4>1, <4>2
    <3>3. user'[u].minor = m /\ user'[u].at \in Holding \ {"setup"}
      BY <1>3, <2>2, <3>1
    <3>4. Inhibition'
      BY <2>2, <3>2, <3>3 DEF Inhibition
    <3> QED
      BY <1>1, <2>2, <3>4, Typed
  <2> QED
    BY <2>1, <2>2
<1>11. e \in Device /\ Spares(d, e, u)
  BY DEF Allowed
<1> QED
  BY <1>1, <1>2, <1>3, <1>4, <1>7, <1>8, <1>9, <1>10, <1>11, Acts

\* u closes its Loop.
LEMMA Closes ==
  ASSUME DevInv, NEW u \in Users, NEW place \in {"idle", "closed", "failed"},
         user[u].at \in Holding \ {"status", "clear"}, CloseLoop(u, place),
         UNCHANGED <<lost, server, legacy, meddling>>
  PROVE  DevInv'
<1> DEFINE m == user[u].minor
           d == dev[m]
           e == Released(d, u)
           v == [at |-> place, minor |-> NoMinor]
<1>1. m \in Minors /\ user[u] \in UserRec /\ d \in Device /\ user[u].at # "killed"
  <2>1. UserOK(u)
    BY DEF DevInv
  <2> QED
    BY <2>1, Typed DEF UserOK, UserRec, Placed, Holding, Using, Closing
<1>2. v \in UserRec /\ v.at = place /\ v.minor = NoMinor
  BY DEF UserRec, Places, Ended
<1>3. /\ user' = [user EXCEPT ![u] = v] /\ inhibited' = Release(u)
      /\ dev' = [dev EXCEPT ![m] = e]
  BY DEF CloseLoop, Kernel, DeviceOf
<1>4. /\ e \in Device /\ e.opened = d.opened \ {u} /\ e.present = d.present
      /\ e.locked = IF d.locked = u THEN NoUser ELSE d.locked
      /\ e.file = IF e.opened = {} /\ d.autoclear THEN NoUser ELSE d.file
      /\ e.opened # {} => e.autoclear = d.autoclear /\ e.flushed = d.flushed
      /\ Spares(d, e, u)
  BY <1>1, Releasing
<1>5. Stays(u, user[u], m, d)
  BY <1>1, Fit
<1> HIDE DEF v, e
<1>6. place \notin Placed /\ m # NoMinor
  BY <1>1, Nobody DEF Placed, Holding, Using, Closing
<1>7. Fits(u, v, m, e)
  BY <1>2, <1>4, <1>6, Nobody DEF Fits, Closing
<1>8. Stays(u, v, m, e)
  BY <1>1, <1>4, <1>5 DEF Stays
<1>9. Apart'
  BY <1>2, <1>3, ApartKept
<1>10. Inhibition' /\ inhibited' \in SUBSET Minors
  BY <1>1, <1>2, <1>3, LocksGo
<1>11. lost' = {}
  BY Typed
<1> QED
  BY <1>1, <1>2, <1>3, <1>4, <1>7, <1>8, <1>9, <1>10, <1>11, Acts

-----------------------------------------------------------------------------
(***************************************************************************)
(* The actions of the users.                                               *)
(***************************************************************************)

\* What somebody has who has a device open.
LEMMA Has ==
  ASSUME DevInv, NEW u \in Users, user[u].at \in Holding
  PROVE  /\ user[u].minor \in Minors /\ DeviceOf(u) \in Device
         /\ DeviceOf(u) = dev[user[u].minor]
         /\ u \in DeviceOf(u).opened /\ DeviceOf(u).present
         /\ DeviceOf(u).locked = u <=> u \in Locking /\ user[u].at \notin {"setup", "lock"}
         /\ user[u].at \in Owning => DeviceOf(u).file = u
         /\ Spares(DeviceOf(u), DeviceOf(u), u)
         /\ dev = [dev EXCEPT ![user[u].minor] = DeviceOf(u)]
         /\ user[u].at \in Placed /\ lost = {}
         /\ user[u].at \in {"status", "clear"} => legacy
         /\ u \in Requests => user[u].at \notin Closing \cup {"exit"}
         /\ user[u].at = "clear_fd" \/ (user[u].at = "get_status" /\ DeviceOf(u).file = u) =>
               DeviceOf(u).flushed
         /\ user[u].at = "lock" => u \in Locking
<1>1. user[u].minor \in Minors
  <2>1. UserOK(u)
    BY DEF DevInv
  <2> QED
    BY <2>1, Typed DEF UserOK, UserRec, Placed
<1>2. UserOK(u) /\ DeviceOK(user[u].minor)
  BY <1>1 DEF DevInv
<1>3. DeviceOf(u) = dev[user[u].minor] /\ DeviceOf(u) \in Device
  BY <1>1, Typed DEF DeviceOf
<1>4. dev = [dev EXCEPT ![user[u].minor] = DeviceOf(u)]
  BY <1>3, Typed
<1>5. Spares(DeviceOf(u), DeviceOf(u), u)
  BY DEF Spares
<1>6. user[u].at \in Placed /\ lost = {}
  BY Typed DEF Placed
<1> QED
  BY <1>1, <1>2, <1>3, <1>4, <1>5, <1>6 DEF UserOK, DeviceOK

LEMMA States ==
    /\ Holding = {"setup", "lock", "configure", "status", "clear", "exit", "bound", "use",
                  "flush", "clear_fd", "get_status", "close"}
    /\ Services \cap Requests = {} /\ Users = Services \cup Requests
  BY LoopAssumption DEF Holding, Using, Closing, Users

LEMMA Setups ==
  ASSUME DevInv, NEW u \in Users, Setup(u)
  PROVE  DevInv'
<1> DEFINE place == IF u \in Locking THEN "lock" ELSE "configure"
           e == DeviceOf(u)
<1>1. user[u].at = "setup" /\ user[u].at \in Holding /\ place \in {"lock", "configure"}
  BY States DEF Setup
<1>2. /\ Goes(u, place) /\ dev' = [dev EXCEPT ![user[u].minor] = e]
      /\ UNCHANGED <<lost, server, legacy, meddling>>
      /\ inhibited' = IF u \in Services THEN inhibited \cup {user[u].minor} ELSE inhibited
  BY <1>1, Has DEF Setup
<1>3. /\ u \in e.opened /\ e.present /\ e \in Device /\ Spares(dev[user[u].minor], e, u)
      /\ e.locked # u /\ lost' = {} /\ e = dev[user[u].minor] /\ user[u].at \in Placed
  BY <1>1, <1>2, Has
<1>4. place \in Holding /\ (place = "lock" <=> u \in Locking)
  BY States
<1>5. place \notin Owning \cup Closing \cup {"setup", "clear_fd", "get_status", "status", "clear", "exit"}
  BY DEF Owning, Closing
<1> HIDE DEF place, e
<1>6. Allowed(u, place, dev[user[u].minor], e)
  BY <1>1, <1>2, <1>3, <1>4, <1>5 DEF Allowed
<1> QED
  BY <1>1, <1>2, <1>3, <1>4, <1>5, <1>6, GoesOn

LEMMA LocksIt ==
  ASSUME DevInv, NEW u \in Users, Lock(u)
  PROVE  DevInv'
<1>1. user[u].at = "lock" /\ user[u].at \in Holding
  BY States DEF Lock
<1> DEFINE d == DeviceOf(u)
           e == [d EXCEPT !.locked = u]
<1>2. CASE d.locked = NoUser
  <2>1. /\ Goes(u, "configure") /\ dev' = [dev EXCEPT ![user[u].minor] = e]
        /\ UNCHANGED <<inhibited, lost, server, legacy, meddling>>
    BY <1>1, <1>2 DEF Lock, Kernel
  <2>2. d \in Device /\ u \in d.opened /\ d.present /\ lost' = {} /\ d = dev[user[u].minor]
        /\ u \in Locking /\ user[u].at \in Placed
    BY <1>1, <2>1, Has
  <2>3. /\ e \in Device /\ e.opened = d.opened /\ e.present = d.present /\ e.locked = u
        /\ e.file = d.file /\ e.autoclear = d.autoclear /\ e.flushed = d.flushed
    BY <2>2 DEF Device
  <2> HIDE DEF e, d
  <2>4. Spares(d, e, u)
    BY <1>2, <2>3, Nobody DEF Spares
  <2>5. "configure" \in Holding /\ "configure" \notin Owning \cup Closing
    BY States DEF Owning, Closing
  <2>6. Allowed(u, "configure", dev[user[u].minor], e)
    BY <1>1, <2>1, <2>2, <2>3, <2>4, <2>5 DEF Allowed
  <2> QED
    BY <1>1, <2>1, <2>2, <2>3, <2>4, <2>5, <2>6, GoesOn
<1>3. CASE d.locked # NoUser
  <2>1. CloseLoop(u, "idle") /\ UNCHANGED <<lost, server, legacy, meddling>>
    BY <1>3 DEF Lock
  <2> QED
    BY <1>1, <2>1, Closes
<1> QED
  BY <1>2, <1>3

LEMMA Configures ==
  ASSUME DevInv, NEW u \in Users, Configure(u)
  PROVE  DevInv'
<1> DEFINE d == DeviceOf(u)
           busy == d.file # NoUser \/ (~legacy /\ ~d.drained)
           e == Bound(d, u, ~legacy)
           place == IF legacy THEN "status" ELSE "bound"
<1>1. user[u].at = "configure" /\ user[u].at \in Holding
  BY States DEF Configure
<1>2. CASE busy
  <2>1. CloseLoop(u, "idle") /\ UNCHANGED <<lost, server, legacy, meddling>>
    BY <1>2 DEF Configure
  <2> QED
    BY <1>1, <2>1, Closes
<1>3. CASE ~busy
  <2>1. /\ Goes(u, place) /\ dev' = [dev EXCEPT ![user[u].minor] = e]
        /\ UNCHANGED <<inhibited, lost, server, legacy, meddling>>
    BY <1>1, <1>3 DEF Configure, Kernel
  <2>2. /\ d \in Device /\ u \in d.opened /\ d.present /\ lost' = {} /\ d = dev[user[u].minor]
        /\ (d.locked = u <=> u \in Locking) /\ user[u].at \in Placed
    BY <1>1, <2>1, Has
  <2>3. d.file \in {NoUser, u}
    BY <1>3
  <2>4. /\ e \in Device /\ e.opened = d.opened /\ e.present = d.present
        /\ e.locked = d.locked /\ e.file = u /\ (legacy \/ e.autoclear)
        /\ e.flushed = d.flushed /\ Spares(d, e, u)
    <3>1. CASE legacy
      <4>1. e = Bound(d, u, FALSE)
        BY <3>1
      <4> HIDE DEF e, d
      <4> QED
        BY <2>2, <2>3, <3>1, <4>1, Binding, ZenonT(60)
    <3>2. CASE ~legacy
      <4>1. e = Bound(d, u, TRUE)
        BY <3>2
      <4> HIDE DEF e, d
      <4> QED
        BY <2>2, <2>3, <4>1, Binding, ZenonT(60)
    <3> QED
      BY <3>1, <3>2
  <2>5. /\ place \in Holding /\ place \notin Closing \cup {"setup", "lock", "clear", "exit", "clear_fd", "get_status"}
        /\ place = "status" <=> legacy
    BY States DEF Closing
  <2> HIDE DEF e, d, place
  <2>6. Allowed(u, place, dev[user[u].minor], e)
    BY <1>1, <2>1, <2>2, <2>4, <2>5 DEF Allowed
  <2> QED
    BY <1>1, <2>1, <2>2, <2>4, <2>5, <2>6, GoesOn
<1> QED
  BY <1>2, <1>3

LEMMA SetsStatus ==
  ASSUME DevInv, NEW u \in Users, SetStatus(u)
  PROVE  DevInv'
<1> DEFINE d == DeviceOf(u)
           e == Bound(d, u, TRUE)
<1>1. user[u].at = "status" /\ user[u].at \in Holding /\ user[u].at \in Owning
  BY States DEF SetStatus, Owning
<1>2. /\ d \in Device /\ u \in d.opened /\ d.present /\ d = dev[user[u].minor] /\ d.file = u
      /\ (d.locked = u <=> u \in Locking) /\ user[u].at \in Placed /\ legacy
      /\ Spares(d, d, u) /\ dev = [dev EXCEPT ![user[u].minor] = d] /\ lost = {}
  BY <1>1, Has
<1>3. CASE d.drained
  <2>1. /\ Goes(u, "bound") /\ dev' = [dev EXCEPT ![user[u].minor] = e]
        /\ UNCHANGED <<inhibited, lost, server, legacy, meddling>>
    BY <1>3 DEF SetStatus, Kernel
  <2>2. /\ e \in Device /\ e.opened = d.opened /\ e.present = d.present
        /\ e.locked = d.locked /\ e.file = u /\ e.autoclear
        /\ e.flushed = d.flushed /\ Spares(d, e, u)
    <3>1. d.file \in {NoUser, u}
      BY <1>2
    <3> QED
      BY <1>2, <3>1, Binding, ZenonT(60)
  <2>3. "bound" \in Holding /\ "bound" \notin Closing \cup
          {"setup", "lock", "clear_fd", "get_status", "status", "clear", "exit"}
    BY States DEF Closing
  <2>4. /\ lost' = {} /\ Spares(dev[user[u].minor], e, u) /\ u \in e.opened /\ e.present
        /\ (e.locked = u <=> u \in Locking) /\ e.file = u /\ e.autoclear /\ e \in Device
        /\ user[u].at \in Placed
    BY <1>2, <2>1, <2>2
  <2> HIDE DEF e, d
  <2>5. Allowed(u, "bound", dev[user[u].minor], e)
    BY <2>1, <2>3, <2>4 DEF Allowed
  <2> QED
    BY <2>1, <2>3, <2>4, <2>5, GoesOn
<1>4. CASE ~d.drained
  <2>1. /\ Goes(u, "clear") /\ dev' = [dev EXCEPT ![user[u].minor] = d]
        /\ UNCHANGED <<inhibited, lost, server, legacy, meddling>>
    BY <1>2, <1>4 DEF SetStatus
  <2>2. "clear" \in Holding /\ "clear" \notin Closing
    BY States DEF Closing
  <2> HIDE DEF d
  <2>3. Allowed(u, "clear", dev[user[u].minor], d)
    BY <1>1, <1>2, <2>1, <2>2 DEF Allowed
  <2> QED
    BY <1>1, <1>2, <2>1, <2>2, <2>3, GoesOn
<1> QED
  BY <1>3, <1>4

\* LOOP_CLR_FD and the close of the fallback.
LEMMA GivesBack ==
  ASSUME DevInv, NEW u \in Users, GiveBack(u)
  PROVE  DevInv'
<1> DEFINE m == user[u].minor
           d == dev[m]
           c == Cleared(d, u)
           e == Released(c, u)
           v == [at |-> "idle", minor |-> NoMinor]
<1>1. /\ user[u].at = "clear" /\ user[u].at \in Holding /\ user[u].at \in Owning
      /\ user[u].at # "killed"
  BY States DEF GiveBack, Owning
<1>2. /\ m \in Minors /\ d \in Device /\ u \in d.opened /\ d.present /\ d.file = u /\ lost = {}
  BY <1>1, Has
<1>3. /\ user' = [user EXCEPT ![u] = v] /\ inhibited' = Release(u)
      /\ dev' = [dev EXCEPT ![m] = e] /\ UNCHANGED <<lost, server, legacy, meddling>>
  BY DEF GiveBack
<1>4. v \in UserRec /\ v.at = "idle" /\ v.minor = NoMinor
  BY DEF UserRec, Places
<1>5. /\ c \in Device /\ c.opened = d.opened /\ c.present = d.present /\ c.locked = d.locked
      /\ c.file = IF d.opened = {u} THEN NoUser ELSE d.file
      /\ d.opened # {u} => c.autoclear /\ c.flushed = d.flushed
      /\ Spares(d, c, u)
  BY <1>2, Clearing
<1> HIDE DEF v, c
<1>6. /\ e \in Device /\ e.opened = c.opened \ {u} /\ e.present = c.present
      /\ e.locked = IF c.locked = u THEN NoUser ELSE c.locked
      /\ e.file = IF e.opened = {} /\ c.autoclear THEN NoUser ELSE c.file
      /\ e.opened # {} => e.autoclear = c.autoclear /\ e.flushed = c.flushed
      /\ Spares(c, e, u)
  BY <1>5, Releasing
<1> HIDE DEF e
<1>7. Spares(d, e, u)
  BY <1>5, <1>6 DEF Spares
<1>8. "idle" \notin Placed /\ "idle" \notin Closing /\ m # NoMinor
  BY <1>2, Nobody DEF Placed, Holding, Using, Closing
<1>9. Fits(u, v, m, e)
  BY <1>4, <1>5, <1>6, <1>8, Nobody DEF Fits
<1>10. e.file = NoUser \/ (e.autoclear /\ e.opened # {})
  <2>1. CASE d.opened = {u}
    BY <1>5, <1>6, <2>1
  <2>2. CASE d.opened # {u}
    BY <1>2, <1>5, <1>6, <2>2
  <2> QED
    BY <2>1, <2>2
<1>11. Stays(u, v, m, e)
  BY <1>2, <1>5, <1>6, <1>10 DEF Stays
<1>12. Apart'
  BY <1>3, <1>4, ApartKept
<1>13. Inhibition' /\ inhibited' \in SUBSET Minors
  BY <1>1, <1>3, <1>4, LocksGo
<1> QED
  BY <1>1, <1>2, <1>3, <1>4, <1>6, <1>7, <1>9, <1>11, <1>12, <1>13, Acts

\* u goes to another place, and does nothing to the device but write or flush its
\* buffers.
LEMMA Mknods ==
  ASSUME DevInv, NEW u \in Users, Mknod(u)
  PROVE  DevInv'
<1> DEFINE d == DeviceOf(u)
<1>1. user[u].at = "bound" /\ user[u].at \in Holding /\ user[u].at \in Owning
  BY States DEF Mknod, Owning
<1>2. /\ d \in Device /\ u \in d.opened /\ d.present /\ d = dev[user[u].minor] /\ d.file = u
      /\ (d.locked = u <=> u \in Locking) /\ user[u].at \in Placed
      /\ Spares(d, d, u) /\ dev = [dev EXCEPT ![user[u].minor] = d] /\ lost = {}
  BY <1>1, Has
<1>3. /\ Goes(u, "use") /\ dev' = [dev EXCEPT ![user[u].minor] = d]
      /\ UNCHANGED <<inhibited, lost, server, legacy, meddling>>
  BY <1>2 DEF Mknod
<1>4. "use" \in Holding /\ "use" \notin Closing \cup
        {"setup", "lock", "clear_fd", "get_status", "status", "clear", "exit"}
  BY States DEF Closing
<1>5. /\ d.file = dev[user[u].minor].file /\ d.autoclear = dev[user[u].minor].autoclear
      /\ user[u].at \notin {"status", "clear", "setup"} /\ lost' = {}
      /\ Spares(dev[user[u].minor], d, u)
  BY <1>1, <1>2, <1>3
<1> HIDE DEF d
<1>6. Allowed(u, "use", dev[user[u].minor], d)
  BY <1>1, <1>2, <1>3, <1>4, <1>5 DEF Allowed
<1> QED
  BY <1>1, <1>2, <1>3, <1>4, <1>5, <1>6, GoesOn

LEMMA Writes ==
  ASSUME DevInv, NEW u \in Users, Write(u)
  PROVE  DevInv'
<1> DEFINE d == DeviceOf(u)
           e == [d EXCEPT !.flushed = FALSE, !.drained = FALSE]
<1>1. user[u].at = "use" /\ user[u].at \in Holding /\ user[u].at \in Owning
  BY States DEF Write, Owning
<1>2. /\ d \in Device /\ u \in d.opened /\ d.present /\ d = dev[user[u].minor] /\ d.file = u
      /\ (d.locked = u <=> u \in Locking) /\ user[u].at \in Placed /\ lost = {}
  BY <1>1, Has
<1>3. /\ dev' = [dev EXCEPT ![user[u].minor] = e] /\ Goes(u, "use")
      /\ UNCHANGED <<inhibited, lost, server, legacy, meddling>>
  <2>1. user' = user /\ user \in [Users -> UserRec] /\ user[u].at = "use"
    BY <1>1, Typed DEF Write
  <2>2. Goes(u, "use")
    BY <2>1 DEF Goes, UserRec
  <2> QED
    BY <2>2 DEF Write, Kernel
<1>4. /\ e \in Device /\ e.opened = d.opened /\ e.present = d.present
      /\ e.locked = d.locked /\ e.file = d.file /\ e.autoclear = d.autoclear
  BY <1>2 DEF Device
<1> HIDE DEF d, e
<1>5. Spares(d, e, u)
  BY <1>2, <1>4 DEF Spares
<1>6. "use" \in Holding /\ "use" \notin Closing
  BY States DEF Closing
<1>7. Allowed(u, "use", dev[user[u].minor], e)
  BY <1>1, <1>2, <1>3, <1>4, <1>5, <1>6 DEF Allowed
<1> QED
  BY <1>1, <1>2, <1>3, <1>4, <1>5, <1>6, <1>7, GoesOn

LEMMA FlushesBuf ==
  ASSUME DevInv, NEW u \in Users, FlushBuf(u)
  PROVE  DevInv'
<1> DEFINE d == DeviceOf(u)
           e == [d EXCEPT !.flushed = TRUE]
<1>1. /\ user[u].at \in {"use", "flush"} /\ user[u].at \in Holding /\ user[u].at \in Owning
      /\ u \in Services
  BY States DEF FlushBuf, Owning
<1>2. /\ d \in Device /\ u \in d.opened /\ d.present /\ d = dev[user[u].minor] /\ d.file = u
      /\ (d.locked = u <=> u \in Locking) /\ user[u].at \in Placed /\ lost = {}
  BY <1>1, Has
<1>3. /\ dev' = [dev EXCEPT ![user[u].minor] = e] /\ Goes(u, "clear_fd")
      /\ UNCHANGED <<inhibited, lost, server, legacy, meddling>>
  BY DEF FlushBuf, Kernel
<1>4. /\ e \in Device /\ e.opened = d.opened /\ e.present = d.present /\ e.flushed
      /\ e.locked = d.locked /\ e.file = d.file /\ e.autoclear = d.autoclear
  BY <1>2 DEF Device
<1> HIDE DEF d, e
<1>5. Spares(d, e, u)
  BY <1>2, <1>4 DEF Spares
<1>6. "clear_fd" \in Holding /\ u \notin Requests
  BY <1>1, States
<1>7. Allowed(u, "clear_fd", dev[user[u].minor], e)
  BY <1>1, <1>2, <1>3, <1>4, <1>5, <1>6 DEF Allowed
<1> QED
  BY <1>1, <1>2, <1>3, <1>4, <1>5, <1>6, <1>7, GoesOn

\* LOOP_CLR_FD: what was written has been flushed, so nothing is dropped.
LEMMA ClearsFd ==
  ASSUME DevInv, NEW u \in Users, ClearFd(u)
  PROVE  DevInv'
<1> DEFINE d == DeviceOf(u)
           e == Cleared(d, u)
<1>1. user[u].at = "clear_fd" /\ user[u].at \in Holding \cap Owning \cap Closing
  BY States DEF ClearFd, Owning, Closing
<1>2. /\ d \in Device /\ u \in d.opened /\ d.present /\ d = dev[user[u].minor] /\ d.file = u
      /\ (d.locked = u <=> u \in Locking) /\ user[u].at \in Placed /\ lost = {}
      /\ d.flushed /\ u \notin Requests
  BY <1>1, Has
<1>3. /\ dev' = [dev EXCEPT ![user[u].minor] = e] /\ Goes(u, "get_status")
      /\ UNCHANGED <<inhibited, server, legacy, meddling>>
  BY <1>2, Nobody DEF ClearFd, Kernel
<1>4. lost' = {}
  BY <1>2, Nobody DEF ClearFd, Dropped
<1>5. /\ e \in Device /\ e.opened = d.opened /\ e.present = d.present /\ e.locked = d.locked
      /\ e.file = IF d.opened = {u} THEN NoUser ELSE d.file
      /\ d.opened # {u} => e.autoclear /\ e.flushed = d.flushed
      /\ Spares(d, e, u)
  BY <1>2, Clearing
<1>6. "get_status" \in Holding /\ "get_status" \notin Owning
  BY States DEF Owning
<1> HIDE DEF d, e
<1>7. /\ e.file \in {NoUser, u} /\ (e.file = NoUser \/ e.autoclear)
      /\ (e.file = u => e.flushed) /\ Spares(dev[user[u].minor], e, u)
      /\ u \in e.opened /\ e.present /\ (e.locked = u <=> u \in Locking)
  BY <1>2, <1>5, Nobody
<1>8. Allowed(u, "get_status", dev[user[u].minor], e)
  BY <1>1, <1>2, <1>3, <1>4, <1>5, <1>6, <1>7 DEF Allowed
<1> QED
  BY <1>1, <1>2, <1>3, <1>4, <1>5, <1>6, <1>7, <1>8, GoesOn

\* LOOP_GET_STATUS64 and the end of the wait.
LEMMA GetsStatus ==
  ASSUME DevInv, NEW u \in Users, GetStatus(u) \/ TimeOut(u)
  PROVE  DevInv'
<1> DEFINE d == DeviceOf(u)
<1>1. user[u].at = "get_status" /\ user[u].at \in Holding \cap Closing
  BY States DEF GetStatus, TimeOut, Closing
<1>2. PICK place \in {"clear_fd", "close", "exit"} :
        Goes(u, place) /\ (place # "close" => d.file = u)
  BY DEF GetStatus, TimeOut
<1>3. UNCHANGED <<dev, inhibited, lost, server, legacy, meddling>>
  BY DEF GetStatus, TimeOut
<1>4. /\ d \in Device /\ u \in d.opened /\ d.present /\ d = dev[user[u].minor]
      /\ (d.locked = u <=> u \in Locking) /\ user[u].at \in Placed /\ lost' = {}
      /\ (d.file = u => d.flushed) /\ u \notin Requests
      /\ Spares(dev[user[u].minor], d, u) /\ dev' = [dev EXCEPT ![user[u].minor] = d]
  BY <1>1, <1>3, Has
<1>5. place \in Holding /\ (place \in Owning => place # "close")
  BY States DEF Owning
<1>6. d.file = dev[user[u].minor].file /\ d.autoclear = dev[user[u].minor].autoclear
  BY <1>4
<1> HIDE DEF d
<1>7. Allowed(u, place, dev[user[u].minor], d)
  BY <1>1, <1>2, <1>3, <1>4, <1>5, <1>6 DEF Allowed
<1> QED
  BY <1>1, <1>2, <1>3, <1>4, <1>5, <1>6, <1>7, GoesOn

LEMMA ClosesIt ==
  ASSUME DevInv, NEW u \in Users, Close(u) \/ CloseDevice(u)
  PROVE  DevInv'
<1>1. user[u].at \in Holding \ {"status", "clear"}
  BY States DEF Close, CloseDevice
<1>2. PICK place \in {"idle", "closed", "failed"} : CloseLoop(u, place)
  BY DEF Close, CloseDevice
<1>3. UNCHANGED <<lost, server, legacy, meddling>>
  BY DEF Close, CloseDevice
<1> QED
  BY <1>1, <1>2, <1>3, Closes

\* LOOP_CTL_GET_FREE: the device is no one's, so no request of the LoopServer has it
\* either.
LEMMA GetsUnbound ==
  ASSUME DevInv, NEW u \in Users, GetUnbound(u)
  PROVE  DevInv'
<1>1. PICK m \in Minors :
        /\ IF \E n \in Minors : dev[n].present /\ dev[n].file = NoUser
           THEN dev[m].present /\ dev[m].file = NoUser
           ELSE ~dev[m].present
        /\ dev' = [dev EXCEPT ![m].present = TRUE]
        /\ user' = [user EXCEPT ![u] = [at |-> "init", minor |-> m]]
  BY DEF GetUnbound
<1> DEFINE d == dev[m]
           e == [d EXCEPT !.present = TRUE]
           v == [at |-> "init", minor |-> m]
<1>2. /\ user[u].at = "idle" /\ UNCHANGED <<inhibited, lost, server, legacy, meddling>>
      /\ (u \in Requests => ~ServerBusy(u))
  BY DEF GetUnbound
<1>3. /\ d \in Device /\ user' = [user EXCEPT ![u] = v] /\ dev' = [dev EXCEPT ![m] = e]
      /\ lost' = {} /\ inhibited' \in SUBSET Minors
  BY <1>1, <1>2, Typed
<1>4. v \in UserRec /\ v.at = "init" /\ v.minor = m /\ m # NoMinor
  BY Nobody DEF UserRec, Places, Creating
<1>5. user[u].minor = NoMinor
  <2>1. "idle" \notin Placed
    BY DEF Placed, Holding, Using, Closing
  <2>2. UserOK(u)
    BY DEF DevInv
  <2> QED
    BY <1>2, <2>1, <2>2 DEF UserOK
<1>6. d.file = NoUser /\ u \notin d.opened /\ d.locked # u
  <2>1. DeviceOK(m) /\ UserOK(u)
    BY DEF DevInv
  <2> QED
    BY <1>1, <1>4, <1>5, <2>1 DEF DeviceOK, UserOK
<1>7. /\ e \in Device /\ e.opened = d.opened /\ e.present /\ e.locked = d.locked
      /\ e.file = d.file /\ e.flushed = d.flushed
  BY <1>3 DEF Device
<1> HIDE DEF e, v
<1>8. Spares(d, e, u)
  BY <1>7 DEF Spares
<1>9. Fits(u, v, m, e)
  <2>1. "init" \in Placed /\ "init" \notin Holding /\ "init" \notin Owning /\ "init" \notin Closing
    BY DEF Placed, Holding, Owning, Using, Closing
  <2> QED
    BY <1>4, <1>6, <1>7, <2>1 DEF Fits
<1>10. Stays(u, v, m, e)
  BY <1>6, <1>7 DEF Stays
<1>11. Apart'
  <2>1. /\ user'[u] = v /\ \A w \in Users \ {u} : user'[w] = user[w]
        /\ Requests \subseteq Users /\ Apart
    BY <1>3, Typed DEF DevInv, Users
  <2>2. ASSUME u \in Requests, NEW s \in Requests \ {u} PROVE user[s].minor # m
    <3> SUFFICES ASSUME user[s].minor = m PROVE FALSE
      OBVIOUS
    <3>1. UserOK(s)
      BY <2>1 DEF DevInv
    <3>2. user[s].at \in Placed /\ user[s].at \notin Closing \cup {"exit"}
      BY <1>4, <3>1 DEF UserOK
    <3>3. user[s].at \notin Creating \cup {"bound"}
      BY <1>2, <2>2 DEF ServerBusy
    <3>4. user[s].at = "use"
      BY <3>2, <3>3 DEF Placed, Holding, Using, Creating
    <3>5. d.file = s
      BY <3>1, <3>4 DEF UserOK, Owning
    <3> QED
      BY <1>6, <2>1, <3>5, Nobody
  <2>3. ASSUME NEW r \in Requests, NEW s \in Requests, r # s, user'[r].minor # NoMinor
        PROVE  user'[r].minor # user'[s].minor
    <3>1. CASE r = u
      BY <1>4, <2>1, <2>2, <2>3, <3>1
    <3>2. CASE s = u
      BY <1>4, <2>1, <2>2, <2>3, <3>2
    <3>3. CASE r # u /\ s # u
      BY <2>1, <2>3, <3>3 DEF Apart
    <3> QED
      BY <3>1, <3>2, <3>3
  <2> QED
    BY <2>3 DEF Apart
<1>12. Inhibition'
  <2>1. user[u].at \notin Holding /\ user[u].at # "killed"
    BY <1>2, States
  <2> QED
    BY <1>2, <1>3, <1>4, <2>1, LocksStay
<1> QED
  BY <1>2, <1>3, <1>4, <1>5, <1>7, <1>8, <1>9, <1>10, <1>11, <1>12, Acts

\* Loop.__init__, which fails when the device has been removed.
LEMMA OpensLoop ==
  ASSUME DevInv, NEW u \in Users, OpenLoop(u)
  PROVE  DevInv'
<1> DEFINE m == user[u].minor
           d == dev[m]
<1>1. /\ user[u].at = "init" /\ UNCHANGED <<inhibited, lost, server, legacy, meddling>>
      /\ DeviceOf(u) = d
  BY DEF OpenLoop, DeviceOf
<1>2. user[u].at \in Placed /\ user[u].at \notin Holding /\ user[u].at \notin Owning
  BY <1>1 DEF Placed, Holding, Owning, Using, Closing
<1>3. UserOK(u) /\ m \in Minors /\ d \in Device /\ lost' = {}
  <2>1. UserOK(u)
    BY DEF DevInv
  <2> QED
    BY <1>1, <1>2, <2>1, Typed DEF UserOK, UserRec
<1>4. u \notin d.opened /\ d.locked # u
  BY <1>2, <1>3 DEF UserOK
<1>5. CASE d.present
  <2> DEFINE e == Opened(d, u)
  <2>1. Goes(u, "setup") /\ dev' = [dev EXCEPT ![m] = e]
    BY <1>1, <1>5 DEF OpenLoop, Kernel
  <2>2. /\ e \in Device /\ Spares(d, e, u) /\ u \in e.opened /\ e.locked = d.locked
        /\ e.file = d.file /\ e.present = d.present
        /\ e.autoclear = d.autoclear /\ e.flushed = d.flushed
    BY <1>3, Opening
  <2>3. "setup" \in Holding /\ "setup" \notin Owning \cup Closing \cup {"clear_fd", "get_status"}
    BY States DEF Owning, Closing
  <2> HIDE DEF e
  <2>4. Allowed(u, "setup", dev[user[u].minor], e)
    BY <1>1, <1>2, <1>3, <1>4, <1>5, <2>1, <2>2, <2>3 DEF Allowed
  <2> QED
    BY <1>1, <1>2, <1>3, <1>4, <1>5, <2>1, <2>2, <2>3, <2>4, GoesOn
<1>6. CASE ~d.present
  <2> DEFINE v == [at |-> "failed", minor |-> NoMinor]
  <2>1. user' = [user EXCEPT ![u] = v] /\ dev' = [dev EXCEPT ![m] = d]
    BY <1>1, <1>3, <1>6, Typed DEF OpenLoop
  <2>2. v \in UserRec /\ v.at = "failed" /\ v.minor = NoMinor
    BY DEF UserRec, Places, Ended
  <2>3. "failed" \notin Placed /\ "failed" \notin Closing /\ m # NoMinor
    BY <1>3, Nobody DEF Placed, Holding, Using, Closing
  <2> HIDE DEF v
  <2>4. Spares(d, d, u)
    BY DEF Spares
  <2>5. Fits(u, v, m, d)
    BY <1>4, <2>2, <2>3 DEF Fits
  <2>6. Stays(u, user[u], m, d)
    BY <1>3, Fit
  <2>7. Stays(u, v, m, d)
    BY <1>1, <2>6 DEF Stays
  <2>8. Apart'
    BY <2>1, <2>2, ApartKept
  <2>9. Inhibition' /\ inhibited' \in SUBSET Minors
    BY <1>1, <1>2, <2>1, <2>2, LocksStay, Typed
  <2> QED
    BY <1>1, <1>3, <2>1, <2>2, <2>4, <2>5, <2>7, <2>8, <2>9, Acts
<1> QED
  BY <1>5, <1>6

LEMMA Advances ==
  ASSUME DevInv, NEW u \in Users, Advance(u) \/ Write(u) \/ TimeOut(u)
  PROVE  DevInv'
  BY GetsUnbound, OpensLoop, Setups, LocksIt, Configures, SetsStatus, GivesBack, Mknods,
     FlushesBuf, ClearsFd, GetsStatus, ClosesIt, Writes DEF Advance

-----------------------------------------------------------------------------
(***************************************************************************)
(* The end of a process: the kernel closes what it had open.               *)
(***************************************************************************)

\* Of those who are killed together only one has a device open.
LEMMA Together ==
  ASSUME DevInv, NEW gang, gang = Requests \/ \E u \in Services : gang = {u},
         NEW w \in gang, NEW x \in gang, NEW n \in Minors, user[w].minor = n,
         user[x].minor = n
  PROVE  w = x
  BY Nobody DEF DevInv, Apart

LEMMA Dies ==
  ASSUME DevInv, NEW gang, gang = Requests \/ \E u \in Services : gang = {u}, Crash(gang)
  PROVE  DevInv'
<1> DEFINE gone(n) == \E u \in gang : user[u].minor = n /\ u \in dev[n].opened
           who(n) == CHOOSE u \in gang : user[u].minor = n /\ u \in dev[n].opened
<1>1. /\ gang \subseteq Users /\ dev \in [Minors -> Device] /\ user \in [Users -> UserRec]
      /\ inhibited \in SUBSET Minors /\ lost = {} /\ legacy \in BOOLEAN
      /\ server \in {"up", "cleanup", "down"} /\ meddling \in 0..MaxMeddling
  BY Typed DEF Users
<1>2. /\ dev' = [n \in Minors |-> IF gone(n) THEN Released(dev[n], who(n)) ELSE dev[n]]
      /\ user' = [u \in Users |-> IF u \in Holders(gang)
                                  THEN [at |-> "killed", minor |-> NoMinor] ELSE user[u]]
      /\ server' \in {server, "down"} /\ UNCHANGED <<inhibited, lost, legacy, meddling>>
  BY DEF Crash
<1>3. ASSUME NEW n \in Minors
      PROVE  \/ ~gone(n) /\ dev'[n] = dev[n]
             \/ \E x \in gang : /\ user[x].minor = n /\ x \in dev[n].opened
                                /\ dev'[n] = Released(dev[n], x)
  <2>1. CASE gone(n)
    <3>1. who(n) \in gang /\ user[who(n)].minor = n /\ who(n) \in dev[n].opened
      BY <2>1
    <3> QED
      BY <1>2, <2>1, <3>1
  <2>2. CASE ~gone(n)
    BY <1>2, <2>2
  <2> QED
    BY <2>1, <2>2
<1>4. ASSUME NEW u \in Users
      PROVE  /\ u \in Holders(gang) => user'[u].at = "killed" /\ user'[u].minor = NoMinor
             /\ u \notin Holders(gang) => user'[u] = user[u]
             /\ u \in Holders(gang) <=> u \in gang /\ user[u].at \notin Ended
  BY <1>1, <1>2 DEF Holders
<1> HIDE DEF who
\* What becomes of a device.
<1>5. ASSUME NEW n \in Minors, NEW x \in gang, dev'[n] = Released(dev[n], x)
      PROVE  /\ dev'[n] \in Device /\ dev'[n].opened = dev[n].opened \ {x}
             /\ dev'[n].present = dev[n].present
             /\ dev'[n].locked = IF dev[n].locked = x THEN NoUser ELSE dev[n].locked
             /\ dev'[n].file =
                  IF dev'[n].opened = {} /\ dev[n].autoclear THEN NoUser ELSE dev[n].file
             /\ dev'[n].opened # {} => dev'[n].autoclear = dev[n].autoclear
             /\ Spares(dev[n], dev'[n], x)
  <2>1. dev[n] \in Device /\ x \in Users \cup {Other}
    BY <1>1
  <2> QED
    BY <1>5, <2>1, Releasing
<1>6. TypeOK'
  <2>1. \A n \in Minors : dev'[n] \in Device
    BY <1>1, <1>3, <1>5
  <2>2. dev' \in [Minors -> Device]
    BY <1>2, <2>1
  <2>3. \A u \in Users : user'[u] \in UserRec
    <3>1. [at |-> "killed", minor |-> NoMinor] \in UserRec
      BY DEF UserRec, Places, Ended
    <3> QED
      BY <1>1, <1>2, <3>1
  <2>4. user' \in [Users -> UserRec]
    BY <1>2, <2>3
  <2> QED
    BY <1>1, <1>2, <2>2, <2>4 DEF TypeOK, UserRec, Places
<1>7. ASSUME NEW w \in Users PROVE UserOK(w)'
  <2>1. UserOK(w)
    BY DEF DevInv
  <2>2. CASE w \notin Holders(gang)
    <3>1. ASSUME NEW n \in Minors, NEW x \in gang, user[x].minor = n
          PROVE  x # w
      <4>1. CASE w \notin gang
        BY <4>1
      <4>2. CASE w \in gang
        <5>1. user[w].at \in Ended
          BY <1>4, <2>2, <4>2
        <5>2. user[w].minor = NoMinor
          BY <2>1, <5>1 DEF UserOK, Ended, Placed, Holding, Using, Closing
        <5> QED
          BY <3>1, <5>2, Nobody
      <4> QED
        BY <4>1, <4>2
    <3>2. ASSUME NEW n \in Minors
          PROVE  /\ w \in dev'[n].opened <=> w \in dev[n].opened
                 /\ dev'[n].locked = w <=> dev[n].locked = w
                 /\ dev'[n].file = w => dev[n].file = w
                 /\ w \in dev[n].opened /\ dev[n].file = w =>
                       dev'[n].file = w /\ (dev[n].flushed => dev'[n].flushed)
      <4>1. CASE dev'[n] = dev[n]
        BY <4>1
      <4>2. ASSUME NEW x \in gang, user[x].minor = n, dev'[n] = Released(dev[n], x)
            PROVE  /\ w \in dev'[n].opened <=> w \in dev[n].opened
                   /\ dev'[n].locked = w <=> dev[n].locked = w
                   /\ dev'[n].file = w => dev[n].file = w
                   /\ w \in dev[n].opened /\ dev[n].file = w =>
                         dev'[n].file = w /\ (dev[n].flushed => dev'[n].flushed)
        <5>1. Spares(dev[n], dev'[n], x) /\ w \in Users \ {x}
          BY <1>5, <3>1, <4>2
        <5> QED
          BY <5>1 DEF Spares
      <4> QED
        BY <1>3, <4>1, <4>2
    <3>3. user'[w] = user[w] /\ legacy' = legacy
      BY <1>2, <1>4, <2>2
    <3> QED
      BY <3>2, <3>3, Undisturbed
  <2>3. CASE w \in Holders(gang)
    <3>1. w \in gang /\ user'[w].at = "killed" /\ user'[w].minor = NoMinor
      BY <1>4, <2>3
    <3>2. ASSUME NEW n \in Minors
          PROVE  w \notin dev'[n].opened /\ dev'[n].locked # w
      <4>1. CASE w \notin dev[n].opened
        <5>1. dev[n].locked # w
          BY <2>1, <4>1 DEF UserOK
        <5>2. CASE dev'[n] = dev[n]
          BY <4>1, <5>1, <5>2
        <5>3. ASSUME NEW x \in gang, dev'[n] = Released(dev[n], x)
              PROVE  w \notin dev'[n].opened /\ dev'[n].locked # w
          BY <1>5, <4>1, <5>1, <5>3, Nobody
        <5> QED
          BY <1>3, <5>2, <5>3
      <4>2. CASE w \in dev[n].opened
        <5>1. user[w].minor = n
          BY <2>1, <4>2 DEF UserOK
        <5>2. gone(n)
          BY <3>1, <4>2, <5>1
        <5>3. PICK x \in gang : user[x].minor = n /\ dev'[n] = Released(dev[n], x)
          BY <1>3, <5>2
        <5>4. x = w
          BY <3>1, <5>1, <5>3, Together
        <5> QED
          BY <1>5, <5>3, <5>4, Nobody
      <4> QED
        BY <4>1, <4>2
    <3>3. /\ "killed" \notin Placed /\ "killed" \notin Holding /\ "killed" \notin Owning
          /\ "killed" \notin Closing
      BY DEF Placed, Holding, Owning, Using, Closing
    <3> QED
      BY <3>1, <3>2, <3>3, Nobody DEF UserOK
  <2> QED
    BY <2>2, <2>3
<1>8. ASSUME NEW n \in Minors PROVE DeviceOK(n)'
  <2>1. DeviceOK(n) /\ dev[n] \in Device
    BY <1>1 DEF DevInv
  <2>2. ASSUME legacy, NEW f \in Users,
               \/ user[f].at = "killed"
               \/ user[f].at \in {"status", "clear"} /\ user[f].minor = n
        PROVE  \/ user'[f].at = "killed"
               \/ user'[f].at \in {"status", "clear"} /\ user'[f].minor = n
    BY <1>4, <2>2
  <2>3. /\ dev'[n].file \in {NoUser, dev[n].file} /\ dev'[n].present = dev[n].present
        /\ dev'[n].opened \subseteq dev[n].opened
        /\ \/ dev'[n].file = NoUser
           \/ dev'[n].opened # {} /\ dev'[n].autoclear = dev[n].autoclear
           \/ dev'[n].opened = dev[n].opened /\ dev'[n].autoclear = dev[n].autoclear
           \/ ~dev[n].autoclear
    <3>1. CASE dev'[n] = dev[n]
      BY <3>1
    <3>2. ASSUME NEW x \in gang, dev'[n] = Released(dev[n], x)
          PROVE  /\ dev'[n].file \in {NoUser, dev[n].file} /\ dev'[n].present = dev[n].present
                 /\ dev'[n].opened \subseteq dev[n].opened
                 /\ \/ dev'[n].file = NoUser
                    \/ dev'[n].opened # {} /\ dev'[n].autoclear = dev[n].autoclear
                    \/ dev'[n].opened = dev[n].opened /\ dev'[n].autoclear = dev[n].autoclear
                    \/ ~dev[n].autoclear
      BY <1>5, <3>2
    <3> QED
      BY <1>3, <3>1, <3>2
  <2>4. dev[n].file = NoUser \/ dev[n].file \in Users
    BY <2>1 DEF Device
  <2>5. Kept(n)'
    <3>1. CASE dev'[n].file = NoUser
      BY <3>1 DEF Kept
    <3>2. CASE dev'[n].file # NoUser /\ dev[n].autoclear /\ dev[n].opened # {}
      BY <2>3, <3>2 DEF Kept
    <3>3. CASE dev'[n].file # NoUser /\ ~(dev[n].autoclear /\ dev[n].opened # {})
      <4>1. dev'[n].file = dev[n].file /\ dev[n].file \in Users
        BY <2>3, <2>4, <3>3
      <4>2. /\ legacy
            /\ \/ user[dev[n].file].at = "killed"
               \/ user[dev[n].file].at \in {"status", "clear"} /\ user[dev[n].file].minor = n
        BY <2>1, <3>3, <4>1, Nobody DEF DeviceOK, Kept
      <4> QED
        BY <1>2, <2>2, <4>1, <4>2 DEF Kept
    <3> QED
      BY <3>1, <3>2, <3>3
  <2> QED
    BY <2>1, <2>3, <2>5 DEF DeviceOK
<1>9. Apart'
  <2>1. ASSUME NEW u \in Users PROVE user'[u].minor \in {user[u].minor, NoMinor}
    BY <1>4
  <2>2. Apart /\ Requests \subseteq Users
    BY DEF DevInv, Users
  <2> QED
    BY <2>1, <2>2 DEF Apart
<1>10. Inhibition'
  <2> SUFFICES ASSUME NEW m \in inhibited
               PROVE  \E s \in Services :
                         \/ user'[s].at = "killed"
                         \/ user'[s].minor = m /\ user'[s].at \in Holding \ {"setup"}
    BY <1>2 DEF Inhibition
  <2>1. PICK s \in Services : \/ user[s].at = "killed"
                              \/ user[s].minor = m /\ user[s].at \in Holding \ {"setup"}
    BY DEF DevInv, Inhibition
  <2>2. s \in Users
    BY DEF Users
  <2> QED
    BY <1>4, <2>1, <2>2
<1> QED
  BY <1>1, <1>2, <1>6, <1>7, <1>8, <1>9, <1>10 DEF DevInv

-----------------------------------------------------------------------------
(***************************************************************************)
(* The server, and the others on the machine.                              *)
(***************************************************************************)

LEMMA Unmoved ==
  ASSUME DevInv, UNCHANGED <<dev, user, inhibited, lost, legacy>>,
         server' \in {"up", "cleanup", "down"}, meddling' \in 0..MaxMeddling
  PROVE  DevInv'
<1>1. TypeOK'
  BY Typed DEF TypeOK, UserRec, Places
<1>2. \A u \in Users : UserOK(u)'
  BY DEF DevInv, UserOK
<1>3. \A m \in Minors : DeviceOK(m)'
  BY DEF DevInv, DeviceOK, Kept
<1>4. Apart' /\ Inhibition'
  BY DEF DevInv, Apart, Inhibition
<1> QED
  BY <1>1, <1>2, <1>3, <1>4, Typed DEF DevInv

\* The others leave a device to those who have it open, and bound only if it was so.
LEMMA Meddles ==
  ASSUME DevInv, NEW m \in Minors, NEW e \in Device, dev' = [dev EXCEPT ![m] = e],
         UNCHANGED <<user, inhibited, lost, server, legacy>>, meddling' \in 0..MaxMeddling,
         Spares(dev[m], e, Other),
         \/ e.file = NoUser
         \/ /\ e.file = dev[m].file /\ e.autoclear = dev[m].autoclear
            /\ dev[m].autoclear /\ dev[m].opened # {} => e.opened # {},
         e.opened # {} \/ e.file # NoUser => e.present
  PROVE  DevInv'
<1>1. TypeOK' /\ dev' \in [Minors -> Device]
  BY Typed DEF TypeOK, UserRec, Places
<1>2. dev'[m] = e /\ \A n \in Minors \ {m} : dev'[n] = dev[n]
  BY Typed
<1>3. ASSUME NEW w \in Users PROVE UserOK(w)'
  <2>1. w \in Users \ {Other} /\ user'[w] = user[w]
    BY Nobody
  <2> QED
    BY <2>1, OthersKept
<1>4. ASSUME NEW n \in Minors PROVE DeviceOK(n)'
  <2>1. DeviceOK(n)
    BY DEF DevInv
  <2>2. CASE n = m
    <3>1. CASE e.file = NoUser
      BY <1>2, <2>2, <3>1 DEF DeviceOK, Kept
    <3>2. CASE /\ e.file = dev[m].file /\ e.autoclear = dev[m].autoclear
               /\ dev[m].autoclear /\ dev[m].opened # {} => e.opened # {}
      BY <1>2, <2>1, <2>2, <3>2 DEF DeviceOK, Kept
    <3> QED
      BY <3>1, <3>2
  <2>3. CASE n # m
    BY <1>2, <2>1, <2>3 DEF DeviceOK, Kept
  <2> QED
    BY <2>2, <2>3
<1>5. Apart' /\ Inhibition'
  BY DEF DevInv, Apart, Inhibition
<1> QED
  BY <1>1, <1>3, <1>4, <1>5, Typed DEF DevInv

LEMMA Others ==
  ASSUME DevInv, NEW m \in Minors,
         Probe(m) \/ ProbeEnds(m) \/ Remove(m) \/ Add(m) \/ Drain(m)
  PROVE  DevInv'
<1> DEFINE d == dev[m]
<1>1. /\ d \in Device /\ DeviceOK(m) /\ meddling \in 0..MaxMeddling /\ MaxMeddling \in Nat
      /\ Other \in Users \cup {Other}
  BY Typed, LoopAssumption DEF DevInv
<1>2. UNCHANGED <<user, inhibited, lost, server, legacy>> /\ meddling' \in 0..MaxMeddling
  <2>1. meddling' = meddling \/ (meddling > 0 /\ meddling' = meddling - 1)
    BY DEF Probe, ProbeEnds, Remove, Add, Drain
  <2> QED
    BY <1>1, <2>1 DEF Probe, ProbeEnds, Remove, Add, Drain
<1>3. CASE Probe(m)
  <2> DEFINE e == Opened(d, Other)
  <2>1. dev' = [dev EXCEPT ![m] = e] /\ d.present
    BY <1>3 DEF Probe
  <2>2. /\ e \in Device /\ Spares(d, e, Other) /\ Other \in e.opened
        /\ e.file = d.file /\ e.present = d.present /\ e.autoclear = d.autoclear
    BY <1>1, Opening
  <2> HIDE DEF e
  <2> QED
    BY <1>2, <2>1, <2>2, Meddles
<1>4. CASE ProbeEnds(m)
  <2> DEFINE e == Released(d, Other)
  <2>1. dev' = [dev EXCEPT ![m] = e]
    BY <1>4 DEF ProbeEnds
  <2>2. /\ e \in Device /\ e.opened = d.opened \ {Other} /\ e.present = d.present
        /\ e.file = IF e.opened = {} /\ d.autoclear THEN NoUser ELSE d.file
        /\ e.opened # {} => e.autoclear = d.autoclear /\ e.flushed = d.flushed
        /\ Spares(d, e, Other)
    BY <1>1, Releasing
  <2>3. e.opened = {} /\ ~d.autoclear => e.autoclear = d.autoclear
    BY <2>2 DEF Released
  <2> HIDE DEF e
  <2>4. /\ \/ e.file = NoUser
           \/ /\ e.file = d.file /\ e.autoclear = d.autoclear
              /\ d.autoclear /\ d.opened # {} => e.opened # {}
        /\ e.opened # {} \/ e.file # NoUser => e.present
    BY <1>1, <2>2, <2>3 DEF DeviceOK
  <2> QED
    BY <1>2, <2>1, <2>2, <2>4, Meddles
<1>5. CASE Remove(m) \/ Add(m)
  <2>1. PICK b \in BOOLEAN : /\ dev' = [dev EXCEPT ![m] = [d EXCEPT !.present = b]]
                             /\ b \/ (d.file = NoUser /\ d.opened = {})
    BY <1>1, <1>5 DEF Remove, Add
  <2> DEFINE e == [d EXCEPT !.present = b]
  <2>2. /\ e \in Device /\ e.opened = d.opened /\ e.locked = d.locked /\ e.file = d.file
        /\ e.autoclear = d.autoclear /\ e.flushed = d.flushed /\ e.present = b
    BY <1>1, <2>1 DEF Device
  <2>3. dev' = [dev EXCEPT ![m] = e]
    BY <2>1
  <2> HIDE DEF e
  <2>4. Spares(d, e, Other)
    BY <2>2 DEF Spares
  <2> QED
    BY <1>2, <2>1, <2>2, <2>3, <2>4, Meddles
<1>6. CASE Drain(m)
  <2> DEFINE e == [d EXCEPT !.drained = TRUE]
  <2>1. dev' = [dev EXCEPT ![m] = e]
    BY <1>1, <1>6, Typed DEF Drain
  <2>2. /\ e \in Device /\ e.opened = d.opened /\ e.locked = d.locked /\ e.file = d.file
        /\ e.autoclear = d.autoclear /\ e.flushed = d.flushed /\ e.present = d.present
    BY <1>1 DEF Device
  <2> HIDE DEF e
  <2>3. Spares(d, e, Other)
    BY <2>2 DEF Spares
  <2> QED
    BY <1>1, <1>2, <2>1, <2>2, <2>3, Meddles DEF DeviceOK
<1> QED
  BY <1>3, <1>4, <1>5, <1>6

-----------------------------------------------------------------------------
LEMMA Starts == Init => DevInv
<1> SUFFICES ASSUME Init PROVE DevInv
  OBVIOUS
<1> DEFINE fresh == [present |-> FALSE, file |-> NoUser, autoclear |-> FALSE, opened |-> {},
                     locked |-> NoUser, flushed |-> TRUE, drained |-> TRUE]
<1>1. fresh \in Device /\ fresh.file = NoUser /\ fresh.opened = {} /\ fresh.locked = NoUser
  BY DEF Device
<1>2. /\ dev = [m \in Minors |-> fresh] /\ user = [u \in Users |-> [at |-> "idle", minor |-> NoMinor]]
      /\ inhibited = {} /\ lost = {}
  BY DEF Init
<1> HIDE DEF fresh
<1>3. TypeOK
  <2>1. dev \in [Minors -> Device]
    BY <1>1, <1>2
  <2>2. user \in [Users -> UserRec]
    BY <1>2 DEF UserRec, Places
  <2>3. server \in {"up", "cleanup", "down"} /\ inhibited \subseteq Minors /\ lost \subseteq Users
    BY <1>2 DEF Init
  <2>4. legacy \in BOOLEAN
    BY LoopAssumption DEF Init
  <2>5. meddling \in 0..MaxMeddling
    BY LoopAssumption DEF Init
  <2> QED
    BY <2>1, <2>2, <2>3, <2>4, <2>5 DEF TypeOK, UserRec, Places
<1>4. \A u \in Users : user[u].at = "idle" /\ user[u].minor = NoMinor
  BY <1>2
<1>5. \A m \in Minors : dev[m].file = NoUser /\ dev[m].opened = {} /\ dev[m].locked = NoUser
  BY <1>1, <1>2
<1>6. ASSUME NEW u \in Users PROVE UserOK(u)
  <2>1. "idle" \notin Placed /\ "idle" \notin Closing
    BY DEF Placed, Holding, Using, Closing
  <2> QED
    BY <1>4, <1>5, <2>1, Nobody DEF UserOK
<1>7. \A m \in Minors : DeviceOK(m)
  BY <1>5 DEF DeviceOK, Kept
<1>8. Apart /\ Inhibition
  BY <1>2, <1>4 DEF Apart, Inhibition, Users
<1> QED
  BY <1>2, <1>3, <1>6, <1>7, <1>8 DEF DevInv

LEMMA Steps == DevInv /\ [Next]_vars => DevInv'
<1> SUFFICES ASSUME DevInv, [Next]_vars PROVE DevInv'
  OBVIOUS
<1>1. ASSUME NEW u \in Users, Advance(u) \/ Write(u) \/ TimeOut(u) PROVE DevInv'
  BY <1>1, Advances
<1>2. CASE Cleanup \/ CleanedUp
  BY <1>2, Unmoved, Typed DEF Cleanup, CleanedUp
<1>3. CASE Kill
  BY <1>3, Dies DEF Kill
<1>4. CASE UNCHANGED vars
  BY <1>4, Unmoved, Typed DEF vars
<1>5. ASSUME NEW m \in Minors,
             Probe(m) \/ ProbeEnds(m) \/ Remove(m) \/ Add(m) \/ Drain(m)
      PROVE  DevInv'
  BY <1>5, Others
<1> QED
  BY <1>1, <1>2, <1>3, <1>4, <1>5 DEF Next, Done

LEMMA Invariance == Spec => []DevInv
  BY Starts, Steps, PTL DEF Spec

\* From the moment that a user of osbuild/loop.py configures a device until he closes it,
\* the device is his: bound to his file, as remoteloop.py:34 promises, locked if he asked
\* for that, and what a stage wrote is in the file before clear_fd unbinds it.  It holds
\* whatever other services, other requests to the LoopServer, udev and losetup do to the
\* devices meanwhile, and whoever is killed.
THEOREM Mine == Spec => []DeviceIsMine
<1>1. DevInv => DeviceIsMine
  <2> SUFFICES ASSUME DevInv PROVE DeviceIsMine
    OBVIOUS
  <2>1. ASSUME NEW u \in Users, user[u].at \in Using PROVE DeviceOf(u).file = u
    <3>1. user[u].at \in Holding /\ user[u].at \in Owning
      BY <2>1 DEF Holding, Owning, Using
    <3> QED
      BY <3>1, Has
  <2>2. ASSUME NEW u \in Locking, user[u].at \in {"configure", "status"} \cup Using
        PROVE  DeviceOf(u).locked = u
    <3>1. user[u].at \in Holding \ {"setup", "lock"} /\ u \in Users
      BY <2>2, LoopAssumption DEF Holding, Using
    <3> QED
      BY <3>1, Has
  <2> QED
    BY <2>1, <2>2 DEF DeviceIsMine, BoundWhileUsed, LockHeld, WritesReachFile, DevInv
<1> QED
  BY <1>1, Invariance, PTL

\* What the users of loop devices leave behind, however they end: a device that nobody
\* has open is bound only on an old kernel, when its user was killed before he could set
\* autoclear (the fallback of Loop.configure), and no lock file of util/udev.py is left
\* when all have closed their Loop.
THEOREM Clean == Spec => []LeftClean
<1>1. DevInv => LeftClean
  <2> SUFFICES ASSUME DevInv PROVE LeftClean
    OBVIOUS
  <2>1. ASSUME NEW m \in Minors, dev[m].opened = {}, dev[m].file # NoUser
        PROVE  legacy /\ user[dev[m].file].at = "killed"
    <3>1. Kept(m) /\ dev[m] \in Device
      BY Typed DEF DevInv, DeviceOK
    <3>2. dev[m].file \in Users
      BY <2>1, <3>1 DEF Device
    <3>3. UserOK(dev[m].file)
      BY <3>2 DEF DevInv
    <3>4. "status" \in Holding /\ "clear" \in Holding
      BY States
    <3> QED
      BY <2>1, <3>1, <3>3, <3>4 DEF Kept, UserOK
  <2>2. ASSUME \A u \in Users : user[u].at \in {"closed", "failed"} PROVE inhibited = {}
    <3>1. ASSUME NEW m \in inhibited PROVE FALSE
      <4>1. PICK s \in Services : \/ user[s].at = "killed"
                                  \/ user[s].minor = m /\ user[s].at \in Holding \ {"setup"}
        BY DEF DevInv, Inhibition
      <4>2. user[s].at \in {"closed", "failed"}
        BY <2>2 DEF Users
      <4> QED
        BY <4>1, <4>2, States
    <3> QED
      BY <3>1
  <2> QED
    BY <2>1, <2>2 DEF LeftClean, NothingStaysBound, LockFilesReleased, DevInv
<1> QED
  BY <1>1, Invariance, PTL
=============================================================================
