--------------------------- MODULE AtomicRegister ---------------------------
(***************************************************************************)
(* What a caller of the cache may rely on when several processes update    *)
(* one of its small files (cache.size, cache.info): every call takes       *)
(* effect at most once, at one instant between its invocation and its      *)
(* return, on the value the file has at that instant; a call whose update  *)
(* is refused leaves the value alone; a process that dies leaves the value *)
(* as it was before or after its whole update.                             *)
(***************************************************************************)
CONSTANTS
    Proc,          \* the processes that share the cache
    Arg,           \* arguments of an update
    InitValue,     \* value written by FsCache._create_scaffolding
    Accept(_, _),  \* Accept(v, a): update a is carried out on value v
    Apply(_, _),   \* Apply(v, a): the value after update a
    MayCrash       \* whether processes may die

VARIABLES
    reg,           \* the value of the file
    call           \* per process: no call, or the state of its call

NoCall == [st |-> "none"]
Pending(a) == [st |-> "pending", arg |-> a]
Returned(r) == [st |-> "returned", res |-> r]

avars == <<reg, call>>

AInit ==
    /\ reg = InitValue
    /\ call = [p \in Proc |-> NoCall]

Invoke(p, a) ==
    /\ call[p] = NoCall
    /\ call' = [call EXCEPT ![p] = Pending(a)]
    /\ UNCHANGED reg

Commit(p, a) ==
    /\ call[p] = Pending(a)
    /\ Accept(reg, a)
    /\ reg' = Apply(reg, a)
    /\ call' = [call EXCEPT ![p] = Returned("done")]

Refuse(p, a) ==
    /\ call[p] = Pending(a)
    /\ ~Accept(reg, a)
    /\ call' = [call EXCEPT ![p] = Returned("refused")]
    /\ UNCHANGED reg

\* The new value could not be written: an exception and no effect.
Fail(p, a) ==
    /\ call[p] = Pending(a)
    /\ call' = [call EXCEPT ![p] = Returned("error")]
    /\ UNCHANGED reg

Finish(p) ==
    /\ \E r \in {"done", "refused", "error"} : call[p] = Returned(r)
    /\ call' = [call EXCEPT ![p] = NoCall]
    /\ UNCHANGED reg

Die(p) ==
    /\ MayCrash
    /\ call' = [call EXCEPT ![p] = NoCall]
    /\ UNCHANGED reg

ANext ==
    \E p \in Proc :
        \/ \E a \in Arg : Invoke(p, a) \/ Commit(p, a) \/ Refuse(p, a) \/ Fail(p, a)
        \/ Finish(p)
        \/ Die(p)

ASpec == AInit /\ [][ANext]_avars
=============================================================================
