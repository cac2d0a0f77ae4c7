-------------------------- MODULE MCSourceDownload --------------------------
(***************************************************************************)
(* Two stores and two items.  Two services, each of which downloads into   *)
(* the first store, with a new or an old curl, or copies between them.     *)
(***************************************************************************)
EXTENDS SourceDownload, TLC

CONSTANTS p1, p2, s1, s2

Download(s, parallel) == [kind |-> "download", store |-> s, into |-> s, parallel |-> parallel]
Copy(s, t) == [kind |-> "copy", store |-> s, into |-> t, parallel |-> FALSE]
SomeCalls ==
    (p1 :> {Download(s1, TRUE), Download(s1, FALSE), Copy(s1, s2)})
    @@ (p2 :> {Download(s1, TRUE), Download(s1, FALSE), Copy(s1, s2), Copy(s2, s1)})
=============================================================================
