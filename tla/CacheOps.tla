------------------------------ MODULE CacheOps ------------------------------
(***************************************************************************)
(* The two updates that fscache.py performs with the locked replacement of *)
(* LockedReplace: the byte counter cache.size and the record cache.info.   *)
(***************************************************************************)
EXTENDS Integers

CONSTANTS
    MaxSize,       \* _info_maximum_size: -1 is "unlimited"
    Absent         \* a field that is not set in cache.info

-----------------------------------------------------------------------------
(***************************************************************************)
(* FsCache._update_cache_size(diff).  An update that would make the size   *)
(* negative caps it at 0 whatever the limit is.                            *)
(***************************************************************************)
SizeAccept(size, diff) ==
    size + diff < 0 \/ MaxSize < 0 \/ size + diff <= MaxSize

SizeApply(size, diff) == IF size + diff < 0 THEN 0 ELSE size + diff

-----------------------------------------------------------------------------
(***************************************************************************)
(* The setter of FsCache.info.  An update is a function from field names   *)
(* in which an unset field (Absent) leaves the value on disk alone, so     *)
(* does a field this implementation does not know.  A file that is not a   *)
(* JSON object, or an incompatible version in the instance, is left alone. *)
(***************************************************************************)
InfoAccept(raw, upd) == raw # Absent /\ upd.compatible

InfoApplyStrip(raw, upd) ==  \* mutation: unset fields are written as well
    [f \in DOMAIN raw |-> IF f \in DOMAIN upd.set THEN upd.set[f] ELSE raw[f]]
InfoApply(raw, upd) ==
    [f \in DOMAIN raw |->
        IF f \in DOMAIN upd.set /\ upd.set[f] # Absent
        THEN upd.set[f] ELSE raw[f]]
=============================================================================
