---------------------------- MODULE MCCacheFiles ----------------------------
(***************************************************************************)
(* Two processes that write different fields of cache.info and read it     *)
(* without a lock.  One inode more than there are processes is enough:     *)
(* only the process inside the protected region creates a file, and its    *)
(* descriptor is then on the inode the path names.                         *)
(* "future" is a field that this implementation does not know.             *)
(***************************************************************************)
EXTENDS LockedReplace, CacheOps

Start == [version |-> 1, maximum |-> Absent, future |-> 7]

Infos == [version : {Absent, 1, 2}, maximum : {Absent, 1}, future : {7}]

Update(v, m, c) == [set |-> [version |-> v, maximum |-> m], compatible |-> c]

Updates ==
    {Update(2, Absent, TRUE), Update(Absent, 1, TRUE), Update(Absent, 1, FALSE)}

\* "Cache-information fields that are not known to this implementation ... are
\* left unchanged on-disk", and "Any value not present in info is left
\* unchanged": a field of the file only ever changes to a value that an update
\* in progress sets it to, in the setter of FsCache.info.
FieldsKept ==
    [][\A f \in DOMAIN Start : content'[path'][f] # content[path][f] =>
          \E p \in Proc :
              /\ pc[p] = "replace"
              /\ f \in DOMAIN arg[p].set /\ arg[p].set[f] # Absent
              /\ arg[p].set[f] = content'[path'][f]]_vars
=============================================================================
