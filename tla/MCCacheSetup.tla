---------------------------- MODULE MCCacheSetup ----------------------------
(***************************************************************************)
(* Two processes on a new cache, on one with a limit, on one of a later    *)
(* version, on one with fields of unexpected types, and on one whose       *)
(* cache.info is not a JSON object.                                        *)
(***************************************************************************)
EXTENDS CacheSetup

Old == {Raw("object", "id", "bytes", "1", "unset"),
        Raw("object", "unset", "bytes", "2", "set"),
        Raw("object", "junk", "junk", "1", "set"),
        Raw("other", "unset", "unset", "unset", "unset")}

\* Assignments to the limit (ObjectStore.maximum_size), and one to the version
\* by a program that upgrades the cache.
Assigned == {Tuple("unset", "unlimited", "unset"), Tuple("unset", "bytes", "unset"),
             Tuple("unset", "unset", "2")}
=============================================================================
