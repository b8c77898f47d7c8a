--------------------------- MODULE MCSharedCache ----------------------------
(***************************************************************************)
(* Two processes that share the cache.                                     *)
(***************************************************************************)
EXTENDS SharedCache
=============================================================================
