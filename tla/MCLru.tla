------------------------------- MODULE MCLru --------------------------------
(* Instances of the cache for TLC, as an implementation of LruCache. *)
EXTENDS CacheRefinement, MCCache
=============================================================================
