-------------------------- MODULE MCDiscoveryCache --------------------------
(***************************************************************************)
(* Model-checking instance of DiscoveryCache.                              *)
(***************************************************************************)
EXTENDS DiscoveryCache
=============================================================================
