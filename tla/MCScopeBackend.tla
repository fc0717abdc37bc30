--------------------------- MODULE MCScopeBackend ---------------------------
(***************************************************************************)
(* ScopeBackend for TLC: every backend, each with both clock sources.      *)
(***************************************************************************)
EXTENDS ScopeBackend

MCKinds == {"keysight", "tek", "husky"}
=============================================================================
