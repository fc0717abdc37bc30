---- MODULE MCNativeStore ----
(* Model-checking instance of NativeStore: two arrays of two-valued cells.   *)
EXTENDS NativeStore, TLC

CONSTANTS trace, side, a, b, none

MCFields == {trace, side}
MCVal == {a, b}
MCPointsNoDigest == Points \ {"digest"}
MCPointsAll == Points
====
