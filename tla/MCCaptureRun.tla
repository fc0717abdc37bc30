---- MODULE MCCaptureRun ----
(* Model-checking instance of CaptureRun.                                    *)
EXTENDS CaptureRun, TLC
CONSTANTS w1, w2
MCWave == {w1, w2}
MCReopenAt == {1}
MCOneWave == {w1}
MCNever == {}
====
