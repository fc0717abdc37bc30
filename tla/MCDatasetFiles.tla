---------------------------- MODULE MCDatasetFiles ----------------------------
(***************************************************************************)
(* DatasetFiles for TLC: two processes, two rows, two sidecars.            *)
(***************************************************************************)
EXTENDS DatasetFiles

MCProcess == {1, 2}
MCFields == <<"input", "out">>
===============================================================================
