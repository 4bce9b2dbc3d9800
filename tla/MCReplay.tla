-------------------------------- MODULE MCReplay --------------------------------
(***************************************************************************)
(* Instances of Replay for TLC.                                            *)
(***************************************************************************)
EXTENDS Replay, TLC

MCReplays == {<<2, 3>>, <<1, 4>>}
================================================================================
