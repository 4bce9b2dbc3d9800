------------------------------- MODULE MCPipeline -------------------------------
(***************************************************************************)
(* Instances of Pipeline for TLC.                                          *)
(***************************************************************************)
EXTENDS PipelineInv, TLC

(* `pif index --from 2' and `pif fetch --from 2'. *)
IndexFrom2 == {<<"index", 2>>}
FetchFrom2 == {<<"fetch", 2>>}

IndexAndFetchFrom2 == IndexFrom2 \cup FetchFrom2

Symmetry == Permutations(Workers)
================================================================================
