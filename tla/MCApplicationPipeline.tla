----------------------- MODULE MCApplicationPipeline -----------------------
(***************************************************************************)
(* ApplicationPipeline for TLC.  Requests and workers are interchangeable: *)
(* no action and no property tells one from another.                       *)
(***************************************************************************)
EXTENDS ApplicationPipeline, TLC

Alike == Permutations(Requests) \union Permutations(Workers)
=============================================================================
