----------------------- MODULE MCGenerationActivation -----------------------
(***************************************************************************)
(* One PDF batch of two articles and an older web job of one article; two  *)
(* threads of the Chat process, so that an abandoned request and the next  *)
(* one can be handled at the same time.                                    *)
(***************************************************************************)
EXTENDS GenerationActivation, TLC

CONSTANTS p1, w1, x, y, z, t1, t2

BatchArticles == (p1 :> {x, y}) @@ (w1 :> {z})
BatchAge == (w1 :> 1) @@ (p1 :> 2)
=============================================================================
