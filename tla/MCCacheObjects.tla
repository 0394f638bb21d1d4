--------------------------- MODULE MCCacheObjects ---------------------------
(* Two accounts receive the same message; one of them also appends it. *)
EXTENDS CacheObjects

CONSTANTS ann, bob, mirrored, appended, shared

MCAccountOf ==
    [j \in {mirrored, appended, shared} |-> IF j = shared THEN bob ELSE ann]
=============================================================================
