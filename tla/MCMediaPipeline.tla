--------------------------- MODULE MCMediaPipeline ---------------------------
(* Small instances of MediaPipeline. "a" and "A" differ only in case.       *)
EXTENDS MediaPipeline

MCLower == [n \in Names |-> IF n = "A" THEN "a" ELSE n]
MCTagLists == {{}, {"a"}, Names}
=============================================================================
