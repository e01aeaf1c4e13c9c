------------------------- MODULE MCRequestPipeline -------------------------
(* Model-checking instance of RequestPipeline.                             *)
EXTENDS RequestPipeline, TLC

CONSTANTS p1, p2, p3, p4, p5, p6, g1, h1

\* Three good POSTs and an invalid one of a client whose limit is two; a good POST,
\* one with a garbled amount, a read and a health check of another.
Kinds   == [r \in {p1, p2, p3, p4, p5, p6, g1, h1} |->
              IF r = g1 THEN "get" ELSE IF r = h1 THEN "health" ELSE "post"]
Origins == [r \in DOMAIN Kinds |-> IF r \in {p1, p2, p3, p4} THEN "one" ELSE "other"]
Bodies  == [r \in DOMAIN Kinds |-> CASE r = p4 -> "invalid" [] r = p6 -> "garbled"
                                     [] OTHER -> "valid"]

Alike == Permutations({p1, p2, p3})
=============================================================================
