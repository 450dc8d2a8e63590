-------------------------------- MODULE Maps --------------------------------
(* A collection of documents, or of jobs, is a function from the ids that    *)
(* are there.                                                                *)
LOCAL INSTANCE Functions

Without(f, x) == Restrict(f, DOMAIN f \ {x})
With(f, x, v) == [y \in DOMAIN f \cup {x} |-> IF y = x THEN v ELSE f[y]]
=============================================================================
