---------------------------- MODULE MCMapReduce -----------------------------
(* MapReduce for TLC: two inputs that share a key, two parts. *)
EXTENDS MapReduce, TLC

CONSTANTS i1, i2, a, b

MCFiles == <<i1, i2>>
MCEmits == (i1 :> {a}) @@ (i2 :> {a, b})
MCPart == (a :> 0) @@ (b :> 1)

=============================================================================
