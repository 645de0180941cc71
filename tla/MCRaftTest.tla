---------------------------- MODULE MCRaftTest ------------------------------
(* RaftTest for TLC: servers are interchangeable, and so are commands. *)
EXTENDS RaftTest, TLC

Symmetry == Permutations(Server) \cup Permutations(Cmd)

=============================================================================
