--------------------------- MODULE MCBastionSession ---------------------------
(* Model-checking instance of BastionSession: handlers, closers and nodes are  *)
(* interchangeable, and its properties are of safety.                          *)
EXTENDS BastionSession, TLC

Symmetry == Permutations(Handlers) \cup Permutations(Closers) \cup Permutations(Nodes)
=============================================================================
