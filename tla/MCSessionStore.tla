---------------------------- MODULE MCSessionStore ----------------------------
(* Small instances of SessionStore. *)
EXTENDS SessionStore, TLC

Symmetry == Permutations(Procs) \cup Permutations(Sessions)
===============================================================================
