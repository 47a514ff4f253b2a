--------------------------- MODULE MCMessageRelay ---------------------------
(* MessageRelay for TLC: handlers and streams are interchangeable. *)
EXTENDS MessageRelay, TLC

Symmetry == Permutations(Handlers) \cup Permutations(Streams)
=============================================================================
