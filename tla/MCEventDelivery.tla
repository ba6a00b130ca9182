-------------------------- MODULE MCEventDelivery ---------------------------
(* EventDelivery on small instances: the clients are model values.             *)
EXTENDS EventDelivery, TLC

Symmetry == Permutations(Streaming) \cup Permutations(Direct)
=============================================================================
