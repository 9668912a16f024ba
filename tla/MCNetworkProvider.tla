-------------------------- MODULE MCNetworkProvider --------------------------
(* Model-checking instance of NetworkProvider: handlers are interchangeable. *)
EXTENDS NetworkProvider, TLC

HandlersSymmetry == Permutations(Handlers)
=============================================================================
