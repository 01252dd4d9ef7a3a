------------------------------ MODULE MCGateway ------------------------------
(* Gateway on small sets of requests and clients, for TLC. *)
EXTENDS Gateway, TLC

(* Requests are interchangeable, and so are clients. *)
Symmetry == Permutations(Reqs) \union Permutations(Clients)
==============================================================================
