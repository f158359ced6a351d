---------------------------- MODULE MCRpcClient ----------------------------
(* Finite instance of RpcClient for TLC: two or three caller fibers on one *)
(* client, model values for the fibers.                                    *)
EXTENDS RpcClient, TLC

CONSTANTS c1, c2

MCCallers == {c1, c2}

\* The fibers are interchangeable: nothing in the client depends on which
\* fiber makes a call.
MCSymmetry == Permutations(MCCallers)
=============================================================================
