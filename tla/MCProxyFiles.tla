---------------------------- MODULE MCProxyFiles ----------------------------
(***************************************************************************)
(* ProxyFiles for TLC: each persona is one unit of the file.               *)
(***************************************************************************)
EXTENDS ProxyFiles, FiniteSets, TLC

Lengths == [S \in SUBSET Personas |-> Cardinality(S) + 1]
PostSymmetry == Permutations(Posts)
=============================================================================
