----------------------------- MODULE MCTerminal -----------------------------
(* Programs and descriptors are alike.                                      *)
EXTENDS Terminal

Symmetry == Permutations(Client) \cup Permutations(Fd)
=============================================================================
