-------------------------------- MODULE MCVfs --------------------------------
EXTENDS Vfs, TLC

\* The root, two directories, one in another, and a path that is too long for
\* create_directories.
Paths == {<<>>, <<1>>, <<2>>, <<1, 2>>, <<1, 2, 1>>}

\* Servers, ids and descriptors are only compared.
Symmetry == Permutations(Ep) \cup Permutations(Id) \cup Permutations(Fd)
=============================================================================
