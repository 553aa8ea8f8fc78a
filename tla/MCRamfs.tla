------------------------------- MODULE MCRamfs -------------------------------
EXTENDS Ramfs

\* A file beside a directory of the same name, one in that directory, and
\* one below that.
Paths == {<<>>, <<1>>, <<2>>, <<1, 2>>, <<1, 2, 1>>}

\* The program in the boot archive: of a whole chunk or less.
BootFiles == {<<1>>, <<1, 1>>}

SomeOffsets == {-1, 1}

Symmetry == Permutations(Obj) \cup Permutations(Fd)
=============================================================================
