-------------------------------- MODULE MCApm --------------------------------
EXTENDS Apm, TLC

\* Tasks and their names are only compared.
Symmetry == Permutations(Tid) \cup Permutations(Name)
=============================================================================
