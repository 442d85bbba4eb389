--------------------------- MODULE MCImportCycles ---------------------------
EXTENDS ImportCycles

CONSTANTS m1, m2, m3, m4

FourModules == {m1, m2, m3, m4}
Symmetric   == Permutations(FourModules)
=============================================================================
