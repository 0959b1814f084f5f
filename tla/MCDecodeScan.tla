------------------------------ MODULE MCDecodeScan ------------------------------
EXTENDS DecodeScan, TLC

NameSymmetry == Permutations(Names)
=============================================================================
