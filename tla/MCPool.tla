------------------------------- MODULE MCPool -------------------------------
EXTENDS Pool, TLC

ObjectSymmetry == Permutations(Objects)
=============================================================================
