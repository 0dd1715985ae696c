------------------------------- MODULE MCDrive -------------------------------
EXTENDS Drive, TLC
Symmetry == Permutations(User) \cup Permutations(Object)
AnyContent == [o \in Object |-> Content]
=============================================================================
