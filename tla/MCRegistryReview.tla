--------------------------- MODULE MCRegistryReview ---------------------------
\* Model checking of RegistryReview: sessions and articles are interchangeable.
EXTENDS RegistryReview, TLC

Symmetry == Permutations(Sessions) \cup Permutations(Entities)
===============================================================================
