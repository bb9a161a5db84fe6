------------------------------ MODULE MCContent ------------------------------
\* Clients, replicas and stamps are interchangeable.
EXTENDS Content, TLC

Symmetry == Permutations(Clients) \cup Permutations(Replicas) \cup Permutations(Stamps)
=============================================================================
