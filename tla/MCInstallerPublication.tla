----------------------- MODULE MCInstallerPublication -----------------------
(* An instance of InstallerPublication in which replicas, clients, platforms
   and digests are interchangeable. *)
EXTENDS InstallerPublication, TLC

Symmetry == Permutations(Replicas) \cup Permutations(Clients) \cup Permutations(Digests)
               \cup Permutations(Platforms)
=============================================================================
