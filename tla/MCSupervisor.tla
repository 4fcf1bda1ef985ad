---------------------------- MODULE MCSupervisor ----------------------------
(* Instances of Supervisor for TLC. *)
EXTENDS Supervisor, TLC

\* manifest::fallback_manifest gives a module the name it is spawned under.
SameManifestName == [n \in Names |-> n]

\* A manifest found under any directory may carry any name.
OtherManifestName == [n \in Names |-> CHOOSE l \in Labels : l \notin Names]

Symmetric == Permutations(Names)
=============================================================================
