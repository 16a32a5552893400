----------------------- MODULE MCProviderCredentials -----------------------
(* ProviderCredentials on small instances, for TLC.                        *)
EXTENDS ProviderCredentials, TLC

\* Slots, commands and secrets are interchangeable.
Symmetry == Permutations(Uuids) \cup Permutations(Procs) \cup Permutations(Secrets)
=============================================================================
