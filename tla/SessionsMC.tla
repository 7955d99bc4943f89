----------------------------- MODULE SessionsMC -----------------------------
(* Instances of InstallSession: the clients are interchangeable for safety.  *)
EXTENDS InstallSession, TLC

ClientSymmetry == Permutations(Clients)
=============================================================================
