-------------------------- MODULE MCSecretRotation --------------------------
(* Instances of SecretRotation for TLC. *)
EXTENDS SecretRotation

\* The faults a rotation is documented to survive.
MCSurvivable == {"host", "lostReply", "delete", "restart"}

\* The faults that attack the stored copies and the servers; a failed delete and a refused
\* restart are among MCSurvivable.
MCHostile == FaultKinds \ {"delete", "restart", "connect"}
=============================================================================
