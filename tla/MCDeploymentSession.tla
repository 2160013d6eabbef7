------------------------ MODULE MCDeploymentSession ------------------------
(* Two deployments; on the first, two tokens of one user and one of another. *)
EXTENDS DeploymentSession

CONSTANTS h1, h2, u1, u2

A1 == [host |-> h1, user |-> u1, n |-> 1]
A2 == [host |-> h1, user |-> u1, n |-> 2]
A3 == [host |-> h1, user |-> u2, n |-> 1]
B1 == [host |-> h2, user |-> u1, n |-> 1]

MCTokens == {A1, A3, B1}
MCRejected == {}
RotatedTokens == {A1, A2}
=============================================================================
