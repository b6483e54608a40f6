---------------------------- MODULE MCIdentity ----------------------------
(* Instances of HostIdentity: the processes of one machine, on one keyring *)
(* or on two.                                                              *)
EXTENDS HostIdentity, TLC

CONSTANTS p1, p2, r1, r2

MCProcesses == {p1, p2}
MCOneRing   == {r1}
MCTwoRings  == {r1, r2}

Symmetry == Permutations(MCProcesses)
=============================================================================
