------------------------------- MODULE MCHost -------------------------------
(***************************************************************************)
(* HostRuntime with two owners and one request each; one of the owners was *)
(* paired before, or none.                                                 *)
(***************************************************************************)
EXTENDS HostRuntime

CONSTANTS o1, o2, q1

MCOwners == {o1, o2}
MCRequests == {q1}
MCPaired == {o2}
MCNobody == {}
=============================================================================
