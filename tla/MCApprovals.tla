---------------------------- MODULE MCApprovals ----------------------------
(***************************************************************************)
(* Small instances of Approvals: two users who decide the same approval.   *)
(***************************************************************************)
EXTENDS Approvals

AllKinds == {"agent", "command", "start", "solo"}
Agent == {"agent"}
=============================================================================
