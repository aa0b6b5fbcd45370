--------------------------- MODULE MCPullRequest ---------------------------
(***************************************************************************)
(* One operation, whose changes are those that were verified.              *)
(***************************************************************************)
EXTENDS PullRequest

MCRequestOf ==
  [o \in Operations |-> [base |-> 0, digest |-> TRUE, workflow |-> FALSE,
                         second |-> "none", exact |-> TRUE]]
=============================================================================
