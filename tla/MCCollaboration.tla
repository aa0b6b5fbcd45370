-------------------------- MODULE MCCollaboration --------------------------
(***************************************************************************)
(* A workspace with two owners.                                            *)
(***************************************************************************)
EXTENDS Collaboration

MCInitialRoles == [u \in Users |-> "owner"]
=============================================================================
