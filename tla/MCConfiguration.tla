--------------------------- MODULE MCConfiguration ---------------------------
(***************************************************************************)
(* A project with one owner.                                               *)
(***************************************************************************)
EXTENDS Configuration

MCRoleOf == [u \in {"owner"} |-> "owner"]
=============================================================================
