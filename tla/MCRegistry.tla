------------------------------ MODULE MCRegistry ------------------------------
(***************************************************************************)
(* Small instances of Registry: two clusters that may move between two     *)
(* endpoints while two queries hold clients.                               *)
(***************************************************************************)
EXTENDS Registry
=============================================================================
