------------------------------ MODULE MCServer ------------------------------
(***************************************************************************)
(* Server on small instances.                                              *)
(***************************************************************************)
EXTENDS Server
=============================================================================
