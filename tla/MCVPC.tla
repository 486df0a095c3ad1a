------------------------------- MODULE MCVPC -------------------------------
(* A small instance of VPC.                                                *)
EXTENDS VPC

============================================================================
