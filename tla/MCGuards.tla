------------------------------ MODULE MCGuards ------------------------------
(* Every configuration, every host, two failing commands and two crashes.     *)
EXTENDS Guards
=============================================================================
