------------------------------ MODULE MCPublish ------------------------------
(* A small instance of Publish; all its values are in the configuration.   *)
EXTENDS Publish, TLC
=============================================================================
