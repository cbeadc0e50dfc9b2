------------------------------ MODULE MCSession ------------------------------
(* A small instance of Session: two callers and a visitor.                 *)
EXTENDS Session, TLC
CONSTANTS c1, c2, v
MCPrio == (c1 :> 1) @@ (c2 :> 1) @@ (v :> 2)
=============================================================================
