------------------------------ MODULE MCPazaak ------------------------------
(* Two players: each may challenge the other, and himself.                 *)
EXTENDS Pazaak, TLC

CONSTANTS ann, bob

MCCards == (ann :> 2) @@ (bob :> 1)
=============================================================================
