--------------------------- MODULE MCGraphqlPostman ---------------------------
(* Two calls: one whose task yields twice, one made with                    *)
(* escalate_to_interrupt whose task yields nothing.                         *)
EXTENDS GraphqlPostman, TLC

CONSTANTS c1, c2

MCMaxYields == (c1 :> 2) @@ (c2 :> 0)
=============================================================================
