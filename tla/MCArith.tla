-------------------------------- MODULE MCArith --------------------------------
(* Short expressions for checking Arith with TLC, on integers of five bits.     *)
EXTENDS Arith, TLC

Ch(chars) == {<<c>> : c \in chars}
MCPieces == Ch({"1", "3", "0", "+", "-", "*", "/", "(", ")"}) \cup
            {<<"$", "x">>, <<"$", "{", "y">>, <<" ", "%">>, <<"*", "*">>}
X == <<"x">>
Y == <<"y">>
\* What a caller may set a variable to: nothing, a sum pasted as it is, the least integer.
MCBindings == {X :> <<"1", "+", "2">>,
               (X :> <<"(", "-", "1", "3", "-", "3", ")">>) @@ (Y :> <<>>)}
=============================================================================
