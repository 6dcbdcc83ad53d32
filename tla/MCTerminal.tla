----------------------------- MODULE MCTerminal -----------------------------
(* A small instance of Terminal: two users, each on a terminal of its own. *)
EXTENDS Terminal, TLC

CONSTANTS p1, p2

MCBinding == p1 :> 1 @@ p2 :> 2
Call(type, cnt) == [type |-> type, cnt |-> cnt]
MCProgram == p1 :> {Call("READ", 2)}
          @@ p2 :> {Call("READ", 1), Call("WRITE", 1), Call("OPEN", 1), Call("FILE", 0)}
MCKey == {<<"c">>, <<"BS">>, <<"F2">>, <<"E0", "NL">>, <<"none">>}
=============================================================================
