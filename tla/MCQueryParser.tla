---------------------------- MODULE MCQueryParser -----------------------------
(* Queries typed from nine pieces: a two-letter one so that OR, words that    *)
(* contain it and text around it fit in few of them.                          *)
EXTENDS QueryParser

Letters == {"O", "R", "o", "r", "1"}
Blanks == {" "}
Lowers == [O |-> "o", R |-> "r"]
Ones == "1" :> 1
Keys == {<<"O">>, <<"R">>, <<"O", "R">>, <<"1">>, <<" ">>, <<"\"">>, <<"*">>, <<"~">>, <<"+">>}
=============================================================================
