---------------------------- MODULE MCSegmentFile -----------------------------
(* Bytes of base 8, so that u16, u32 and u64 are one, two and three of them   *)
(* and a length of eight overflows the first; 0 is a blank, 3 and 2 letters,  *)
(* the one the upper case of the other, and 4 to 7 are no text.               *)
EXTENDS SegmentFile, Analyzer

Letters == {1, 2, 3}
Lowers == 3 :> 2
Doc(id, title, body) == [id |-> id, title |-> title, body |-> body]
Some == {Doc(<<1>>, <<2>>, <<3, 0, 1>>), Doc(<<1, 1>>, <<>>, <<>>),
         Doc(<<2>>, <<2, 1, 0, 3>>, <<2, 1, 0, 2, 1, 2, 2, 1, 2, 0>>),
         Doc(<<3>>, <<1, 2, 3, 1, 2, 3, 1, 2>>, <<1>>)}

\* What the analyzer makes of them.
PositionsIn(tokens, t) ==
  LET of == SelectSeq(tokens, LAMBDA token : token.term = t)
  IN [i \in DOMAIN of |-> of[i].pos]
AnalyzedSome ==
  [d \in Some |->
     LET tokens == Tokens(d.title, d.body)
     IN [length |-> Len(tokens),
         positions |-> [t \in {tokens[i].term : i \in DOMAIN tokens} |->
                          PositionsIn(tokens, t)]]]
=============================================================================
