------------------------------ MODULE MCQueries ------------------------------
(* Queries over three terms: "a", "ab" and "b" of an alphabet 1..5 in which   *)
(* 4 is no character and 5 is the last one.                                   *)
EXTENDS Queries

CONSTANTS x, y, z

TermA == <<1>>
TermAB == <<1, 2>>
TermB == <<2>>
AllTerms == {TermA, TermAB, TermB}
AllDocs == {<<>>, <<TermB>>, <<TermA, TermAB>>, <<TermB, TermA, TermA>>, <<TermAB, TermB, TermA>>}
AllQueries == {<<>>} \cup {<<t>> : t \in AllTerms}
              \cup {<<t, u>> : t, u \in AllTerms} \cup {<<TermB, TermA, TermA>>}
AllPrefixes == {<<>>, <<1>>, <<1, 2>>, <<2>>, <<3>>}
AllMisspelt == {[term |-> <<2, 1>>, distance |-> 1], [term |-> <<3>>, distance |-> 1],
                [term |-> <<1, 2, 3>>, distance |-> 1], [term |-> TermAB, distance |-> 0],
                [term |-> <<2, 1, 2>>, distance |-> 2]}
NoChars == {4}

IdSymmetry == Permutations(Ids)
=============================================================================
