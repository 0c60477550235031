----------------------------- MODULE EditDistance -----------------------------
(***************************************************************************)
(* Fuzzy matching of terms (src/fuzzy.rs).  A term is a sequence of         *)
(* characters.                                                             *)
(* A definition named x_y, before the definition x, is x with a seeded bug. *)
(***************************************************************************)
EXTENDS SequencesExt

DEFAULT_MAX_DISTANCE == 1

\* dp[<<i, j>>]: the edits between the first i characters of a and the first j of b.
Cells(a, b) == (0..Len(a)) \X (0..Len(b))
Levenshtein_noReplace(a, b) ==
  LET dp[c \in Cells(a, b)] ==
        LET i == c[1]
            j == c[2]
        IN IF i = 0 \/ j = 0 THEN i + j
           ELSE Min({dp[<<i, j - 1>>] + 1, dp[<<i - 1, j>>] + 1}
                    \cup IF a[i] = b[j] THEN {dp[<<i - 1, j - 1>>]} ELSE {})
  IN dp[<<Len(a), Len(b)>>]
Levenshtein(a, b) ==
  LET dp[c \in Cells(a, b)] ==
        LET i == c[1]
            j == c[2]
        IN IF i = 0 \/ j = 0 THEN i + j
           ELSE Min({dp[<<i - 1, j - 1>>] + IF a[i] = b[j] THEN 0 ELSE 1,
                     dp[<<i, j - 1>>] + 1, dp[<<i - 1, j>>] + 1})
  IN dp[<<Len(a), Len(b)>>]

FindFuzzyMatches(term, all_terms, max_distance) ==
  {t \in all_terms : Levenshtein(term, t) <= max_distance}
=============================================================================
