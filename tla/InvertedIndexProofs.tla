------------------------- MODULE InvertedIndexProofs -------------------------
(* Theorems about InvertedIndex, for any ids, terms and documents.           *)
EXTENDS InvertedIndexInvariant, Induction, FiniteSetTheorems, FunctionTheorems,
        SequenceTheorems, TLAPS

----------------------------------------------------------------------------
(* Lists of postings.                                                        *)

(* A list with one posting more.                                             *)
LEMMA AppendIs ==
  ASSUME NEW S, NEW list \in Seq(S), NEW p \in S
  PROVE  /\ Append(list, p) \in Seq(S) /\ ToSet(Append(list, p)) = ToSet(list) \cup {p}
         /\ (\A q \in ToSet(list) : q.doc_id # p.doc_id) /\ Distinct(list) =>
              Distinct(Append(list, p))
<1>1. /\ Append(list, p) \in Seq(S) /\ Len(Append(list, p)) = Len(list) + 1
      /\ \A i \in 1..Len(list) : Append(list, p)[i] = list[i]
      /\ Append(list, p)[Len(list) + 1] = p
  BY AppendProperties
<1>2. /\ Len(list) \in Nat /\ DOMAIN list = 1..Len(list)
      /\ DOMAIN Append(list, p) = 1..(Len(list) + 1)
  BY <1>1, LenProperties
<1>3. ToSet(Append(list, p)) = ToSet(list) \cup {p}
  <2>1. \A i \in 1..(Len(list) + 1) : i \in 1..Len(list) \/ i = Len(list) + 1
    BY <1>2
  <2>2. \A i \in 1..Len(list) : i \in 1..(Len(list) + 1)
    BY <1>2
  <2>3. Len(list) + 1 \in 1..(Len(list) + 1)
    BY <1>2
  <2>4. QED
    BY <1>1, <1>2, <2>1, <2>2, <2>3 DEF ToSet
<1>4. ASSUME \A q \in ToSet(list) : q.doc_id # p.doc_id, Distinct(list)
      PROVE  Distinct(Append(list, p))
  <2>1. \A i \in 1..Len(list) : list[i] \in ToSet(list)
    BY <1>2 DEF ToSet
  <2> SUFFICES ASSUME NEW i \in 1..(Len(list) + 1), NEW j \in 1..(Len(list) + 1),
                      Append(list, p)[i].doc_id = Append(list, p)[j].doc_id
               PROVE  i = j
    BY <1>1 DEF Distinct
  <2>2. QED
    BY <1>1, <1>2, <1>4, <2>1 DEF Distinct
<1>5. QED
  BY <1>1, <1>3, <1>4

(* The list so far, while Without goes through a list.                       *)
LEMMA WithoutUnfolds ==
  ASSUME NEW S, NEW list \in Seq(S), NEW ids
  PROVE  \E kept :
           /\ kept = [k \in 0..Len(list) |->
                        IF k = 0 THEN <<>>
                        ELSE IF list[k].doc_id \in ids THEN kept[k - 1]
                             ELSE Append(kept[k - 1], list[k])]
           /\ Without(list, ids) = kept[Len(list)]
<1>1. Len(list) \in Nat
  BY LenProperties
<1> DEFINE T == {n \in Nat : \E f : f = [k \in 0..n |->
                   IF k = 0 THEN <<>>
                   ELSE IF list[k].doc_id \in ids THEN f[k - 1] ELSE Append(f[k - 1], list[k])]}
<1>2. 0 \in T
  <2> DEFINE f == [k \in 0..0 |-> <<>>]
  <2>1. f = [k \in 0..0 |-> IF k = 0 THEN <<>>
                            ELSE IF list[k].doc_id \in ids THEN f[k - 1]
                                 ELSE Append(f[k - 1], list[k])]
    OBVIOUS
  <2>2. QED
    BY <2>1
<1>3. ASSUME NEW n \in T PROVE n + 1 \in T
  <2>1. PICK f : f = [k \in 0..n |->
                   IF k = 0 THEN <<>>
                   ELSE IF list[k].doc_id \in ids THEN f[k - 1] ELSE Append(f[k - 1], list[k])]
    OBVIOUS
  <2> DEFINE g == [k \in 0..(n + 1) |->
                     IF k = n + 1
                       THEN IF list[k].doc_id \in ids THEN f[k - 1] ELSE Append(f[k - 1], list[k])
                       ELSE f[k]]
  <2>2. \A k \in 0..(n + 1) : g[k] =
          IF k = 0 THEN <<>>
          ELSE IF list[k].doc_id \in ids THEN g[k - 1] ELSE Append(g[k - 1], list[k])
    <3> TAKE k \in 0..(n + 1)
    <3>1. CASE k = n + 1
      BY <3>1
    <3>2. CASE k \in 0..n
      <4>1. f[k] = IF k = 0 THEN <<>>
                   ELSE IF list[k].doc_id \in ids THEN f[k - 1] ELSE Append(f[k - 1], list[k])
        BY <2>1, <3>2
      <4>2. g[k] = f[k] /\ (k # 0 => k - 1 \in 0..n /\ g[k - 1] = f[k - 1])
        BY <3>2
      <4> HIDE DEF g
      <4>3. QED
        BY <4>1, <4>2
    <3>3. QED
      BY <3>1, <3>2
  <2>3. g = [k \in 0..(n + 1) |->
               IF k = 0 THEN <<>>
               ELSE IF list[k].doc_id \in ids THEN g[k - 1] ELSE Append(g[k - 1], list[k])]
    <3>1. g = [k \in 0..(n + 1) |-> g[k]]
      OBVIOUS
    <3> HIDE DEF g
    <3>2. QED
      BY <2>2, <3>1
  <2> HIDE DEF g
  <2>4. n + 1 \in Nat
    OBVIOUS
  <2>5. QED
    BY <2>3, <2>4
<1>4. T = Nat
  <2>1. T \subseteq Nat
    OBVIOUS
  <2> HIDE DEF T
  <2>2. QED
    BY <1>2, <1>3, <2>1, SetInduction
<1>5. \E f : f = [k \in 0..Len(list) |->
                   IF k = 0 THEN <<>>
                   ELSE IF list[k].doc_id \in ids THEN f[k - 1] ELSE Append(f[k - 1], list[k])]
  BY <1>1, <1>4
<1>6. QED
  BY <1>5 DEF Without

(* Without keeps the postings of other documents, and makes no copies.       *)
LEMMA WithoutIs ==
  ASSUME NEW S, NEW list \in Seq(S), NEW ids
  PROVE  /\ Without(list, ids) \in Seq(S)
         /\ ToSet(Without(list, ids)) = {p \in ToSet(list) : p.doc_id \notin ids}
         /\ Distinct(list) => Distinct(Without(list, ids))
<1> DEFINE n == Len(list)
           Kept(k) == {p \in {list[i] : i \in 1..k} : p.doc_id \notin ids}
<1>1. n \in Nat /\ DOMAIN list = 1..n /\ \A i \in 1..n : list[i] \in S
  BY LenProperties, ElementOfSeq
<1>2. PICK kept :
        /\ kept = [k \in 0..n |->
                     IF k = 0 THEN <<>>
                     ELSE IF list[k].doc_id \in ids THEN kept[k - 1]
                          ELSE Append(kept[k - 1], list[k])]
        /\ Without(list, ids) = kept[n]
  BY WithoutUnfolds
<1> HIDE DEF n
<1> DEFINE T == {k \in Nat : k <= n =>
                   /\ kept[k] \in Seq(S) /\ ToSet(kept[k]) = Kept(k)
                   /\ Distinct(list) => Distinct(kept[k])}
<1>3. 0 \in T
  <2>1. 0 \in 0..n
    BY <1>1
  <2>2. kept[0] = <<>>
    BY <1>2, <2>1
  <2>3. <<>> \in Seq(S) /\ ToSet(<<>>) = {} /\ Distinct(<<>>)
    BY DEF ToSet, Distinct
  <2>4. Kept(0) = {}
    OBVIOUS
  <2>5. QED
    BY <2>2, <2>3, <2>4
<1>4. ASSUME NEW k \in T PROVE k + 1 \in T
  <2> SUFFICES ASSUME k + 1 <= n
               PROVE  /\ kept[k + 1] \in Seq(S) /\ ToSet(kept[k + 1]) = Kept(k + 1)
                      /\ Distinct(list) => Distinct(kept[k + 1])
    OBVIOUS
  <2>1. /\ k \in Nat /\ k + 1 \in 0..n /\ k + 1 # 0 /\ (k + 1) - 1 = k /\ k + 1 \in 1..n
        /\ list[k + 1] \in S
    <3>1. k \in Nat /\ k + 1 \in 0..n /\ k + 1 # 0 /\ (k + 1) - 1 = k /\ k + 1 \in 1..n
      BY <1>1
    <3>2. QED
      BY <1>1, <3>1
  <2>2. /\ kept[k] \in Seq(S) /\ ToSet(kept[k]) = Kept(k)
        /\ Distinct(list) => Distinct(kept[k])
    BY <1>1, <2>1
  <2>3. kept[k + 1] = IF list[k + 1].doc_id \in ids THEN kept[k] ELSE Append(kept[k], list[k + 1])
    BY <1>2, <2>1
  <2>4. \A i \in 1..(k + 1) : i \in 1..k \/ i = k + 1
    BY <2>1
  <2>5. \A i \in 1..k : i \in 1..(k + 1)
    BY <2>1
  <2>6. CASE list[k + 1].doc_id \in ids
    <3>1. Kept(k + 1) = Kept(k)
      BY <2>1, <2>4, <2>5, <2>6
    <3>2. QED
      BY <2>2, <2>3, <2>6, <3>1
  <2>7. CASE list[k + 1].doc_id \notin ids
    <3>1. Kept(k + 1) = Kept(k) \cup {list[k + 1]}
      BY <2>1, <2>4, <2>5, <2>7
    <3>2. Distinct(list) => \A q \in Kept(k) : q.doc_id # list[k + 1].doc_id
      BY <1>1, <2>1 DEF Distinct, n
    <3>3. QED
      BY <2>1, <2>2, <2>3, <2>7, <3>1, <3>2, AppendIs
  <2>8. QED
    BY <2>6, <2>7
<1>5. n \in T
  <2> HIDE DEF T
  <2>1. T = Nat
    <3>1. T \subseteq Nat
      BY DEF T
    <3>2. QED
      BY <1>3, <1>4, <3>1, SetInduction
  <2>2. QED
    BY <1>1, <2>1
<1>6. ToSet(list) = {list[i] : i \in 1..n}
  BY <1>1 DEF ToSet
<1>7. QED
  BY <1>1, <1>2, <1>5, <1>6

(* The list so far, while MergeLists goes through the second list.           *)
LEMMA MergeUnfolds ==
  ASSUME NEW S, NEW list \in Seq(S), NEW more \in Seq(S)
  PROVE  \E merged :
           /\ merged = [k \in 0..Len(more) |->
                          IF k = 0 THEN list ELSE Place(merged[k - 1], more[k])]
           /\ MergeLists(list, more) = merged[Len(more)]
<1>1. Len(more) \in Nat
  BY LenProperties
<1> DEFINE T == {n \in Nat : \E f : f = [k \in 0..n |->
                   IF k = 0 THEN list ELSE Place(f[k - 1], more[k])]}
<1>2. 0 \in T
  <2> DEFINE f == [k \in 0..0 |-> list]
  <2>1. f = [k \in 0..0 |-> IF k = 0 THEN list ELSE Place(f[k - 1], more[k])]
    OBVIOUS
  <2>2. QED
    BY <2>1
<1>3. ASSUME NEW n \in T PROVE n + 1 \in T
  <2>1. PICK f : f = [k \in 0..n |-> IF k = 0 THEN list ELSE Place(f[k - 1], more[k])]
    OBVIOUS
  <2> DEFINE g == [k \in 0..(n + 1) |-> IF k = n + 1 THEN Place(f[k - 1], more[k]) ELSE f[k]]
  <2>2. \A k \in 0..(n + 1) : g[k] = IF k = 0 THEN list ELSE Place(g[k - 1], more[k])
    <3> TAKE k \in 0..(n + 1)
    <3>1. CASE k = n + 1
      <4>1. k # 0 /\ g[k] = Place(f[k - 1], more[k]) /\ k - 1 \in 0..(n + 1) /\ k - 1 # n + 1
        BY <3>1
      <4>2. g[k - 1] = f[k - 1]
        BY <4>1
      <4> HIDE DEF g
      <4>3. QED
        BY <4>1, <4>2
    <3>2. CASE k \in 0..n
      <4>1. f[k] = IF k = 0 THEN list ELSE Place(f[k - 1], more[k])
        BY <2>1, <3>2
      <4>2. g[k] = f[k] /\ (k # 0 => k - 1 \in 0..n /\ g[k - 1] = f[k - 1])
        BY <3>2
      <4> HIDE DEF g
      <4>3. QED
        BY <4>1, <4>2
    <3>3. QED
      BY <3>1, <3>2
  <2>3. g = [k \in 0..(n + 1) |-> IF k = 0 THEN list ELSE Place(g[k - 1], more[k])]
    <3>1. g = [k \in 0..(n + 1) |-> g[k]]
      OBVIOUS
    <3> HIDE DEF g
    <3>2. QED
      BY <2>2, <3>1
  <2> HIDE DEF g
  <2>4. n + 1 \in Nat
    OBVIOUS
  <2>5. QED
    BY <2>3, <2>4
<1>4. T = Nat
  <2>1. T \subseteq Nat
    OBVIOUS
  <2> HIDE DEF T
  <2>2. QED
    BY <1>2, <1>3, <2>1, SetInduction
<1>5. \E f : f = [k \in 0..Len(more) |-> IF k = 0 THEN list ELSE Place(f[k - 1], more[k])]
  BY <1>1, <1>4
<1>6. QED
  BY <1>5 DEF MergeLists

(* Merging lists that share no document adds the second to the first.        *)
LEMMA MergeIs ==
  ASSUME NEW S, NEW list \in Seq(S), NEW more \in Seq(S), Distinct(list), Distinct(more),
         \A p \in ToSet(list), q \in ToSet(more) : p.doc_id # q.doc_id
  PROVE  /\ MergeLists(list, more) \in Seq(S) /\ Distinct(MergeLists(list, more))
         /\ ToSet(MergeLists(list, more)) = ToSet(list) \cup ToSet(more)
<1> DEFINE n == Len(more)
           Merged(k) == ToSet(list) \cup {more[i] : i \in 1..k}
<1>1. n \in Nat /\ DOMAIN more = 1..n /\ \A i \in 1..n : more[i] \in S
  BY LenProperties, ElementOfSeq
<1>2. PICK merged :
        /\ merged = [k \in 0..n |-> IF k = 0 THEN list ELSE Place(merged[k - 1], more[k])]
        /\ MergeLists(list, more) = merged[n]
  BY MergeUnfolds
<1>3. \A i, j \in 1..n : more[i].doc_id = more[j].doc_id => i = j
  BY DEF Distinct
<1>4. \A p \in ToSet(list), i \in 1..n : p.doc_id # more[i].doc_id
  BY <1>1 DEF ToSet
<1> HIDE DEF n
<1> DEFINE T == {k \in Nat : k <= n =>
                   merged[k] \in Seq(S) /\ Distinct(merged[k]) /\ ToSet(merged[k]) = Merged(k)}
<1>5. 0 \in T
  <2>1. 0 \in 0..n
    BY <1>1
  <2>2. merged[0] = list
    BY <1>2, <2>1
  <2>3. Merged(0) = ToSet(list)
    OBVIOUS
  <2>4. QED
    BY <2>2, <2>3
<1>6. ASSUME NEW k \in T PROVE k + 1 \in T
  <2> SUFFICES ASSUME k + 1 <= n
               PROVE  /\ merged[k + 1] \in Seq(S) /\ Distinct(merged[k + 1])
                      /\ ToSet(merged[k + 1]) = Merged(k + 1)
    OBVIOUS
  <2>1. /\ k \in Nat /\ k + 1 \in 0..n /\ k + 1 # 0 /\ (k + 1) - 1 = k /\ k + 1 \in 1..n
        /\ more[k + 1] \in S
    <3>1. k \in Nat /\ k + 1 \in 0..n /\ k + 1 # 0 /\ (k + 1) - 1 = k /\ k + 1 \in 1..n
      BY <1>1
    <3>2. QED
      BY <1>1, <3>1
  <2>2. merged[k] \in Seq(S) /\ Distinct(merged[k]) /\ ToSet(merged[k]) = Merged(k)
    <3>1. k <= n
      BY <1>1, <2>1
    <3> HIDE DEF Merged
    <3>2. QED
      BY <3>1
  <2>3. merged[k + 1] = Place(merged[k], more[k + 1])
    BY <1>2, <2>1
  <2>4. \A i \in 1..(k + 1) : i \in 1..k \/ i = k + 1
    BY <2>1
  <2>5. \A i \in 1..k : i \in 1..(k + 1)
    BY <2>1
  <2>6. \A q \in ToSet(merged[k]) : q.doc_id # more[k + 1].doc_id
    <3>1. \A i \in 1..k : i \in 1..n /\ i # k + 1
      BY <1>1, <2>1
    <3>2. QED
      BY <1>3, <1>4, <2>1, <2>2, <3>1
  <2>7. merged[k + 1] = Append(merged[k], more[k + 1])
    BY <2>3, <2>6 DEF Place, ToSet
  <2>8. Merged(k + 1) = Merged(k) \cup {more[k + 1]}
    BY <2>1, <2>4, <2>5
  <2> DEFINE l == merged[k]
             p == more[k + 1]
  <2> HIDE DEF l, p
  <2>9. /\ Append(l, p) \in Seq(S) /\ ToSet(Append(l, p)) = ToSet(l) \cup {p}
        /\ Distinct(Append(l, p))
    <3>1. /\ l \in Seq(S) /\ p \in S /\ Distinct(l)
          /\ \A q \in ToSet(l) : q.doc_id # p.doc_id
      BY <2>1, <2>2, <2>6 DEF l, p
    <3>2. QED
      BY <3>1, AppendIs
  <2> HIDE DEF Merged
  <2>10. QED
    BY <2>2, <2>7, <2>8, <2>9 DEF l, p
<1>7. n \in T
  <2> HIDE DEF T
  <2>1. T = Nat
    <3>1. T \subseteq Nat
      BY DEF T
    <3>2. QED
      BY <1>5, <1>6, <3>1, SetInduction
  <2>2. QED
    BY <1>1, <2>1
<1>8. ToSet(more) = {more[i] : i \in 1..n}
  BY <1>1 DEF ToSet
<1>9. QED
  BY <1>1, <1>2, <1>7, <1>8

----------------------------------------------------------------------------
(* Sums.                                                                     *)

\* How SumFunction goes through the subsets of the domain of f: Sums(f)[s] is
\* the sum over s.
SumStep(f, sums, s) ==
  IF s = {} THEN 0 ELSE f[CHOOSE x \in s : TRUE] + sums[s \ {CHOOSE x \in s : TRUE}]
Sums(f) == CHOOSE sums : sums = [s \in SUBSET (DOMAIN f) |-> SumStep(f, sums, s)]

(* The sum of a function is that over its whole domain.                      *)
LEMMA SumIs == \A f : SumFunction(f) = Sums(f)[DOMAIN f]
BY DEF SumFunction, SumFunctionOnSet, FoldFunctionOnSet, MapThenFoldSet, Sums, SumStep

(* The sums over subsets are what SumStep says, and numbers.                 *)
LEMMA SumsAre ==
  ASSUME NEW D, IsFiniteSet(D), NEW f \in [D -> Nat]
  PROVE  /\ Sums(f) \in [SUBSET D -> Nat]
         /\ \A s \in SUBSET D : Sums(f)[s] = SumStep(f, Sums(f), s)
<1> DEFINE C(n) == {s \in SUBSET D : Cardinality(s) <= n}
<1>1. \A s \in SUBSET D : IsFiniteSet(s) /\ Cardinality(s) \in Nat
  BY FS_Subset, FS_CardinalityType
<1>2. ASSUME NEW s \in SUBSET D, s # {}
      PROVE  LET x == CHOOSE x \in s : TRUE
             IN /\ x \in s /\ x \in D /\ f[x] \in Nat /\ s \ {x} \in SUBSET D
                /\ Cardinality(s \ {x}) = Cardinality(s) - 1 /\ Cardinality(s) # 0
  <2> DEFINE x == CHOOSE x \in s : TRUE
  <2>1. x \in s
    BY <1>2
  <2> HIDE DEF x
  <2>2. Cardinality(s \ {x}) = Cardinality(s) - 1
    BY <1>1, <2>1, FS_RemoveElement
  <2>3. Cardinality(s) # 0
    BY <1>1, <1>2, FS_EmptySet
  <2>4. x \in D /\ f[x] \in Nat /\ s \ {x} \in SUBSET D
    BY <2>1
  <2>5. QED
    BY <2>1, <2>2, <2>3, <2>4 DEF x
<1> DEFINE T == {n \in Nat : \E g \in [C(n) -> Nat] : \A s \in C(n) : g[s] = SumStep(f, g, s)}
<1>3. 0 \in T
  <2> DEFINE g == [s \in C(0) |-> 0]
  <2>1. \A s \in C(0) : s = {}
    BY <1>1, FS_EmptySet
  <2>2. g \in [C(0) -> Nat] /\ \A s \in C(0) : g[s] = SumStep(f, g, s)
    BY <2>1 DEF SumStep
  <2> HIDE DEF g
  <2>3. QED
    BY <2>2
<1>4. ASSUME NEW n \in T PROVE n + 1 \in T
  <2>1. PICK g \in [C(n) -> Nat] : \A s \in C(n) : g[s] = SumStep(f, g, s)
    OBVIOUS
  <2>2. n \in Nat /\ n + 1 \in Nat
    OBVIOUS
  <2>3. ASSUME NEW s \in C(n + 1), s # {}
        PROVE  LET x == CHOOSE x \in s : TRUE
               IN f[x] \in Nat /\ s \ {x} \in C(n) /\ s \ {x} \in C(n + 1)
    <3> DEFINE x == CHOOSE x \in s : TRUE
    <3>1. /\ f[x] \in Nat /\ s \ {x} \in SUBSET D
          /\ Cardinality(s \ {x}) = Cardinality(s) - 1 /\ Cardinality(s) # 0
      BY <1>2, <2>3
    <3>2. Cardinality(s) \in Nat /\ Cardinality(s) <= n + 1
      BY <1>1
    <3> HIDE DEF x
    <3>3. QED
      BY <2>2, <3>1, <3>2 DEF x
  <2> DEFINE h == [s \in C(n + 1) |-> SumStep(f, g, s)]
  <2>4. h \in [C(n + 1) -> Nat]
    <3> SUFFICES ASSUME NEW s \in C(n + 1) PROVE SumStep(f, g, s) \in Nat
      OBVIOUS
    <3>1. CASE s = {}
      BY <3>1 DEF SumStep
    <3>2. CASE s # {}
      <4> DEFINE x == CHOOSE x \in s : TRUE
      <4>1. f[x] \in Nat /\ g[s \ {x}] \in Nat
        BY <2>3, <3>2
      <4>2. SumStep(f, g, s) = f[x] + g[s \ {x}]
        BY <3>2 DEF SumStep
      <4> HIDE DEF x
      <4>3. QED
        BY <4>1, <4>2
    <3>3. QED
      BY <3>1, <3>2
  <2>5. \A s \in C(n) : s \in C(n + 1) /\ h[s] = g[s]
    BY <1>1, <2>1, <2>2
  <2>6. \A s \in C(n + 1) : h[s] = SumStep(f, h, s)
    <3> SUFFICES ASSUME NEW s \in C(n + 1) PROVE SumStep(f, g, s) = SumStep(f, h, s)
      OBVIOUS
    <3>1. CASE s = {}
      BY <3>1 DEF SumStep
    <3>2. CASE s # {}
      <4> DEFINE x == CHOOSE x \in s : TRUE
      <4>1. h[s \ {x}] = g[s \ {x}]
        BY <2>3, <2>5, <3>2
      <4> HIDE DEF h
      <4>2. QED
        BY <3>2, <4>1 DEF SumStep
    <3>3. QED
      BY <3>1, <3>2
  <2> HIDE DEF h
  <2>7. QED
    BY <2>2, <2>4, <2>6
<1>5. Cardinality(D) \in T
  <2>1. T \subseteq Nat
    OBVIOUS
  <2> HIDE DEF T
  <2>2. T = Nat
    BY <1>3, <1>4, <2>1, SetInduction
  <2>3. QED
    BY <1>1, <2>2
<1>6. C(Cardinality(D)) = SUBSET D
  BY <1>1, FS_Subset
<1>7. PICK g \in [SUBSET D -> Nat] : \A s \in SUBSET D : g[s] = SumStep(f, g, s)
  BY <1>5, <1>6
<1>8. g = [s \in SUBSET D |-> SumStep(f, g, s)]
  BY <1>7
<1>9. DOMAIN f = D
  OBVIOUS
<1>10. Sums(f) = [s \in SUBSET D |-> SumStep(f, Sums(f), s)]
  BY <1>8, <1>9 DEF Sums
<1>11. \A s \in SUBSET D : Sums(f)[s] = SumStep(f, Sums(f), s)
  BY <1>10
<1> DEFINE U == {n \in Nat : \A s \in C(n) : Sums(f)[s] \in Nat}
<1>12. 0 \in U
  <2>1. \A s \in C(0) : s = {}
    BY <1>1, FS_EmptySet
  <2>2. QED
    BY <1>11, <2>1 DEF SumStep
<1>13. ASSUME NEW n \in U PROVE n + 1 \in U
  <2> SUFFICES ASSUME NEW s \in C(n + 1) PROVE Sums(f)[s] \in Nat
    OBVIOUS
  <2>1. CASE s = {}
    BY <1>11, <2>1 DEF SumStep
  <2>2. CASE s # {}
    <3> DEFINE x == CHOOSE x \in s : TRUE
    <3>1. /\ f[x] \in Nat /\ s \ {x} \in SUBSET D
          /\ Cardinality(s \ {x}) = Cardinality(s) - 1
      BY <1>2, <2>2
    <3>2. Sums(f)[s] = f[x] + Sums(f)[s \ {x}]
      BY <1>11, <2>2 DEF SumStep
    <3>3. Cardinality(s) \in Nat /\ Cardinality(s) <= n + 1 /\ n \in Nat
      BY <1>1
    <3> HIDE DEF x
    <3>4. s \ {x} \in C(n)
      BY <3>1, <3>3
    <3>5. Sums(f)[s \ {x}] \in Nat
      BY <3>4
    <3>6. QED
      BY <3>1, <3>2, <3>5
  <2>3. QED
    BY <2>1, <2>2
<1>14. Cardinality(D) \in U
  <2>1. U \subseteq Nat
    OBVIOUS
  <2> HIDE DEF U
  <2>2. U = Nat
    BY <1>12, <1>13, <2>1, SetInduction
  <2>3. QED
    BY <1>1, <2>2
<1>15. \A s \in SUBSET D : Sums(f)[s] \in Nat
  BY <1>6, <1>14
<1>16. Sums(f) \in [SUBSET D -> Nat]
  BY <1>10, <1>15
<1>17. QED
  BY <1>11, <1>16

(* A sum does not depend on the order its elements are taken in.             *)
LEMMA SumsTakeAny ==
  ASSUME NEW D, IsFiniteSet(D), NEW f \in [D -> Nat], NEW s \in SUBSET D, NEW x \in s
  PROVE  Sums(f)[s] = f[x] + Sums(f)[s \ {x}]
<1>1. /\ Sums(f) \in [SUBSET D -> Nat]
      /\ \A r \in SUBSET D : Sums(f)[r] = SumStep(f, Sums(f), r)
  BY SumsAre
<1>2. \A r \in SUBSET D : IsFiniteSet(r) /\ Cardinality(r) \in Nat
  BY FS_Subset, FS_CardinalityType
<1> DEFINE G == Sums(f)
           T == {n \in Nat : \A r \in SUBSET D : Cardinality(r) <= n =>
                               \A y \in r : G[r] = f[y] + G[r \ {y}]}
<1> HIDE DEF G
<1>3. 0 \in T
  BY <1>2, FS_EmptySet
<1>4. ASSUME NEW n \in T PROVE n + 1 \in T
  <2> SUFFICES ASSUME NEW r \in SUBSET D, Cardinality(r) <= n + 1, NEW y \in r
               PROVE  G[r] = f[y] + G[r \ {y}]
    OBVIOUS
  <2> DEFINE c == CHOOSE z \in r : TRUE
  <2>1. c \in r /\ G[r] = f[c] + G[r \ {c}]
    BY <1>1 DEF SumStep, G
  <2> HIDE DEF c
  <2>2. CASE c = y
    BY <2>1, <2>2
  <2>3. CASE c # y
    <3>1. /\ Cardinality(r \ {c}) = Cardinality(r) - 1
          /\ Cardinality(r \ {y}) = Cardinality(r) - 1
      BY <1>2, <2>1, FS_RemoveElement
    <3>2. Cardinality(r \ {c}) <= n /\ Cardinality(r \ {y}) <= n
      BY <1>2, <3>1
    <3>3. /\ r \ {c} \in SUBSET D /\ y \in r \ {c} /\ r \ {y} \in SUBSET D /\ c \in r \ {y}
          /\ (r \ {c}) \ {y} = (r \ {y}) \ {c} /\ (r \ {c}) \ {y} \in SUBSET D
      BY <2>1, <2>3
    <3>4. /\ G[r \ {c}] = f[y] + G[(r \ {c}) \ {y}]
          /\ G[r \ {y}] = f[c] + G[(r \ {c}) \ {y}]
      BY <3>2, <3>3
    <3>5. f[c] \in Nat /\ f[y] \in Nat /\ G[(r \ {c}) \ {y}] \in Nat
      BY <1>1, <2>1, <3>3 DEF G
    <3>6. QED
      BY <2>1, <3>4, <3>5
  <2>4. QED
    BY <2>2, <2>3
<1>5. Cardinality(s) \in T
  <2>1. T \subseteq Nat
    OBVIOUS
  <2> HIDE DEF T
  <2>2. T = Nat
    BY <1>3, <1>4, <2>1, SetInduction
  <2>3. QED
    BY <1>2, <2>2
<1>6. QED
  BY <1>2, <1>5 DEF G

(* The sum over a set depends on the values there only.                      *)
LEMMA SumsAgree ==
  ASSUME NEW D, IsFiniteSet(D), NEW f \in [D -> Nat],
         NEW E, IsFiniteSet(E), NEW g \in [E -> Nat],
         NEW s \in SUBSET D, s \subseteq E, \A x \in s : f[x] = g[x]
  PROVE  Sums(f)[s] = Sums(g)[s]
<1>1. /\ \A r \in SUBSET D : Sums(f)[r] = SumStep(f, Sums(f), r)
      /\ \A r \in SUBSET E : Sums(g)[r] = SumStep(g, Sums(g), r)
  BY SumsAre
<1>2. \A r \in SUBSET s : IsFiniteSet(r) /\ Cardinality(r) \in Nat
  BY FS_Subset, FS_CardinalityType
<1> DEFINE T == {n \in Nat : \A r \in SUBSET s : Cardinality(r) <= n => Sums(f)[r] = Sums(g)[r]}
<1>3. 0 \in T
  <2>1. \A r \in SUBSET s : Cardinality(r) <= 0 => r = {}
    BY <1>2, FS_EmptySet
  <2>2. Sums(f)[{}] = 0 /\ Sums(g)[{}] = 0
    BY <1>1 DEF SumStep
  <2>3. QED
    BY <2>1, <2>2
<1>4. ASSUME NEW n \in T PROVE n + 1 \in T
  <2> SUFFICES ASSUME NEW r \in SUBSET s, Cardinality(r) <= n + 1
               PROVE  Sums(f)[r] = Sums(g)[r]
    OBVIOUS
  <2>1. CASE r = {}
    BY <1>1, <2>1 DEF SumStep
  <2>2. CASE r # {}
    <3> DEFINE c == CHOOSE z \in r : TRUE
    <3>1. /\ c \in r /\ Sums(f)[r] = f[c] + Sums(f)[r \ {c}]
          /\ Sums(g)[r] = g[c] + Sums(g)[r \ {c}]
      BY <1>1, <2>2 DEF SumStep
    <3> HIDE DEF c
    <3>2. Cardinality(r \ {c}) = Cardinality(r) - 1
      BY <1>2, <3>1, FS_RemoveElement
    <3>3. r \ {c} \in SUBSET s /\ Cardinality(r \ {c}) <= n
      BY <1>2, <3>2
    <3>4. Sums(f)[r \ {c}] = Sums(g)[r \ {c}]
      BY <3>3
    <3>5. f[c] = g[c]
      BY <3>1
    <3>6. QED
      BY <3>1, <3>4, <3>5
  <2>3. QED
    BY <2>1, <2>2
<1>5. Cardinality(s) \in T
  <2>1. T \subseteq Nat
    OBVIOUS
  <2> HIDE DEF T
  <2>2. T = Nat
    BY <1>3, <1>4, <2>1, SetInduction
  <2>3. QED
    BY <1>2, <2>2
<1>6. QED
  BY <1>2, <1>5

(* The sum of a function is a number, and grows by the value of an argument  *)
(* that is added.                                                            *)
LEMMA SumFunctionIs ==
  ASSUME NEW D, IsFiniteSet(D), NEW f \in [D -> Nat]
  PROVE  /\ SumFunction(f) \in Nat
         /\ D = {} => SumFunction(f) = 0
         /\ \A x \in D : SumFunction(f) = f[x] + SumFunction(Restrict(f, D \ {x}))
<1>1. /\ Sums(f) \in [SUBSET D -> Nat]
      /\ \A s \in SUBSET D : Sums(f)[s] = SumStep(f, Sums(f), s)
  BY SumsAre
<1>2. DOMAIN f = D /\ SumFunction(f) = Sums(f)[D]
  BY SumIs
<1>3. D = {} => SumFunction(f) = 0
  BY <1>1, <1>2 DEF SumStep
<1>4. ASSUME NEW x \in D
      PROVE  SumFunction(f) = f[x] + SumFunction(Restrict(f, D \ {x}))
  <2> DEFINE g == Restrict(f, D \ {x})
  <2>1. /\ g \in [D \ {x} -> Nat] /\ DOMAIN g = D \ {x} /\ IsFiniteSet(D \ {x})
        /\ \A y \in D \ {x} : f[y] = g[y]
    BY FS_RemoveElement DEF Restrict
  <2> HIDE DEF g
  <2>2. Sums(f)[D \ {x}] = Sums(g)[D \ {x}]
    <3>1. D \ {x} \in SUBSET D /\ D \ {x} \subseteq D \ {x}
      OBVIOUS
    <3>2. QED
      BY <2>1, <3>1, SumsAgree
  <2>3. SumFunction(g) = Sums(g)[D \ {x}]
    BY <2>1, SumIs
  <2>4. Sums(f)[D] = f[x] + Sums(f)[D \ {x}]
    BY SumsTakeAny
  <2>5. QED
    BY <1>2, <2>2, <2>3, <2>4 DEF g
<1>5. QED
  BY <1>1, <1>2, <1>3, <1>4

----------------------------------------------------------------------------
(* Postings and documents.                                                   *)

(* A document's terms are terms, and a posting names its document.           *)
LEMMA DocsHave ==
  /\ \A doc \in Docs : ToSet(doc) \subseteq Terms /\ Len(doc) \in Nat
  /\ \A id, doc, t : Posting(id, doc, t).doc_id = id
<1>1. ASSUME NEW doc \in Docs PROVE ToSet(doc) \subseteq Terms /\ Len(doc) \in Nat
  <2>1. doc \in Seq(Terms)
    BY DocsAssumption
  <2>2. /\ Len(doc) \in Nat /\ DOMAIN doc = 1..Len(doc)
        /\ \A i \in 1..Len(doc) : doc[i] \in Terms
    BY <2>1, LenProperties, ElementOfSeq
  <2>3. QED
    BY <2>2 DEF ToSet
<1>2. QED
  BY <1>1 DEF Posting

(* The list of a term, empty if there is none.                               *)
LEMMA GetIs ==
  ASSUME NEW P, P \in [DOMAIN P -> Seq(AllPostings)], NEW t
  PROVE  Get(P, t) \in Seq(AllPostings) /\ (t \notin DOMAIN P => Get(P, t) = <<>>)
BY EmptySeq DEF Get

(* The empty sequence is the one without members.                            *)
LEMMA EmptyIs ==
  ASSUME NEW S, NEW list \in Seq(S)
  PROVE  list = <<>> <=> ToSet(list) = {}
<1>1. Len(list) \in Nat /\ DOMAIN list = 1..Len(list)
  BY LenProperties
<1>2. ASSUME list # <<>> PROVE ToSet(list) # {}
  <2>1. Len(list) # 0
    BY <1>2, EmptySeq
  <2>2. list[1] \in ToSet(list)
    BY <1>1, <2>1 DEF ToSet
  <2>3. QED
    BY <2>2
<1>3. ToSet(<<>>) = {}
  BY DEF ToSet
<1>4. QED
  BY <1>2, <1>3

(* Without the postings of some documents the index is that of the others.   *)
LEMMA DropMatches ==
  ASSUME NEW P, NEW M, Matches(P, M), NEW ids
  PROVE  Matches(DropPostings(P, ids), Restrict(M, DOMAIN M \ ids))
<1> DEFINE N == Restrict(M, DOMAIN M \ ids)
           Q == DropPostings(P, ids)
<1>1. DocumentsOK(M) /\ DOMAIN P \subseteq Terms /\ P \in [DOMAIN P -> Seq(AllPostings)]
  BY DEF Matches
<1>2. /\ DOMAIN N = DOMAIN M \ ids /\ N \in [DOMAIN N -> Docs]
      /\ \A id \in DOMAIN N : id \in DOMAIN M /\ N[id] = M[id]
  BY <1>1 DEF Restrict, DocumentsOK
<1> HIDE DEF N
<1>3. DocumentsOK(N)
  <2>1. IsFiniteSet(DOMAIN N)
    BY <1>1, <1>2, FS_Subset DEF DocumentsOK
  <2>2. QED
    BY <1>1, <1>2, <2>1 DEF DocumentsOK
<1>4. \A t \in DOMAIN P : P[t] \in Seq(AllPostings) /\ Without(P[t], ids) \in Seq(AllPostings)
  BY <1>1, WithoutIs
<1>5. /\ DOMAIN Q = {t \in DOMAIN P : Without(P[t], ids) # <<>>}
      /\ \A t \in DOMAIN Q : Q[t] = Without(P[t], ids) /\ Q[t] # <<>>
      /\ Q \in [DOMAIN Q -> Seq(AllPostings)]
  BY <1>4 DEF DropPostings
<1> HIDE DEF Q
<1>6. ASSUME NEW t \in Terms PROVE ListMatches(Get(Q, t), N, t)
  <2> DEFINE list == Get(P, t)
  <2>1. ListMatches(list, M, t) /\ list \in Seq(AllPostings)
    BY DEF Matches, ListMatches
  <2>2. Get(Q, t) = Without(list, ids)
    <3>1. CASE t \in DOMAIN P
      <4>1. list = P[t]
        BY <3>1 DEF Get
      <4>2. QED
        BY <1>5, <3>1, <4>1 DEF Get
    <3>2. CASE t \notin DOMAIN P
      <4>1. list = <<>> /\ Get(Q, t) = <<>>
        BY <1>5, <3>2 DEF Get
      <4>2. ToSet(list) = {}
        BY <4>1 DEF ToSet
      <4>3. /\ Without(list, ids) \in Seq(AllPostings)
            /\ ToSet(Without(list, ids)) = {q \in ToSet(list) : q.doc_id \notin ids}
        BY <2>1, WithoutIs
      <4> HIDE DEF list
      <4>4. Without(list, ids) = <<>>
        BY <4>2, <4>3, EmptyIs
      <4>5. QED
        BY <4>1, <4>4
    <3>3. QED
      BY <3>1, <3>2
  <2>3. /\ Without(list, ids) \in Seq(AllPostings) /\ Distinct(Without(list, ids))
        /\ ToSet(Without(list, ids)) = {p \in ToSet(list) : p.doc_id \notin ids}
    BY <2>1, WithoutIs DEF ListMatches
  <2>4. HoldingIn(N, t) = HoldingIn(M, t) \ ids
    BY <1>2 DEF HoldingIn
  <2>5. \A id \in HoldingIn(N, t) : Posting(id, N[id], t) = Posting(id, M[id], t)
    BY <1>2 DEF HoldingIn
  <2>6. {p \in ToSet(list) : p.doc_id \notin ids} = {Posting(id, N[id], t) : id \in HoldingIn(N, t)}
    <3>1. ToSet(list) = {Posting(id, M[id], t) : id \in HoldingIn(M, t)}
      BY <2>1 DEF ListMatches
    <3> HIDE DEF list
    <3>2. QED
      BY <2>4, <2>5, <3>1, DocsHave
  <2>7. QED
    BY <2>2, <2>3, <2>6 DEF ListMatches
<1>7. QED
  BY <1>1, <1>3, <1>5, <1>6 DEF Matches, N, Q

(* The postings of a document that was not there join those of the others.   *)
LEMMA AddMatches ==
  ASSUME NEW P, NEW M, Matches(P, M), NEW id \in Ids, id \notin DOMAIN M, NEW doc \in Docs
  PROVE  Matches([t \in DOMAIN P \cup ToSet(doc) |->
                    IF t \in ToSet(doc) THEN Append(Get(P, t), Posting(id, doc, t)) ELSE P[t]],
                 Put(M, id, doc))
<1> DEFINE N == Put(M, id, doc)
           Q == [t \in DOMAIN P \cup ToSet(doc) |->
                    IF t \in ToSet(doc) THEN Append(Get(P, t), Posting(id, doc, t)) ELSE P[t]]
<1>1. DocumentsOK(M) /\ DOMAIN P \subseteq Terms /\ P \in [DOMAIN P -> Seq(AllPostings)]
  BY DEF Matches
<1>2. /\ DOMAIN N = DOMAIN M \cup {id} /\ N \in [DOMAIN N -> Docs] /\ N[id] = doc
      /\ \A k \in DOMAIN M : N[k] = M[k]
  BY <1>1 DEF Put, DocumentsOK
<1> HIDE DEF N
<1>3. DocumentsOK(N)
  <2>1. IsFiniteSet(DOMAIN N)
    BY <1>1, <1>2, FS_AddElement DEF DocumentsOK
  <2>2. QED
    BY <1>1, <1>2, <2>1 DEF DocumentsOK
<1>4. ASSUME NEW t \in Terms
      PROVE  /\ Get(P, t) \in Seq(AllPostings) /\ Posting(id, doc, t) \in AllPostings
             /\ Append(Get(P, t), Posting(id, doc, t)) \in Seq(AllPostings)
  <2>1. Get(P, t) \in Seq(AllPostings)
    BY <1>1, GetIs
  <2>2. Posting(id, doc, t) \in AllPostings
    BY DEF AllPostings
  <2>3. QED
    BY <2>1, <2>2, AppendProperties
<1>5. /\ DOMAIN Q = DOMAIN P \cup ToSet(doc) /\ DOMAIN Q \subseteq Terms
      /\ Q \in [DOMAIN Q -> Seq(AllPostings)]
  BY <1>1, <1>4, DocsHave
<1>6. ASSUME NEW t \in Terms PROVE ListMatches(Get(Q, t), N, t)
  <2> DEFINE list == Get(P, t)
             p == Posting(id, doc, t)
  <2>1. ListMatches(list, M, t)
    BY DEF Matches
  <2>2. ToSet(list) = {Posting(k, M[k], t) : k \in HoldingIn(M, t)}
    BY <2>1 DEF ListMatches
  <2>3. {Posting(k, N[k], t) : k \in HoldingIn(M, t)} = ToSet(list)
    BY <1>2, <2>2 DEF HoldingIn
  <2>4. CASE t \in ToSet(doc)
    <3>1. Get(Q, t) = Append(list, p)
      BY <1>5, <2>4 DEF Get
    <3>2. \A q \in ToSet(list) : q.doc_id # p.doc_id
      BY <2>2, DocsHave DEF HoldingIn
    <3>3. /\ Append(list, p) \in Seq(AllPostings) /\ Distinct(Append(list, p))
          /\ ToSet(Append(list, p)) = ToSet(list) \cup {p}
      BY <1>4, <2>1, <3>2, AppendIs DEF ListMatches
    <3>4. HoldingIn(N, t) = HoldingIn(M, t) \cup {id} /\ N[id] = doc
      BY <1>2, <2>4 DEF HoldingIn
    <3> HIDE DEF list
    <3>5. {Posting(k, N[k], t) : k \in HoldingIn(N, t)} = ToSet(list) \cup {p}
      BY <2>3, <3>4
    <3>6. QED
      BY <3>1, <3>3, <3>5 DEF ListMatches
  <2>5. CASE t \notin ToSet(doc)
    <3>1. Get(Q, t) = list
      BY <1>5, <2>5 DEF Get
    <3>2. HoldingIn(N, t) = HoldingIn(M, t)
      BY <1>2, <2>5 DEF HoldingIn
    <3>3. QED
      BY <2>1, <2>3, <3>1, <3>2 DEF ListMatches
  <2>6. QED
    BY <2>4, <2>5
<1>7. ASSUME NEW t \in DOMAIN Q PROVE Q[t] # <<>>
  <2>1. CASE t \in ToSet(doc)
    <3>1. t \in Terms /\ Q[t] = Append(Get(P, t), Posting(id, doc, t))
      BY <1>5, <2>1
    <3>2. QED
      BY <1>4, <3>1, AppendProperties
  <2>2. CASE t \notin ToSet(doc)
    BY <2>2 DEF Matches
  <2>3. QED
    BY <2>1, <2>2
<1>8. QED
  BY <1>3, <1>5, <1>6, <1>7 DEF Matches, N

(* Merging adds the postings of documents the index does not have.           *)
LEMMA MergeMatches ==
  ASSUME NEW P, NEW M, Matches(P, M), NEW P2, NEW M2, Matches(P2, M2),
         DOMAIN M \cap DOMAIN M2 = {}, NEW N, DocumentsOK(N),
         DOMAIN N = DOMAIN M \cup DOMAIN M2,
         \A id \in DOMAIN M : N[id] = M[id], \A id \in DOMAIN M2 : N[id] = M2[id]
  PROVE  Matches([t \in DOMAIN P \cup DOMAIN P2 |-> MergeLists(Get(P, t), Get(P2, t))], N)
<1> DEFINE Q == [t \in DOMAIN P \cup DOMAIN P2 |-> MergeLists(Get(P, t), Get(P2, t))]
<1>1. /\ DOMAIN P \subseteq Terms /\ P \in [DOMAIN P -> Seq(AllPostings)]
      /\ DOMAIN P2 \subseteq Terms /\ P2 \in [DOMAIN P2 -> Seq(AllPostings)]
  BY DEF Matches
<1>2. ASSUME NEW t \in Terms
      PROVE  ListMatches(MergeLists(Get(P, t), Get(P2, t)), N, t)
  <2> DEFINE list == Get(P, t)
             more == Get(P2, t)
  <2>1. ListMatches(list, M, t) /\ ListMatches(more, M2, t)
    BY DEF Matches
  <2> HIDE DEF list, more
  <2>2. /\ list \in Seq(AllPostings) /\ more \in Seq(AllPostings)
        /\ Distinct(list) /\ Distinct(more)
        /\ ToSet(list) = {Posting(id, M[id], t) : id \in HoldingIn(M, t)}
        /\ ToSet(more) = {Posting(id, M2[id], t) : id \in HoldingIn(M2, t)}
    BY <2>1 DEF ListMatches
  <2>3. \A p \in ToSet(list), q \in ToSet(more) : p.doc_id # q.doc_id
    BY <2>2, DocsHave DEF HoldingIn
  <2>4. /\ MergeLists(list, more) \in Seq(AllPostings) /\ Distinct(MergeLists(list, more))
        /\ ToSet(MergeLists(list, more)) = ToSet(list) \cup ToSet(more)
    BY <2>2, <2>3, MergeIs
  <2>5. HoldingIn(N, t) = HoldingIn(M, t) \cup HoldingIn(M2, t)
    BY DEF HoldingIn
  <2>6. /\ \A id \in HoldingIn(M, t) : N[id] = M[id]
        /\ \A id \in HoldingIn(M2, t) : N[id] = M2[id]
    BY DEF HoldingIn
  <2>7. {Posting(id, N[id], t) : id \in HoldingIn(N, t)} = ToSet(list) \cup ToSet(more)
    BY <2>2, <2>5, <2>6
  <2>8. QED
    BY <2>4, <2>7 DEF ListMatches, list, more
<1>3. /\ DOMAIN Q = DOMAIN P \cup DOMAIN P2 /\ DOMAIN Q \subseteq Terms
      /\ \A t \in DOMAIN Q : Q[t] = MergeLists(Get(P, t), Get(P2, t))
      /\ Q \in [DOMAIN Q -> Seq(AllPostings)]
  BY <1>1, <1>2 DEF ListMatches
<1> HIDE DEF Q
<1>4. ASSUME NEW t \in Terms, t \notin DOMAIN Q
      PROVE  ListMatches(<<>>, N, t)
  <2>1. Get(P, t) = <<>> /\ Get(P2, t) = <<>>
    BY <1>3, <1>4 DEF Get
  <2>2. ListMatches(<<>>, M, t) /\ ListMatches(<<>>, M2, t)
    BY <2>1 DEF Matches
  <2>3. HoldingIn(M, t) = {} /\ HoldingIn(M2, t) = {}
    <3>1. ToSet(<<>>) = {}
      BY DEF ToSet
    <3>2. /\ {Posting(id, M[id], t) : id \in HoldingIn(M, t)} = {}
          /\ {Posting(id, M2[id], t) : id \in HoldingIn(M2, t)} = {}
      BY <2>2, <3>1 DEF ListMatches
    <3>3. QED
      BY <3>2
  <2>4. HoldingIn(N, t) = {}
    BY <2>3 DEF HoldingIn
  <2>5. {Posting(id, N[id], t) : id \in HoldingIn(N, t)} = ToSet(<<>>)
    BY <2>4 DEF ToSet
  <2>6. QED
    BY <2>2, <2>5 DEF ListMatches
<1>5. ASSUME NEW t \in Terms PROVE ListMatches(Get(Q, t), N, t)
  <2>1. CASE t \in DOMAIN Q
    BY <1>2, <1>3, <2>1 DEF Get
  <2>2. CASE t \notin DOMAIN Q
    <3>1. Get(Q, t) = <<>>
      BY <2>2 DEF Get
    <3>2. QED
      BY <1>4, <2>2, <3>1
  <2>3. QED
    BY <2>1, <2>2
<1>6. ASSUME NEW t \in DOMAIN Q PROVE Q[t] # <<>>
  <2>1. t \in Terms /\ Q[t] = MergeLists(Get(P, t), Get(P2, t))
    BY <1>3
  <2>2. /\ ListMatches(Get(P, t), M, t) /\ ListMatches(Get(P2, t), M2, t)
        /\ ListMatches(Q[t], N, t)
    BY <1>2, <2>1 DEF Matches
  <2>3. Get(P, t) # <<>> \/ Get(P2, t) # <<>>
    BY <1>3 DEF Get, Matches
  <2>4. HoldingIn(M, t) # {} \/ HoldingIn(M2, t) # {}
    <3>1. ToSet(Get(P, t)) # {} \/ ToSet(Get(P2, t)) # {}
      BY <2>2, <2>3, EmptyIs DEF ListMatches
    <3>2. QED
      BY <2>2, <3>1 DEF ListMatches
  <2>5. HoldingIn(N, t) # {}
    BY <2>4 DEF HoldingIn
  <2>6. ToSet(Q[t]) # {}
    BY <2>2, <2>5 DEF ListMatches
  <2>7. QED
    BY <2>2, <2>6, EmptyIs DEF ListMatches
<1>7. QED
  BY <1>3, <1>5, <1>6 DEF Matches, Q

----------------------------------------------------------------------------
(* Metadata and documents.                                                   *)

\* The lengths of the documents, as the metadata keep them.
Lengths(documents) == [id \in DOMAIN documents |-> Len(documents[id])]

(* The lengths are numbers; their sum and the number of documents too.       *)
LEMMA LengthsAre ==
  ASSUME NEW M, DocumentsOK(M)
  PROVE  /\ Lengths(M) \in [DOMAIN M -> Nat] /\ IsFiniteSet(DOMAIN M)
         /\ Cardinality(DOMAIN M) \in Nat /\ SumFunction(Lengths(M)) \in Nat
<1>1. Lengths(M) \in [DOMAIN M -> Nat] /\ IsFiniteSet(DOMAIN M)
  BY DocsHave DEF Lengths, DocumentsOK
<1> DEFINE f == Lengths(M)
           D == DOMAIN M
<1> HIDE DEF f, D
<1>2. f \in [D -> Nat] /\ IsFiniteSet(D)
  BY <1>1 DEF f, D
<1>3. SumFunction(f) \in Nat /\ Cardinality(D) \in Nat
  BY <1>2, SumFunctionIs, FS_CardinalityType
<1>4. QED
  BY <1>1, <1>3 DEF f, D

(* The metadata without a document.                                          *)
LEMMA LengthsWithout ==
  ASSUME NEW M, DocumentsOK(M), NEW id \in DOMAIN M
  PROVE  LET N == Restrict(M, DOMAIN M \ {id})
         IN /\ DocumentsOK(N) /\ DOMAIN N = DOMAIN M \ {id}
            /\ Lengths(N) = Restrict(Lengths(M), DOMAIN M \ {id})
            /\ Cardinality(DOMAIN N) = Cardinality(DOMAIN M) - 1
            /\ SumFunction(Lengths(N)) = SumFunction(Lengths(M)) - Len(M[id])
<1> DEFINE D == DOMAIN M
           N == Restrict(M, D \ {id})
           f == Lengths(M)
<1>1. f \in [D -> Nat] /\ IsFiniteSet(D) /\ f[id] = Len(M[id]) /\ SumFunction(f) \in Nat
  BY LengthsAre DEF Lengths
<1>2. DOMAIN N = D \ {id} /\ \A k \in D \ {id} : N[k] = M[k]
  BY DEF Restrict
<1>3. Lengths(N) = Restrict(f, D \ {id})
  BY <1>2 DEF Lengths, Restrict
<1>4. IsFiniteSet(D \ {id}) /\ Cardinality(D \ {id}) = Cardinality(D) - 1
  BY <1>1, FS_RemoveElement
<1>5. DocumentsOK(N)
  BY <1>2, <1>4 DEF DocumentsOK, Restrict
<1>6. SumFunction(Lengths(N)) \in Nat
  BY <1>5, LengthsAre
<1> HIDE DEF N, f
<1>7. SumFunction(f) = f[id] + SumFunction(Restrict(f, D \ {id}))
  <2> HIDE DEF D
  <2>1. id \in D
    BY DEF D
  <2>2. QED
    BY <1>1, <2>1, SumFunctionIs
<1>8. SumFunction(Lengths(N)) = SumFunction(f) - Len(M[id])
  <2>1. Len(M[id]) \in Nat
    BY <1>1
  <2>2. QED
    BY <1>1, <1>3, <1>6, <1>7, <2>1
<1>9. QED
  BY <1>2, <1>3, <1>4, <1>5, <1>8 DEF N, f, D

(* The metadata with a document more.                                        *)
LEMMA LengthsWith ==
  ASSUME NEW M, DocumentsOK(M), NEW id \in Ids, id \notin DOMAIN M, NEW doc \in Docs
  PROVE  LET N == Put(M, id, doc)
         IN /\ DocumentsOK(N) /\ Lengths(N) = Put(Lengths(M), id, Len(doc))
            /\ Cardinality(DOMAIN N) = Cardinality(DOMAIN M) + 1
            /\ SumFunction(Lengths(N)) = SumFunction(Lengths(M)) + Len(doc)
<1> DEFINE N == Put(M, id, doc)
           D == DOMAIN M \cup {id}
<1>1. /\ DOMAIN N = D /\ N[id] = doc /\ \A k \in DOMAIN M : N[k] = M[k]
      /\ N \in [D -> Docs]
  BY DEF Put, DocumentsOK
<1>2. IsFiniteSet(D) /\ Cardinality(D) = Cardinality(DOMAIN M) + 1
  BY FS_AddElement DEF DocumentsOK
<1>3. DocumentsOK(N)
  BY <1>1, <1>2 DEF DocumentsOK
<1>4. Lengths(N) = Put(Lengths(M), id, Len(doc))
  BY <1>1 DEF Lengths, Put
<1>5. M = Restrict(N, D \ {id})
  BY <1>1 DEF Restrict, DocumentsOK
<1> HIDE DEF N
<1>6. SumFunction(Lengths(M)) = SumFunction(Lengths(N)) - Len(doc)
  BY <1>1, <1>3, <1>5, LengthsWithout
<1>7. /\ SumFunction(Lengths(M)) \in Nat /\ SumFunction(Lengths(N)) \in Nat
      /\ Len(doc) \in Nat
  BY <1>3, LengthsAre, DocsHave
<1>8. QED
  BY <1>1, <1>2, <1>3, <1>4, <1>6, <1>7 DEF N

----------------------------------------------------------------------------
(* The operations.                                                           *)

(* An index and its fields.                                                  *)
LEMMA IndexIs ==
  ASSUME NEW P, NEW M, NEW n, NEW total, NEW lengths
  PROVE  IndexOK([postings |-> P, documents |-> M, total_docs |-> n,
                  total_doc_length |-> total, doc_lengths |-> lengths])
           <=> /\ Matches(P, M) /\ lengths = Lengths(M) /\ n = Cardinality(DOMAIN M)
               /\ total = SumFunction(lengths)
BY DEF IndexOK, MetadataMatches, Lengths

(* An index that is in step with its documents.                              *)
LEMMA IndexHas ==
  ASSUME NEW ix, IndexOK(ix)
  PROVE  /\ ix = [postings |-> ix.postings, documents |-> ix.documents,
                  total_docs |-> ix.total_docs, total_doc_length |-> ix.total_doc_length,
                  doc_lengths |-> ix.doc_lengths]
         /\ Matches(ix.postings, ix.documents) /\ DocumentsOK(ix.documents)
         /\ ix.doc_lengths = Lengths(ix.documents)
         /\ ix.total_docs = Cardinality(DOMAIN ix.documents)
         /\ ix.total_doc_length = SumFunction(Lengths(ix.documents))
BY DEF IndexOK, Matches, MetadataMatches, Lengths

(* A new index is empty.                                                     *)
LEMMA NewIsOK == IndexOK(New)
<1>1. /\ DOMAIN <<>> = {} /\ ToSet(<<>>) = {} /\ Distinct(<<>>) /\ Lengths(<<>>) = <<>>
      /\ <<>> \in Seq(AllPostings)
  BY DEF ToSet, Distinct, Lengths
<1>2. IsFiniteSet({}) /\ Cardinality({}) = 0
  BY FS_EmptySet
<1>3. SumFunction(Lengths(<<>>)) = 0
  <2>1. <<>> \in [{} -> Nat]
    BY <1>1
  <2>2. SumFunction(<<>>) = 0
    BY <1>2, <2>1, SumFunctionIs
  <2>3. QED
    BY <1>1, <2>2
<1>4. Matches(<<>>, <<>>)
  BY <1>1, <1>2 DEF Matches, DocumentsOK, ListMatches, HoldingIn, Get
<1>5. QED
  BY <1>1, <1>2, <1>3, <1>4, IndexIs DEF New

(* What remove_document_postings leaves: everything of the document but the  *)
(* document itself is gone.                                                  *)
LEMMA RemoveIs ==
  ASSUME NEW ix, IndexOK(ix), NEW id \in DOMAIN ix.documents, NEW M
  PROVE  RemoveDocumentPostings([ix EXCEPT !.documents = M], id) =
           [postings |-> DropPostings(ix.postings, {id}), documents |-> M,
            total_docs |-> ix.total_docs - 1,
            total_doc_length |-> ix.total_doc_length - Len(ix.documents[id]),
            doc_lengths |-> Restrict(ix.doc_lengths, DOMAIN ix.documents \ {id})]
<1>1. /\ ix = [postings |-> ix.postings, documents |-> ix.documents,
               total_docs |-> ix.total_docs, total_doc_length |-> ix.total_doc_length,
               doc_lengths |-> ix.doc_lengths]
      /\ ix.doc_lengths = Lengths(ix.documents)
  BY IndexHas
<1>2. DOMAIN ix.doc_lengths = DOMAIN ix.documents /\ ix.doc_lengths[id] = Len(ix.documents[id])
  BY <1>1 DEF Lengths
<1> DEFINE jx == [ix EXCEPT !.documents = M]
<1>3. jx = [postings |-> ix.postings, documents |-> M,
               total_docs |-> ix.total_docs, total_doc_length |-> ix.total_doc_length,
               doc_lengths |-> ix.doc_lengths]
  BY <1>1
<1> HIDE DEF jx
<1>4. RemoveDocumentPostings(jx, id) =
           [postings |-> DropPostings(ix.postings, {id}), documents |-> M,
            total_docs |-> ix.total_docs - 1,
            total_doc_length |-> ix.total_doc_length - ix.doc_lengths[id],
            doc_lengths |-> Restrict(ix.doc_lengths, DOMAIN ix.doc_lengths \ {id})]
  BY <1>2, <1>3 DEF RemoveDocumentPostings
<1>5. QED
  BY <1>2, <1>4 DEF jx

(* Deleting a document.                                                      *)
LEMMA DeleteIsOK ==
  ASSUME NEW ix, IndexOK(ix), NEW id
  PROVE  /\ IndexOK(DeleteDocument(ix, id))
         /\ DeleteDocument(ix, id).documents = Restrict(ix.documents, DOMAIN ix.documents \ {id})
<1> DEFINE M == ix.documents
           N == Restrict(M, DOMAIN M \ {id})
<1>1. /\ Matches(ix.postings, M) /\ DocumentsOK(M) /\ ix.doc_lengths = Lengths(M)
      /\ ix.total_docs = Cardinality(DOMAIN M) /\ ix.total_doc_length = SumFunction(Lengths(M))
  BY IndexHas
<1>2. CASE id \in DOMAIN M
  <2>1. DeleteDocument(ix, id) =
          [postings |-> DropPostings(ix.postings, {id}), documents |-> N,
           total_docs |-> ix.total_docs - 1,
           total_doc_length |-> ix.total_doc_length - Len(M[id]),
           doc_lengths |-> Restrict(ix.doc_lengths, DOMAIN M \ {id})]
    BY <1>2, RemoveIs DEF DeleteDocument
  <2>2. Matches(DropPostings(ix.postings, {id}), N)
    BY <1>1, DropMatches
  <2>3. /\ Lengths(N) = Restrict(Lengths(M), DOMAIN M \ {id})
        /\ Cardinality(DOMAIN N) = Cardinality(DOMAIN M) - 1
        /\ SumFunction(Lengths(N)) = SumFunction(Lengths(M)) - Len(M[id])
    BY <1>1, <1>2, LengthsWithout
  <2> HIDE DEF M, N
  <2>4. /\ IndexOK(DeleteDocument(ix, id))
        /\ DeleteDocument(ix, id).documents = N
    BY <1>1, <2>1, <2>2, <2>3, IndexIs
  <2>5. QED
    BY <2>4 DEF M, N
<1>3. CASE id \notin DOMAIN M
  <2>1. N = M
    <3>1. DOMAIN M \ {id} = DOMAIN M
      BY <1>3
    <3>2. QED
      BY <1>1, <3>1 DEF Restrict, DocumentsOK
  <2>2. QED
    BY <1>3, <2>1 DEF DeleteDocument
<1>4. QED
  BY <1>2, <1>3

(* Adding a document that is not there.                                      *)
LEMMA AddIsOK ==
  ASSUME NEW ix, IndexOK(ix), NEW id \in Ids, id \notin DOMAIN ix.documents, NEW doc \in Docs
  PROVE  IndexOK(AddDocument(ix, id, doc))
<1> DEFINE M == ix.documents
           P == ix.postings
           N == Put(M, id, doc)
           Q == [t \in DOMAIN P \cup ToSet(doc) |->
                   IF t \in ToSet(doc) THEN Append(Get(P, t), Posting(id, doc, t)) ELSE P[t]]
<1>1. /\ Matches(P, M) /\ DocumentsOK(M) /\ ix.doc_lengths = Lengths(M)
      /\ ix.total_docs = Cardinality(DOMAIN M) /\ ix.total_doc_length = SumFunction(Lengths(M))
  BY IndexHas
<1>2. AddDocument(ix, id, doc) =
        [postings |-> Q, documents |-> N, total_docs |-> ix.total_docs + 1,
         total_doc_length |-> ix.total_doc_length + Len(doc),
         doc_lengths |-> Put(ix.doc_lengths, id, Len(doc))]
  BY DEF AddDocument
<1>3. Matches(Q, N)
  BY <1>1, AddMatches
<1>4. /\ Lengths(N) = Put(Lengths(M), id, Len(doc))
      /\ Cardinality(DOMAIN N) = Cardinality(DOMAIN M) + 1
      /\ SumFunction(Lengths(N)) = SumFunction(Lengths(M)) + Len(doc)
  BY <1>1, LengthsWith
<1> HIDE DEF M, P, N, Q
<1>5. QED
  BY <1>1, <1>2, <1>3, <1>4, IndexIs

(* Adding a document that is there is deleting it, and adding it again.      *)
LEMMA ReplaceIsOK ==
  ASSUME NEW ix, IndexOK(ix), NEW id \in DOMAIN ix.documents, NEW doc \in Docs
  PROVE  IndexOK(AddDocument(ix, id, doc))
<1> DEFINE M == ix.documents
           N == Restrict(M, DOMAIN M \ {id})
           jx == DeleteDocument(ix, id)
           kx == RemoveDocumentPostings(ix, id)
<1>1. IndexOK(jx) /\ jx.documents = N
  BY DeleteIsOK
<1>2. DOMAIN N = DOMAIN M \ {id} /\ id \in Ids
  BY IndexHas DEF Restrict, DocumentsOK
<1>3. /\ kx.documents = M
      /\ kx.postings = jx.postings /\ kx.total_docs = jx.total_docs
      /\ kx.total_doc_length = jx.total_doc_length /\ kx.doc_lengths = jx.doc_lengths
  <2>1. ix = [ix EXCEPT !.documents = M]
    <3>1. ix = [postings |-> ix.postings, documents |-> ix.documents,
                total_docs |-> ix.total_docs, total_doc_length |-> ix.total_doc_length,
                doc_lengths |-> ix.doc_lengths]
      BY IndexHas
    <3>2. QED
      BY <3>1
  <2>2. kx = [postings |-> DropPostings(ix.postings, {id}), documents |-> M,
              total_docs |-> ix.total_docs - 1,
              total_doc_length |-> ix.total_doc_length - Len(ix.documents[id]),
              doc_lengths |-> Restrict(ix.doc_lengths, DOMAIN ix.documents \ {id})]
    BY <2>1, RemoveIs
  <2>3. jx = [postings |-> DropPostings(ix.postings, {id}), documents |-> N,
              total_docs |-> ix.total_docs - 1,
              total_doc_length |-> ix.total_doc_length - Len(ix.documents[id]),
              doc_lengths |-> Restrict(ix.doc_lengths, DOMAIN ix.documents \ {id})]
    BY RemoveIs DEF DeleteDocument
  <2> HIDE DEF kx, jx, N
  <2>4. QED
    BY <2>2, <2>3
<1>4. Put(M, id, doc) = Put(N, id, doc)
  BY <1>2 DEF Put, Restrict
<1> HIDE DEF jx, kx, N
<1>5. AddDocument(ix, id, doc) = AddDocument(jx, id, doc)
  <2>1. id \notin DOMAIN jx.documents
    BY <1>1, <1>2
  <2>2. QED
    BY <1>1, <1>3, <1>4, <2>1 DEF AddDocument, kx
<1>6. QED
  BY <1>1, <1>2, <1>5, AddIsOK

(* A segment is read back as it was written.                                 *)
LEMMA ReadBackIs == \A ix : IndexOK(ix) => ReadBack(ix) = ix
<1> SUFFICES ASSUME NEW ix, IndexOK(ix) PROVE ReadBack(ix) = ix
  OBVIOUS
<1>1. /\ ix = [postings |-> ix.postings, documents |-> ix.documents,
               total_docs |-> ix.total_docs, total_doc_length |-> ix.total_doc_length,
               doc_lengths |-> ix.doc_lengths]
      /\ ix.total_docs = Cardinality(DOMAIN ix.documents)
  BY IndexHas
<1>2. QED
  BY <1>1 DEF ReadBack

(* Merging two indexes, whose documents may be the same.                     *)
LEMMA MergeIsOK ==
  ASSUME NEW ix, IndexOK(ix), NEW other, IndexOK(other)
  PROVE  IndexOK(MergeWith(ix, other))
<1> DEFINE M == ix.documents
           M2 == other.documents
           R == Replaced(ix, other)
           K == Restrict(M, DOMAIN M \ R)
           old == DropPostings(ix.postings, R)
           N == [id \in DOMAIN M \cup DOMAIN M2 |-> IF id \in DOMAIN M2 THEN M2[id] ELSE M[id]]
           Q == [t \in DOMAIN old \cup DOMAIN other.postings |->
                   MergeLists(Get(old, t), Get(other.postings, t))]
<1>1. /\ Matches(ix.postings, M) /\ DocumentsOK(M)
      /\ Matches(other.postings, M2) /\ DocumentsOK(M2)
  BY IndexHas
<1>2. DocumentsOK(N)
  <2>1. IsFiniteSet(DOMAIN M \cup DOMAIN M2)
    BY <1>1, FS_Union DEF DocumentsOK
  <2>2. DOMAIN N = DOMAIN M \cup DOMAIN M2 /\ N \in [DOMAIN M \cup DOMAIN M2 -> Docs]
    BY <1>1 DEF DocumentsOK
  <2>3. QED
    BY <1>1, <2>1, <2>2 DEF DocumentsOK
<1>3. Matches(old, K)
  BY <1>1, DropMatches
<1>4. /\ DOMAIN K = DOMAIN M \ DOMAIN M2 /\ \A id \in DOMAIN K : K[id] = M[id]
  BY DEF Restrict, Replaced
<1>5. Matches(Q, N)
  <2>1. /\ DOMAIN K \cap DOMAIN M2 = {} /\ DOMAIN N = DOMAIN K \cup DOMAIN M2
        /\ \A id \in DOMAIN K : N[id] = K[id]
        /\ \A id \in DOMAIN M2 : N[id] = M2[id]
    BY <1>4
  <2> HIDE DEF M, M2, K, N, old, R
  <2>2. QED
    BY <1>1, <1>2, <1>3, <2>1, MergeMatches
<1>6. MergeWith(ix, other) =
        [postings |-> Q, documents |-> N, total_docs |-> Cardinality(DOMAIN N),
         total_doc_length |-> SumFunction(Lengths(N)), doc_lengths |-> Lengths(N)]
  BY DEF MergeWith, Lengths
<1> HIDE DEF N, Q
<1>7. QED
  BY <1>5, <1>6, IndexIs

----------------------------------------------------------------------------
(* The invariant.                                                            *)

LEMMA InvInit == Init => IndexInv
BY NewIsOK DEF Init, IndexInv

LEMMA InvNext == IndexInv /\ [Next]_vars => IndexInv'
<1> SUFFICES ASSUME IndexInv, [Next]_vars PROVE IndexInv'
  OBVIOUS
<1>1. IndexOK(index) /\ IndexOK(segment)
  BY DEF IndexInv
<1>2. ASSUME NEW id \in Ids, Delete(id) PROVE IndexInv'
  BY <1>1, <1>2, DeleteIsOK DEF Delete, IndexInv
<1>3. ASSUME NEW id \in Ids, NEW doc \in Docs, Add(id, doc) PROVE IndexInv'
  <2>1. IndexOK(AddDocument(index, id, doc))
    <3>1. CASE id \in DOMAIN index.documents
      BY <1>1, <3>1, ReplaceIsOK
    <3>2. CASE id \notin DOMAIN index.documents
      BY <1>1, <3>2, AddIsOK
    <3>3. QED
      BY <3>1, <3>2
  <2>2. QED
    BY <1>1, <1>3, <2>1 DEF Add, IndexInv
<1>4. ASSUME Flush PROVE IndexInv'
  BY <1>1, <1>4, NewIsOK, ReadBackIs DEF Flush, IndexInv
<1>5. ASSUME LoadAfter PROVE IndexInv'
  BY <1>1, <1>5, MergeIsOK DEF LoadAfter, IndexInv
<1>6. ASSUME LoadBefore PROVE IndexInv'
  BY <1>1, <1>6, MergeIsOK DEF LoadBefore, IndexInv
<1>7. CASE UNCHANGED vars
  BY <1>1, <1>7 DEF vars, IndexInv
<1>8. QED
  BY <1>2, <1>3, <1>4, <1>5, <1>6, <1>7 DEF Next

(* After any additions, deletions, flushes and merges the index and the      *)
(* segment hold what the documents in them make, list by list.               *)
THEOREM IndexInvariance == Spec => []IndexInv
BY InvInit, InvNext, PTL DEF Spec

----------------------------------------------------------------------------
(* What it implies.                                                          *)

(* A list without two postings of a document is as long as its documents are *)
(* many.                                                                     *)
LEMMA ListCounts ==
  ASSUME NEW M, NEW t, NEW list, ListMatches(list, M, t)
  PROVE  Len(list) \in Nat /\ Cardinality(HoldingIn(M, t)) = Len(list)
<1> DEFINE n == Len(list)
           H == HoldingIn(M, t)
           f == [k \in 1..n |-> list[k].doc_id]
<1>1. n \in Nat /\ DOMAIN list = 1..n /\ list \in Seq(AllPostings)
  BY LenProperties DEF ListMatches
<1>2. {list[k] : k \in 1..n} = {Posting(id, M[id], t) : id \in H}
  BY <1>1 DEF ListMatches, ToSet
<1>3. \A a, b \in 1..n : f[a] = f[b] => a = b
  BY DEF ListMatches, Distinct
<1> HIDE DEF H, n
<1>4. \A k \in 1..n : list[k].doc_id \in H
  <2> TAKE k \in 1..n
  <2>1. PICK id \in H : list[k] = Posting(id, M[id], t)
    BY <1>2
  <2>2. QED
    BY <2>1, DocsHave
<1>5. \A id \in H : \E k \in 1..n : list[k].doc_id = id
  <2> TAKE id \in H
  <2>1. PICK k \in 1..n : list[k] = Posting(id, M[id], t)
    BY <1>2
  <2>2. QED
    BY <2>1, DocsHave
<1>6. f \in [1..n -> H] /\ \A id \in H : \E k \in 1..n : f[k] = id
  BY <1>4, <1>5
<1> HIDE DEF f
<1>7. f \in Bijection(1..n, H)
  BY <1>3, <1>6, Fun_IsBij
<1>8. Cardinality(H) = n
  BY <1>1, <1>7, FS_CountingElements DEF ExistsBijection
<1>9. QED
  BY <1>1, <1>8 DEF n, H

(* A term is in the index when a document holds it.                          *)
LEMMA TermsAre ==
  ASSUME NEW P, NEW M, Matches(P, M)
  PROVE  DOMAIN P = UNION {ToSet(M[id]) : id \in DOMAIN M}
<1>1. /\ DOMAIN P \subseteq Terms
      /\ \A t \in Terms : ListMatches(Get(P, t), M, t)
      /\ \A t \in DOMAIN P : P[t] # <<>> /\ Get(P, t) = P[t]
      /\ \A id \in DOMAIN M : M[id] \in Docs
  BY DEF Matches, DocumentsOK, Get
<1>2. ASSUME NEW t \in DOMAIN P PROVE \E id \in DOMAIN M : t \in ToSet(M[id])
  <2>1. ListMatches(P[t], M, t) /\ P[t] # <<>>
    BY <1>1
  <2>2. ToSet(P[t]) # {}
    BY <2>1, EmptyIs DEF ListMatches
  <2>3. HoldingIn(M, t) # {}
    BY <2>1, <2>2 DEF ListMatches
  <2>4. QED
    BY <2>3 DEF HoldingIn
<1>3. ASSUME NEW id \in DOMAIN M, NEW t \in ToSet(M[id]) PROVE t \in DOMAIN P
  <2>1. t \in Terms /\ id \in HoldingIn(M, t)
    BY <1>1, DocsHave DEF HoldingIn
  <2>2. ListMatches(Get(P, t), M, t)
    BY <1>1, <2>1
  <2>3. Posting(id, M[id], t) \in ToSet(Get(P, t))
    BY <2>1, <2>2 DEF ListMatches
  <2>4. ToSet(<<>>) = {}
    BY DEF ToSet
  <2>5. QED
    BY <2>3, <2>4 DEF Get
<1>4. QED
  BY <1>2, <1>3

(* The invariant implies the properties, for one index.                      *)
LEMMA IndexImplies ==
  ASSUME NEW ix, IndexOK(ix)
  PROVE  /\ PostingsMatch(ix) /\ MetadataMatches(ix)
         /\ DOMAIN ix.documents \subseteq Ids /\ DOMAIN ix.postings \subseteq Terms
         /\ ix.total_docs \in Nat /\ ix.total_doc_length \in Nat
         /\ DOMAIN ix.doc_lengths = DOMAIN ix.documents
<1>1. /\ Matches(ix.postings, ix.documents) /\ DocumentsOK(ix.documents)
      /\ ix.doc_lengths = Lengths(ix.documents)
      /\ ix.total_docs = Cardinality(DOMAIN ix.documents)
      /\ ix.total_doc_length = SumFunction(Lengths(ix.documents))
  BY IndexHas
<1>2. ASSUME NEW t \in DOMAIN ix.postings
      PROVE  /\ ToSet(ix.postings[t]) =
                  {Posting(id, ix.documents[id], t) : id \in Holding(ix, t)}
             /\ Len(ix.postings[t]) = Cardinality(Holding(ix, t))
  <2>1. ListMatches(ix.postings[t], ix.documents, t)
    BY <1>1 DEF Matches, Get
  <2>2. Holding(ix, t) = HoldingIn(ix.documents, t)
    BY DEF Holding, HoldingIn
  <2>3. QED
    BY <2>1, <2>2, ListCounts DEF ListMatches
<1>3. PostingsMatch(ix)
  <2>1. DOMAIN ix.postings =
          UNION {ToSet(ix.documents[id]) : id \in DOMAIN ix.documents}
    <3> DEFINE P == ix.postings
               M == ix.documents
    <3>1. Matches(P, M)
      BY <1>1
    <3> HIDE DEF P, M
    <3>2. DOMAIN P = UNION {ToSet(M[id]) : id \in DOMAIN M}
      BY <3>1, TermsAre, Zenon
    <3>3. QED
      BY <3>2 DEF P, M
  <2>2. \A t \in DOMAIN ix.postings :
          /\ ToSet(ix.postings[t]) =
               {Posting(id, ix.documents[id], t) : id \in Holding(ix, t)}
          /\ Len(ix.postings[t]) = Cardinality(Holding(ix, t))
    BY <1>2, Zenon
  <2>3. QED
    BY <2>1, <2>2, Zenon DEF PostingsMatch
<1>4. DOMAIN ix.doc_lengths = DOMAIN ix.documents
  BY <1>1 DEF Lengths
<1>5. ix.total_docs \in Nat /\ ix.total_doc_length \in Nat
  BY <1>1, LengthsAre
<1>6. QED
  BY <1>1, <1>3, <1>4, <1>5 DEF IndexOK, Matches, DocumentsOK

(* Counters stay natural numbers, and no unknown id or term gets in.         *)
THEOREM IndexTypes == Spec => []TypeOK
<1>1. IndexInv => TypeOK
  <2>1. ASSUME IndexInv, NEW ix \in {index, segment}
        PROVE  /\ DOMAIN ix.documents \subseteq Ids /\ DOMAIN ix.postings \subseteq Terms
               /\ ix.total_docs \in Nat /\ ix.total_doc_length \in Nat
               /\ DOMAIN ix.doc_lengths = DOMAIN ix.documents
    <3>1. IndexOK(ix)
      BY <2>1 DEF IndexInv
    <3>2. QED
      BY <3>1, IndexImplies
  <2>2. QED
    BY <2>1 DEF TypeOK
<1>2. QED
  BY <1>1, IndexInvariance, PTL

(* A search sees exactly the stored documents: PostingsMatchDocuments.       *)
THEOREM PostingsStayInStep == Spec => []PostingsMatchDocuments
<1>1. IndexInv => PostingsMatchDocuments
  BY IndexImplies DEF IndexInv, PostingsMatchDocuments
<1>2. QED
  BY <1>1, IndexInvariance, PTL

(* The counters of documents and words are those of the stored documents,    *)
(* and never go below zero: MetadataMatchDocuments.                          *)
THEOREM MetadataStaysInStep == Spec => []MetadataMatchDocuments
<1>1. IndexInv => MetadataMatchDocuments
  BY IndexImplies DEF IndexInv, MetadataMatchDocuments
<1>2. QED
  BY <1>1, IndexInvariance, PTL
=============================================================================
