-------------------------- MODULE SegmentFileProofs ---------------------------
(* Theorems about SegmentFile, for any width of bytes and of fields, and for *)
(* any documents.                                                            *)
EXTENDS SegmentFile, Induction, FiniteSetTheorems, SequenceTheorems, TLAPS

----------------------------------------------------------------------------
(* Numbers as bytes.                                                         *)

Byte == 0..Base - 1

(* Division takes the last digit off.                                        *)
LEMMA DigitsAre ==
  ASSUME NEW n \in Nat, NEW b \in Nat \ {0}
  PROVE  /\ n \div b \in Nat /\ n % b \in 0..b - 1
         /\ (n \div b) * b + (n % b) = n
OBVIOUS

(* What is left of a number, byte by byte.                                   *)
LEMMA RestIs ==
  ASSUME NEW n \in Nat, NEW w \in Nat
  PROVE  /\ Rest(n, w) \in [0..w -> Nat] /\ Rest(n, w)[0] = n
         /\ \A k \in 1..w : Rest(n, w)[k] = Rest(n, w)[k - 1] \div Base
<1> DEFINE G == [k \in 1..w |-> [x \in Nat |-> x \div Base]]
<1>1. Base \in Nat \ {0}
  BY WidthAssumption
<1>2. G \in [1..w -> [Nat -> Nat]]
  BY <1>1, DigitsAre
<1>3. \A k \in 1..w, x \in Nat : G[k][x] = x \div Base
  OBVIOUS
<1> HIDE DEF G
<1>4. PICK f \in [0..w -> Nat] : f[0] = n /\ \A k \in 1..w : f[k] = G[k][f[k - 1]]
  <2> DEFINE X == Nat
             x0 == n
  <2>1. x0 \in X /\ G \in Steps(w, X)
    BY <1>2 DEF Steps
  <2> HIDE DEF X, x0
  <2>2. \E f : Iterates(f, w, X, x0, G)
    BY <2>1, Iteration
  <2>3. QED
    BY <2>2 DEF X, x0, Iterates
<1>5. \A k \in 0..w : f[k] = IF k = 0 THEN n ELSE f[k - 1] \div Base
  <2> TAKE k \in 0..w
  <2>1. k # 0 => f[k] = G[k][f[k - 1]]
    BY <1>4
  <2>2. k # 0 => k \in 1..w /\ f[k - 1] \in Nat
    OBVIOUS
  <2>3. QED
    BY <1>3, <1>4, <2>1, <2>2
<1>6. f = [k \in 0..w |-> IF k = 0 THEN n ELSE f[k - 1] \div Base]
  BY <1>5
<1> DEFINE r == CHOOSE r : r = [k \in 0..w |-> IF k = 0 THEN n ELSE r[k - 1] \div Base]
<1>7. r = [k \in 0..w |-> IF k = 0 THEN n ELSE r[k - 1] \div Base]
  BY <1>6
<1>8. Rest(n, w) = r
  BY DEF Rest
<1> HIDE DEF r
<1>9. r[0] = n /\ \A k \in 1..w : r[k] = r[k - 1] \div Base
  BY <1>7
<1> DEFINE T == {k \in 0..w : r[k] \in Nat}
<1>10. \A k \in 0..w : k \in T
  <2>1. 0 \in T
    BY <1>9
  <2>2. ASSUME NEW k \in 0..(w - 1), k \in T PROVE k + 1 \in T
    <3>1. k + 1 \in 1..w /\ k + 1 \in 0..w /\ (k + 1) - 1 = k /\ r[k] \in Nat
      BY <2>2
    <3>2. r[k + 1] = r[k] \div Base
      BY <1>9, <3>1
    <3>3. r[k + 1] \in Nat
      BY <1>1, <3>1, <3>2, DigitsAre
    <3>4. QED
      BY <3>1, <3>3
  <2> HIDE DEF T
  <2>3. QED
    BY <2>1, <2>2, Climb
<1>11. r \in [0..w -> Nat]
  BY <1>7, <1>10
<1>12. QED
  BY <1>8, <1>9, <1>11

(* A number's bytes.                                                         *)
LEMMA BytesAre ==
  ASSUME NEW n \in Nat, NEW w \in Nat
  PROVE  /\ Bytes(n, w) \in Seq(Byte) /\ Len(Bytes(n, w)) = w
         /\ \A k \in 1..w : Bytes(n, w)[k] = Rest(n, w)[k - 1] % Base
<1> DEFINE r == Rest(n, w)
           b == Bytes(n, w)
<1>1. b = [k \in 1..w |-> r[k - 1] % Base]
  BY DEF Bytes
<1>2. r \in [0..w -> Nat]
  BY RestIs
<1>3. Base \in Nat \ {0}
  BY WidthAssumption
<1> HIDE DEF r, b
<1>4. \A k \in 1..w : r[k - 1] % Base \in Byte
  <2> TAKE k \in 1..w
  <2>1. r[k - 1] \in Nat
    BY <1>2
  <2>2. QED
    BY <1>3, <2>1, DigitsAre DEF Byte
<1>5. b \in [1..w -> Byte]
  BY <1>1, <1>4
<1>6. b \in Seq(Byte) /\ Len(b) = w
  BY <1>5
<1>7. QED
  BY <1>1, <1>6 DEF r, b

(* A number that fits is read back from its bytes.                           *)
LEMMA ValueIs ==
  ASSUME NEW n, NEW w \in Nat, Fits(n, w)
  PROVE  Value(Bytes(n, w)) = n
<1>1. n \in Nat /\ Rest(n, w)[w] = 0
  BY DEF Fits
<1>2. Base \in Nat \ {0}
  BY WidthAssumption
<1> DEFINE r == Rest(n, w)
           b == Bytes(n, w)
<1>3. /\ r \in [0..w -> Nat] /\ r[0] = n /\ r[w] = 0
      /\ \A k \in 1..w : r[k] = r[k - 1] \div Base
  BY <1>1, RestIs
<1>4. Len(b) = w /\ \A k \in 1..w : b[k] = r[k - 1] % Base
  BY <1>1, BytesAre
<1> DEFINE g == [k \in 0..w |-> r[w - k]]
           v == CHOOSE v : v = [k \in 0..Len(b) |->
                  IF k = 0 THEN 0 ELSE v[k - 1] * Base + b[Len(b) - k + 1]]
<1>5. Value(b) = v[Len(b)]
  BY DEF Value
<1> HIDE DEF r, b
<1>6. ASSUME NEW k \in 1..w
      PROVE  r[w - k] = r[w - (k - 1)] * Base + b[w - k + 1]
  <2>1. w - k + 1 \in 1..w /\ w - (k - 1) = w - k + 1 /\ (w - k + 1) - 1 = w - k
    OBVIOUS
  <2>2. r[w - k + 1] = r[w - k] \div Base /\ b[w - k + 1] = r[w - k] % Base
    BY <1>3, <1>4, <2>1
  <2>3. r[w - k] \in Nat
    BY <1>3
  <2> DEFINE m == r[w - k]
  <2>4. (m \div Base) * Base + (m % Base) = m
    BY <1>2, <2>3, DigitsAre
  <2>5. QED
    BY <2>1, <2>2, <2>4
<1>7. g[0] = 0 /\ \A k \in 1..w : g[k] = g[k - 1] * Base + b[w - k + 1]
  <2>1. g[0] = 0
    BY <1>3
  <2>2. ASSUME NEW k \in 1..w PROVE g[k] = g[k - 1] * Base + b[w - k + 1]
    <3>1. k \in 0..w /\ k - 1 \in 0..w
      OBVIOUS
    <3>2. g[k] = r[w - k] /\ g[k - 1] = r[w - (k - 1)]
      BY <3>1
    <3> HIDE DEF g
    <3>3. QED
      BY <1>6, <3>2
  <2>3. QED
    BY <2>1, <2>2
<1>8. g = [k \in 0..w |-> g[k]]
  OBVIOUS
<1>9. g[w] = n
  BY <1>3
<1> HIDE DEF g
<1>10. \A k \in 0..w : g[k] = IF k = 0 THEN 0 ELSE g[k - 1] * Base + b[w - k + 1]
  BY <1>7
<1>11. g = [k \in 0..w |-> IF k = 0 THEN 0 ELSE g[k - 1] * Base + b[w - k + 1]]
  BY <1>8, <1>10
<1>12. v = [k \in 0..w |-> IF k = 0 THEN 0 ELSE v[k - 1] * Base + b[w - k + 1]]
  BY <1>4, <1>11
<1> HIDE DEF v
<1>13. v[0] = 0 /\ \A k \in 1..w : v[k] = v[k - 1] * Base + b[w - k + 1]
  BY <1>12
<1> DEFINE T == {k \in 0..w : v[k] = g[k]}
<1>14. \A k \in 0..w : k \in T
  <2>1. 0 \in T
    BY <1>7, <1>13
  <2>2. ASSUME NEW k \in 0..(w - 1), k \in T PROVE k + 1 \in T
    <3>1. k + 1 \in 1..w /\ k + 1 \in 0..w /\ (k + 1) - 1 = k /\ v[k] = g[k]
      BY <2>2
    <3>2. /\ v[k + 1] = v[k] * Base + b[w - (k + 1) + 1]
          /\ g[k + 1] = g[k] * Base + b[w - (k + 1) + 1]
      BY <1>7, <1>13, <3>1
    <3>3. QED
      BY <3>1, <3>2
  <2> HIDE DEF T
  <2>3. QED
    BY <2>1, <2>2, Climb
<1>15. v[w] = n
  BY <1>9, <1>14
<1>16. QED
  BY <1>4, <1>5, <1>15 DEF b

----------------------------------------------------------------------------
(* Parts one after the other.                                                *)

(* What the first parts make.                                                *)
LEMMA JoinedIs ==
  ASSUME NEW S, NEW parts \in Seq(Seq(S))
  PROVE  /\ Joined(parts) \in [0..Len(parts) -> Seq(S)] /\ Joined(parts)[0] = <<>>
         /\ \A k \in 1..Len(parts) : Joined(parts)[k] = Joined(parts)[k - 1] \o parts[k]
<1> DEFINE n == Len(parts)
           X == Seq(S)
           x0 == << >>
           G == [k \in 1..n |-> [x \in X |-> x \o parts[k]]]
<1>1. n \in Nat /\ x0 \in X /\ \A k \in 1..n : parts[k] \in X
  BY LenProperties, ElementOfSeq
<1>2. \A k \in 1..n, x \in X : x \o parts[k] \in X
  BY <1>1, ConcatProperties
<1> HIDE DEF n, x0
<1>3. G \in Steps(n, X) /\ \A k \in 1..n, x \in X : G[k][x] = x \o parts[k]
  BY <1>2 DEF Steps
<1> HIDE DEF G, X
<1>4. PICK f : Iterates(f, n, X, x0, G)
  BY <1>1, <1>3, Iteration
<1>5. \A k \in 0..n : f[k] = IF k = 0 THEN x0 ELSE f[k - 1] \o parts[k]
  <2> TAKE k \in 0..n
  <2>1. k # 0 => k \in 1..n /\ k - 1 \in 0..n
    BY <1>1
  <2>2. k # 0 => f[k] = G[k][f[k - 1]] /\ f[k - 1] \in X
    BY <1>4, <2>1 DEF Iterates
  <2>3. QED
    BY <1>3, <1>4, <2>1, <2>2 DEF Iterates
<1>6. f = [k \in 0..n |-> IF k = 0 THEN x0 ELSE f[k - 1] \o parts[k]]
  BY <1>4, <1>5 DEF Iterates
<1> DEFINE j == CHOOSE j : j = [k \in 0..n |-> IF k = 0 THEN x0 ELSE j[k - 1] \o parts[k]]
<1>7. j = [k \in 0..n |-> IF k = 0 THEN x0 ELSE j[k - 1] \o parts[k]]
  BY <1>6
<1>8. Joined(parts) = j
  BY DEF Joined, n, x0
<1> HIDE DEF j
<1>9. j[0] = x0 /\ \A k \in 1..n : j[k] = j[k - 1] \o parts[k]
  <2>1. \A k \in 0..n : j[k] = IF k = 0 THEN x0 ELSE j[k - 1] \o parts[k]
    BY <1>7, Zenon
  <2>2. 0 \in 0..n /\ \A k \in 1..n : k \in 0..n /\ k # 0
    BY <1>1
  <2>3. QED
    BY <2>1, <2>2, Zenon
<1> DEFINE T == {k \in 0..n : j[k] \in X}
<1>10. \A k \in 0..n : k \in T
  <2>1. 0 \in T
    BY <1>1, <1>9
  <2>2. ASSUME NEW k \in 0..(n - 1), k \in T PROVE k + 1 \in T
    <3>1. k + 1 \in 1..n /\ k + 1 \in 0..n /\ (k + 1) - 1 = k /\ j[k] \in X
      BY <1>1, <2>2
    <3>2. j[k + 1] = j[k] \o parts[k + 1]
      BY <1>9, <3>1
    <3>3. j[k + 1] \in X
      BY <1>2, <3>1, <3>2
    <3>4. QED
      BY <3>1, <3>3
  <2> HIDE DEF T
  <2>3. QED
    BY <1>1, <2>1, <2>2, Climb
<1>11. j \in [0..n -> X]
  BY <1>7, <1>10
<1>12. QED
  BY <1>8, <1>9, <1>11 DEF n, x0, X

LEMMA ConcatIs ==
  ASSUME NEW S, NEW parts \in Seq(Seq(S))
  PROVE  Concat(parts) \in Seq(S)
<1>1. Len(parts) \in 0..Len(parts)
  BY LenProperties
<1>2. QED
  BY <1>1, JoinedIs DEF Concat

(* The bytes s are those of the image from the offset on.                    *)
Stands(s, offset, image) ==
  offset + Len(s) <= Len(image) /\ \A i \in 1..Len(s) : image[offset + i] = s[i]

(* Of two parts that stand somewhere, the second stands behind the first.    *)
LEMMA StandsApart ==
  ASSUME NEW S, NEW s \in Seq(S), NEW t \in Seq(S), NEW image \in Seq(S),
         NEW offset \in Nat, Stands(s \o t, offset, image)
  PROVE  Stands(s, offset, image) /\ Stands(t, offset + Len(s), image)
<1>1. /\ Len(s) \in Nat /\ Len(t) \in Nat /\ Len(image) \in Nat
      /\ Len(s \o t) = Len(s) + Len(t)
      /\ \A i \in 1..Len(s) + Len(t) :
           (s \o t)[i] = IF i <= Len(s) THEN s[i] ELSE t[i - Len(s)]
  BY ConcatProperties, LenProperties
<1>2. ASSUME NEW i \in 1..Len(s) PROVE image[offset + i] = s[i]
  <2>1. i \in 1..Len(s) + Len(t) /\ i <= Len(s)
    BY <1>1
  <2>2. (s \o t)[i] = s[i]
    BY <1>1, <2>1
  <2>3. QED
    BY <1>1, <2>1, <2>2 DEF Stands
<1>3. ASSUME NEW i \in 1..Len(t) PROVE image[offset + Len(s) + i] = t[i]
  <2>1. Len(s) + i \in 1..Len(s) + Len(t) /\ ~(Len(s) + i <= Len(s))
    BY <1>1
  <2>2. (s \o t)[Len(s) + i] = t[i]
    BY <1>1, <2>1
  <2>3. image[offset + (Len(s) + i)] = (s \o t)[Len(s) + i]
    BY <1>1, <2>1 DEF Stands
  <2>4. offset + (Len(s) + i) = offset + Len(s) + i
    BY <1>1
  <2>5. QED
    BY <2>2, <2>3, <2>4
<1>4. QED
  BY <1>1, <1>2, <1>3 DEF Stands

(* And each of several parts where the parts before it end.                  *)
LEMMA StandsInTurn ==
  ASSUME NEW S, NEW parts \in Seq(Seq(S)), NEW image \in Seq(S), NEW offset \in Nat,
         Stands(Concat(parts), offset, image)
  PROVE  \A k \in 1..Len(parts) :
           /\ Stands(parts[k], offset + Len(Joined(parts)[k - 1]), image)
           /\ Len(Joined(parts)[k]) = Len(Joined(parts)[k - 1]) + Len(parts[k])
<1> DEFINE n == Len(parts)
           j == Joined(parts)
<1>1. n \in Nat /\ \A k \in 1..n : parts[k] \in Seq(S)
  BY LenProperties, ElementOfSeq
<1>2. j \in [0..n -> Seq(S)] /\ \A k \in 1..n : j[k] = j[k - 1] \o parts[k]
  BY JoinedIs
<1>3. Stands(j[n], offset, image)
  BY DEF Concat
<1> HIDE DEF n, j
<1> DEFINE T == {k \in 0..n : Stands(j[n - k], offset, image)}
<1>4. \A k \in 0..n : k \in T
  <2>1. 0 \in T
    BY <1>1, <1>3
  <2>2. ASSUME NEW k \in 0..(n - 1), k \in T PROVE k + 1 \in T
    <3>1. /\ n - k \in 1..n /\ (n - k) - 1 = n - (k + 1) /\ n - (k + 1) \in 0..n
          /\ k + 1 \in 0..n /\ Stands(j[n - k], offset, image)
      BY <1>1, <2>2
    <3>2. j[n - k] = j[n - (k + 1)] \o parts[n - k]
      BY <1>2, <3>1
    <3>3. j[n - (k + 1)] \in Seq(S) /\ parts[n - k] \in Seq(S)
      BY <1>1, <1>2, <3>1
    <3>4. Stands(j[n - (k + 1)], offset, image)
      BY <3>1, <3>2, <3>3, StandsApart
    <3>5. QED
      BY <3>1, <3>4
  <2> HIDE DEF T
  <2>3. QED
    BY <1>1, <2>1, <2>2, Climb
<1>5. ASSUME NEW k \in 1..n
      PROVE  /\ Stands(parts[k], offset + Len(j[k - 1]), image)
             /\ Len(j[k]) = Len(j[k - 1]) + Len(parts[k])
  <2>1. n - k \in 0..n /\ n - (n - k) = k /\ k - 1 \in 0..n
    BY <1>1
  <2>2. Stands(j[k], offset, image)
    BY <1>4, <2>1
  <2>3. j[k] = j[k - 1] \o parts[k] /\ j[k - 1] \in Seq(S) /\ parts[k] \in Seq(S)
    BY <1>1, <1>2, <2>1
  <2>4. Stands(parts[k], offset + Len(j[k - 1]), image)
    BY <2>2, <2>3, StandsApart
  <2>5. QED
    BY <2>3, <2>4, ConcatProperties
<1>6. QED
  BY <1>5 DEF n, j

----------------------------------------------------------------------------
(* Reading one field.  The file is the beginning of what was to be written.  *)

Begins(image) ==
  /\ file \in Seq(Byte) /\ image \in Seq(Byte) /\ Len(file) <= Len(image)
  /\ \A i \in 1..Len(file) : file[i] = image[i]

(* What a reader has, behind fields that end at an offset: what they say, or *)
(* nothing if the file ends before them.                                     *)
Expect(at, got) ==
  IF at <= Len(file) THEN [ok |-> TRUE, at |-> at, got |-> got] ELSE Failed
Reached(r, at, got) ==
  \/ r = [ok |-> TRUE, at |-> at, got |-> got]
  \/ r = Failed /\ ~(at <= Len(file))

Fields == Nat \cup Texts \cup Seq(Nat)

LEMMA ExpectReaches ==
  ASSUME NEW at, NEW got PROVE Reached(Expect(at, got), at, got)
<1>1. CASE at <= Len(file)
  BY <1>1, Zenon DEF Expect, Reached
<1>2. CASE ~(at <= Len(file))
  BY <1>2, Zenon DEF Expect, Reached
<1>3. QED
  BY <1>1, <1>2

LEMMA AtReaches == ASSUME NEW at PROVE Reached(At(at), at, <<>>)
<1>1. At(at) = [ok |-> TRUE, at |-> at, got |-> <<>>]
  BY DEF At
<1>2. QED
  BY <1>1, Zenon DEF Reached

LEMMA LastAndFront ==
  ASSUME NEW S, NEW s \in Seq(S), NEW e \in S
  PROVE  Last(Append(s, e)) = e /\ Front(Append(s, e)) = s
<1>1. /\ Append(s, e) \in Seq(S) /\ Len(Append(s, e)) = Len(s) + 1
      /\ \A i \in 1..Len(s) : Append(s, e)[i] = s[i]
      /\ Append(s, e)[Len(s) + 1] = e
  BY AppendProperties
<1>2. Len(s) \in Nat
  BY LenProperties
<1>3. SubSeq(Append(s, e), 1, Len(s)) = s
  BY <1>1, <1>2
<1>4. QED
  BY <1>1, <1>2, <1>3 DEF Last, Front

(* The bytes that were written are those that are read.                      *)
LEMMA SliceIs ==
  ASSUME NEW image, NEW s \in Seq(Byte), NEW offset \in Nat,
         Begins(image), Stands(s, offset, image), offset + Len(s) <= Len(file)
  PROVE  Slice(offset, Len(s)) = s
<1>1. Len(s) \in Nat /\ Len(file) \in Nat /\ s = [i \in 1..Len(s) |-> s[i]]
  BY LenProperties DEF Begins
<1>2. ASSUME NEW i \in 1..Len(s)
      PROVE  (IF offset + i <= Len(file) THEN file[offset + i] ELSE 0) = s[i]
  <2>1. offset + i \in 1..Len(file)
    BY <1>1
  <2>2. QED
    BY <1>1, <2>1 DEF Begins, Stands
<1>3. QED
  BY <1>1, <1>2 DEF Slice

(* A number is read as it was written.                                       *)
LEMMA NumberIs ==
  ASSUME NEW image, NEW r, NEW offset \in Nat, NEW got, NEW n, NEW w \in Nat,
         Begins(image), Fits(n, w), Stands(Bytes(n, w), offset, image),
         Reached(r, offset, got)
  PROVE  ReadNumber(r, w) = Expect(offset + w, Append(got, n))
<1>1. n \in Nat /\ Bytes(n, w) \in Seq(Byte) /\ Len(Bytes(n, w)) = w
  BY BytesAre DEF Fits
<1>2. Len(file) \in Nat
  BY LenProperties DEF Begins
<1>3. CASE ~(offset + w <= Len(file))
  <2>1. CASE r = Failed
    BY <1>3, <2>1 DEF ReadNumber, Failed, Expect
  <2>2. CASE r = [ok |-> TRUE, at |-> offset, got |-> got]
    BY <1>3, <2>2 DEF ReadNumber, InFile, Expect
  <2>3. QED
    BY <2>1, <2>2 DEF Reached
<1>4. CASE offset + w <= Len(file)
  <2>1. Slice(offset, w) = Bytes(n, w)
    BY <1>1, <1>4, SliceIs
  <2>2. Value(Slice(offset, w)) = n
    BY <2>1, ValueIs
  <2>3. r = [ok |-> TRUE, at |-> offset, got |-> got]
    BY <1>2, <1>4 DEF Reached
  <2>4. QED
    BY <1>4, <2>2, <2>3 DEF ReadNumber, InFile, Expect
<1>5. QED
  BY <1>3, <1>4

(* So is a text whose length was read before it.                             *)
LEMMA TextIs ==
  ASSUME NEW image, NEW r, NEW offset \in Nat, NEW got \in Seq(Fields), NEW s \in Texts,
         Begins(image), Stands(s, offset, image),
         Reached(r, offset, Append(got, Len(s)))
  PROVE  ReadText(r) = Expect(offset + Len(s), Append(got, s))
<1>1. s \in Seq(Byte) /\ IsText(s)
  BY DEF Texts, Byte
<1>2. Len(file) \in Nat /\ Len(s) \in Nat /\ Len(s) \in Fields
  BY <1>1, LenProperties DEF Begins, Fields
<1>3. Last(Append(got, Len(s))) = Len(s) /\ Front(Append(got, Len(s))) = got
  BY <1>2, LastAndFront
<1>4. CASE ~(offset + Len(s) <= Len(file))
  <2>1. CASE r = Failed
    BY <1>4, <2>1 DEF ReadText, Failed, Expect
  <2>2. CASE r = [ok |-> TRUE, at |-> offset, got |-> Append(got, Len(s))]
    BY <1>3, <1>4, <2>2 DEF ReadText, InFile, Expect
  <2>3. QED
    BY <2>1, <2>2 DEF Reached
<1>5. CASE offset + Len(s) <= Len(file)
  <2>1. Slice(offset, Len(s)) = s
    BY <1>1, <1>5, SliceIs
  <2>2. r = [ok |-> TRUE, at |-> offset, got |-> Append(got, Len(s))]
    BY <1>2, <1>5 DEF Reached
  <2>3. QED
    BY <1>1, <1>3, <1>5, <2>1, <2>2 DEF ReadText, InFile, Expect
<1>6. QED
  BY <1>4, <1>5

(* Arithmetic on offsets.                                                    *)
LEMMA TimesIs == ASSUME NEW a \in Nat, NEW b \in Nat PROVE a * b \in Nat
OBVIOUS

LEMMA PlacesAre ==
  ASSUME NEW offset \in Nat, NEW n \in Nat, NEW w \in Nat, NEW i \in 1..n
  PROVE  /\ (i - 1) * w \in Nat /\ offset + (i - 1) * w \in Nat
         /\ (offset + (i - 1) * w) + w <= offset + n * w
<1>1. i - 1 \in Nat /\ n - i \in Nat
  OBVIOUS
<1>2. (i - 1) * w \in Nat /\ (n - i) * w \in Nat
  BY <1>1, TimesIs
<1>3. n * w = (i - 1) * w + w + (n - i) * w
  OBVIOUS
<1>4. QED
  BY <1>2, <1>3

(* Numbers of a word each, one after the other.                              *)
LEMMA WordListIs ==
  ASSUME NEW ns \in Seq(Nat)
  PROVE  LET parts == [i \in DOMAIN ns |-> Bytes(ns[i], Word)]
         IN /\ parts \in Seq(Seq(Byte)) /\ Len(parts) = Len(ns)
            /\ \A k \in 0..Len(ns) : Len(Joined(parts)[k]) = k * Word
            /\ Words(ns) = Concat(parts) /\ Words(ns) \in Seq(Byte)
            /\ Len(Words(ns)) = Len(ns) * Word
<1> DEFINE n == Len(ns)
           parts == [i \in DOMAIN ns |-> Bytes(ns[i], Word)]
           j == Joined(parts)
<1>1. n \in Nat /\ DOMAIN ns = 1..n /\ \A i \in 1..n : ns[i] \in Nat
  BY LenProperties, ElementOfSeq
<1>2. Word \in Nat
  BY WidthAssumption
<1>3. \A i \in 1..n : Bytes(ns[i], Word) \in Seq(Byte) /\ Len(Bytes(ns[i], Word)) = Word
  BY <1>1, <1>2, BytesAre
<1>4. /\ parts \in [1..n -> Seq(Byte)] /\ \A i \in 1..n : parts[i] = Bytes(ns[i], Word)
  BY <1>1, <1>3
<1> HIDE DEF n, parts
<1>5. parts \in Seq(Seq(Byte)) /\ Len(parts) = n
  BY <1>1, <1>4
<1>6. /\ j \in [0..n -> Seq(Byte)] /\ j[0] = <<>>
      /\ \A k \in 1..n : j[k] = j[k - 1] \o parts[k]
  BY <1>5, JoinedIs
<1> HIDE DEF j
<1> DEFINE T == {k \in 0..n : Len(j[k]) = k * Word}
<1>7. \A k \in 0..n : k \in T
  <2>1. 0 \in T
    BY <1>1, <1>2, <1>6
  <2>2. ASSUME NEW k \in 0..(n - 1), k \in T PROVE k + 1 \in T
    <3>1. k + 1 \in 1..n /\ k \in 0..n /\ k + 1 \in 0..n /\ (k + 1) - 1 = k
      BY <1>1
    <3>2. /\ j[k + 1] = j[k] \o parts[k + 1] /\ j[k] \in Seq(Byte)
          /\ parts[k + 1] \in Seq(Byte) /\ Len(parts[k + 1]) = Word /\ Len(j[k]) = k * Word
      BY <1>3, <1>4, <1>6, <2>2, <3>1
    <3>3. Len(j[k + 1]) = Len(j[k]) + Len(parts[k + 1])
      BY <3>2, ConcatProperties
    <3>4. (k + 1) * Word = k * Word + Word
      BY <1>2
    <3>5. QED
      BY <3>1, <3>2, <3>3, <3>4
  <2> HIDE DEF T
  <2>3. QED
    BY <1>1, <2>1, <2>2, Climb
<1>8. n \in 0..n
  BY <1>1
<1>9. Words(ns) = Concat(parts) /\ Concat(parts) = j[n]
  BY <1>5 DEF Words, Concat, parts, j
<1>10. /\ parts \in Seq(Seq(Byte)) /\ Len(parts) = Len(ns)
       /\ \A k \in 0..Len(ns) : Len(j[k]) = k * Word
       /\ Words(ns) = Concat(parts) /\ Words(ns) \in Seq(Byte)
       /\ Len(Words(ns)) = Len(ns) * Word
  BY <1>5, <1>6, <1>7, <1>8, <1>9 DEF n
<1>11. QED
  BY <1>10 DEF parts, j

(* They are read back, if their number was read before them.                 *)
WordsStand(ns, r, offset, got, image) ==
  /\ Begins(image) /\ Reached(r, offset, Append(got, Len(ns)))
  /\ (\A i \in DOMAIN ns : Fits(ns[i], Word)) /\ Stands(Words(ns), offset, image)

WordsRead(ns, r, offset, got) ==
  ReadWords(r) = Expect(offset + Len(ns) * Word, Append(got, ns))

LEMMA WordsAreRead ==
  ASSUME NEW image, NEW r, NEW offset \in Nat, NEW got \in Seq(Fields), NEW ns \in Seq(Nat),
         WordsStand(ns, r, offset, got, image)
  PROVE  WordsRead(ns, r, offset, got)
<1>0. /\ Begins(image) /\ Reached(r, offset, Append(got, Len(ns)))
      /\ (\A i \in DOMAIN ns : Fits(ns[i], Word)) /\ Stands(Words(ns), offset, image)
  BY DEF WordsStand
<1> DEFINE n == Len(ns)
           parts == [i \in DOMAIN ns |-> Bytes(ns[i], Word)]
           j == Joined(parts)
<1>1. /\ n \in Nat /\ Len(file) \in Nat /\ n \in Fields /\ DOMAIN ns = 1..n
      /\ \A i \in 1..n : ns[i] \in Nat
  BY <1>0, LenProperties, ElementOfSeq DEF Begins, Fields
<1>2. Word \in Nat /\ n * Word \in Nat
  BY <1>1, WidthAssumption
<1>3. Last(Append(got, n)) = n /\ Front(Append(got, n)) = got
  BY <1>1, LastAndFront
<1>4. CASE ~(offset + n * Word <= Len(file))
  <2>1. CASE r = Failed
    BY <1>4, <2>1 DEF ReadWords, Failed, Expect, WordsRead
  <2>2. CASE r = [ok |-> TRUE, at |-> offset, got |-> Append(got, n)]
    BY <1>3, <1>4, <2>2 DEF ReadWords, InFile, Expect, WordsRead
  <2>3. QED
    BY <1>0, <2>1, <2>2 DEF Reached
<1>5. CASE offset + n * Word <= Len(file)
  <2> DEFINE m == n * Word
  <2>1. r = [ok |-> TRUE, at |-> offset, got |-> Append(got, n)]
    <3>1. m \in Nat /\ offset + m <= Len(file)
      BY <1>2, <1>5
    <3> HIDE DEF m
    <3>2. offset <= Len(file)
      BY <1>1, <3>1
    <3>3. QED
      BY <1>0, <3>2 DEF Reached
  <2>2. /\ parts \in Seq(Seq(Byte)) /\ Len(parts) = n
        /\ \A k \in 0..n : Len(j[k]) = k * Word
        /\ Words(ns) = Concat(parts)
    BY WordListIs
  <2>3. \A k \in 1..n : parts[k] = Bytes(ns[k], Word)
    BY <1>1
  <2>4. image \in Seq(Byte) /\ Stands(Concat(parts), offset, image)
    BY <1>0, <2>2 DEF Begins
  <2> HIDE DEF n, parts, j
  <2>5. \A k \in 1..n : Stands(parts[k], offset + Len(j[k - 1]), image)
    BY <2>2, <2>4, StandsInTurn DEF j
  <2>6. ASSUME NEW i \in 1..n
        PROVE  Value(Slice(offset + (i - 1) * Word, Word)) = ns[i]
    <3> DEFINE place == offset + (i - 1) * Word
    <3>1. i - 1 \in 0..n
      BY <1>1
    <3>2. place \in Nat /\ place + Word <= offset + n * Word
      BY <1>1, <1>2, PlacesAre
    <3>3. place + Word <= Len(file)
      <4> DEFINE end == offset + n * Word
      <4>1. end \in Nat /\ end <= Len(file) /\ place + Word <= end
        BY <1>2, <1>5, <3>2
      <4> HIDE DEF place, end
      <4>2. QED
        BY <1>1, <1>2, <3>2, <4>1
    <3>6. Stands(Bytes(ns[i], Word), place, image)
      BY <2>2, <2>3, <2>5, <3>1
    <3> HIDE DEF place
    <3>7. ns[i] \in Nat /\ Fits(ns[i], Word)
      BY <1>0, <1>1
    <3>8. Bytes(ns[i], Word) \in Seq(Byte) /\ Len(Bytes(ns[i], Word)) = Word
      BY <1>2, <3>7, BytesAre
    <3>9. Slice(place, Word) = Bytes(ns[i], Word)
      BY <1>0, <3>2, <3>3, <3>6, <3>8, SliceIs
    <3>10. Value(Slice(place, Word)) = ns[i]
      BY <1>2, <3>7, <3>9, ValueIs
    <3>11. QED
      BY <3>10 DEF place
  <2>7. ns = [i \in 1..n |-> ns[i]]
    BY <1>1
  <2>8. [i \in 1..n |-> Value(Slice(offset + (i - 1) * Word, Word))] = ns
    BY <2>6, <2>7
  <2>9. QED
    BY <1>3, <1>5, <2>1, <2>8 DEF ReadWords, InFile, Expect, n, WordsRead
<1>6. QED
  BY <1>4, <1>5 DEF WordsRead

(* A text with its length before it.                                         *)
LEMMA SizedTextIs ==
  ASSUME NEW s \in Texts, NEW w \in Nat
  PROVE  Bytes(Len(s), w) \o s \in Seq(Byte) /\ Len(Bytes(Len(s), w) \o s) = w + Len(s)
<1>1. s \in Seq(Byte) /\ Len(s) \in Nat
  BY LenProperties DEF Texts, Byte
<1>2. Bytes(Len(s), w) \in Seq(Byte) /\ Len(Bytes(Len(s), w)) = w
  BY <1>1, BytesAre
<1>3. QED
  BY <1>1, <1>2, ConcatProperties

SizedTextStands(s, w, r, offset, got, image) ==
  /\ Begins(image) /\ Reached(r, offset, got)
  /\ Fits(Len(s), w) /\ Stands(Bytes(Len(s), w) \o s, offset, image)

SizedTextRead(s, w, r, offset, got) ==
  ReadText(ReadNumber(r, w)) = Expect(offset + w + Len(s), Append(got, s))

LEMMA SizedTextIsRead ==
  ASSUME NEW image, NEW r, NEW offset \in Nat, NEW got \in Seq(Fields), NEW s \in Texts,
         NEW w \in Nat, SizedTextStands(s, w, r, offset, got, image)
  PROVE  SizedTextRead(s, w, r, offset, got)
<1>1. s \in Seq(Byte) /\ Len(s) \in Nat /\ image \in Seq(Byte)
  BY LenProperties DEF Texts, Byte, Begins, SizedTextStands
<1>2. Bytes(Len(s), w) \in Seq(Byte) /\ Len(Bytes(Len(s), w)) = w
  BY <1>1, BytesAre
<1>0. Begins(image) /\ Reached(r, offset, got) /\ Fits(Len(s), w)
      /\ Stands(Bytes(Len(s), w) \o s, offset, image)
  BY DEF SizedTextStands
<1>3. Stands(Bytes(Len(s), w), offset, image) /\ Stands(s, offset + w, image)
  BY <1>0, <1>1, <1>2, StandsApart
<1>4. ReadNumber(r, w) = Expect(offset + w, Append(got, Len(s)))
  BY <1>0, <1>3, NumberIs
<1>5. Reached(ReadNumber(r, w), offset + w, Append(got, Len(s)))
  BY <1>4, ExpectReaches
<1>6. offset + w \in Nat
  OBVIOUS
<1>7. QED
  BY <1>0, <1>3, <1>5, <1>6, TextIs DEF SizedTextRead

----------------------------------------------------------------------------
(* Reading a record: it is what was written, and ends where the next begins. *)

LEMMA FourJoin ==
  ASSUME NEW S, NEW a \in Seq(S), NEW b \in Seq(S), NEW c \in Seq(S), NEW d \in Seq(S)
  PROVE  /\ a \o b \in Seq(S) /\ a \o b \o c \in Seq(S) /\ a \o b \o c \o d \in Seq(S)
         /\ Len(a \o b) = Len(a) + Len(b) /\ Len(a \o b \o c) = Len(a) + Len(b) + Len(c)
         /\ Len(a \o b \o c \o d) = Len(a) + Len(b) + Len(c) + Len(d)
<1> DEFINE ab == a \o b
           abc == ab \o c
<1>1. ab \in Seq(S) /\ Len(ab) = Len(a) + Len(b)
  BY ConcatProperties
<1> HIDE DEF ab
<1>2. abc \in Seq(S) /\ Len(abc) = Len(ab) + Len(c)
  BY <1>1, ConcatProperties
<1> HIDE DEF abc
<1>3. abc \o d \in Seq(S) /\ Len(abc \o d) = Len(abc) + Len(d)
  BY <1>2, ConcatProperties
<1>4. QED
  BY <1>1, <1>2, <1>3 DEF ab, abc

FourJoined(a, b, c, d, S) ==
  /\ a \o b \o c \o d \in Seq(S)
  /\ Len(a \o b \o c \o d) = Len(a) + Len(b) + Len(c) + Len(d)

LEMMA FourJoinedIs ==
  ASSUME NEW S, NEW a \in Seq(S), NEW b \in Seq(S), NEW c \in Seq(S), NEW d \in Seq(S)
  PROVE  FourJoined(a, b, c, d, S)
<1> DEFINE abc == a \o b \o c
<1>1. abc \in Seq(S) /\ Len(abc) = Len(a) + Len(b) + Len(c)
  BY FourJoin
<1> HIDE DEF abc
<1>2. abc \o d \in Seq(S) /\ Len(abc \o d) = Len(abc) + Len(d)
  BY <1>1, ConcatProperties
<1>3. QED
  BY <1>1, <1>2 DEF abc, FourJoined

StandInRow(a, b, c, d, offset, image) ==
  /\ Stands(a, offset, image) /\ Stands(b, offset + Len(a), image)
  /\ Stands(c, offset + Len(a) + Len(b), image)
  /\ Stands(d, offset + Len(a) + Len(b) + Len(c), image)
  /\ Len(a \o b \o c \o d) = Len(a) + Len(b) + Len(c) + Len(d)

LEMMA FourStand ==
  ASSUME NEW S, NEW a \in Seq(S), NEW b \in Seq(S), NEW c \in Seq(S), NEW d \in Seq(S),
         NEW image \in Seq(S), NEW offset \in Nat, Stands(a \o b \o c \o d, offset, image)
  PROVE  StandInRow(a, b, c, d, offset, image)
<1> DEFINE ab == a \o b
           abc == ab \o c
<1>1. /\ ab \in Seq(S) /\ abc \in Seq(S) /\ Len(ab) = Len(a) + Len(b)
      /\ Len(abc) = Len(a) + Len(b) + Len(c)
      /\ Len(abc \o d) = Len(a) + Len(b) + Len(c) + Len(d)
  BY FourJoin
<1>2. Stands(abc \o d, offset, image)
  OBVIOUS
<1>3. Len(a) \in Nat /\ Len(b) \in Nat /\ Len(c) \in Nat
  BY LenProperties
<1> HIDE DEF abc
<1>4. Stands(abc, offset, image) /\ Stands(d, offset + Len(abc), image)
  BY <1>1, <1>2, StandsApart
<1>5. Stands(ab \o c, offset, image)
  BY <1>4 DEF abc
<1> HIDE DEF ab
<1>6. Stands(ab, offset, image) /\ Stands(c, offset + Len(ab), image)
  BY <1>1, <1>5, StandsApart
<1>7. Stands(a \o b, offset, image)
  BY <1>6 DEF ab
<1>8. Stands(a, offset, image) /\ Stands(b, offset + Len(a), image)
  BY <1>7, StandsApart
<1>9. /\ offset + Len(ab) = offset + Len(a) + Len(b)
      /\ offset + Len(abc) = offset + Len(a) + Len(b) + Len(c)
  BY <1>1, <1>3
<1>10. QED
  BY <1>1, <1>4, <1>6, <1>8, <1>9 DEF ab, abc, StandInRow

(* Tuples, one field after the other.                                        *)
Continues(t, s, e) ==
  Len(t) = Len(s) + 1 /\ t[Len(s) + 1] = e /\ \A i \in 1..Len(s) : t[i] = s[i]

LEMMA AppendIs ==
  ASSUME NEW S, NEW s \in Seq(S), NEW e \in S, NEW t \in Seq(S), Continues(t, s, e)
  PROVE  Append(s, e) = t
<1> DEFINE u == Append(s, e)
<1>1. /\ u \in Seq(S) /\ Len(u) = Len(s) + 1 /\ u[Len(s) + 1] = e
      /\ \A i \in 1..Len(s) : u[i] = s[i]
  BY AppendProperties
<1>2. Len(s) \in Nat
  BY LenProperties
<1> HIDE DEF u
<1>3. \A i \in 1..Len(u) : u[i] = t[i]
  <2> TAKE i \in 1..Len(u)
  <2>1. i \in 1..Len(s) \/ i = Len(s) + 1
    BY <1>1, <1>2
  <2>2. QED
    BY <1>1, <2>1 DEF Continues
<1>4. u = t
  BY <1>1, <1>3, SeqEqual DEF Continues
<1>5. QED
  BY <1>4 DEF u

GotInTurn(a, b, c, d) ==
  /\ Append(<<>>, a) = <<a>> /\ Append(<<a>>, b) = <<a, b>>
  /\ Append(<<a, b>>, c) = <<a, b, c>> /\ Append(<<a, b, c>>, d) = <<a, b, c, d>>

LEMMA GotAre ==
  ASSUME NEW S, NEW a \in S, NEW b \in S, NEW c \in S, NEW d \in S
  PROVE  /\ <<>> \in Seq(S) /\ <<a>> \in Seq(S) /\ <<a, b>> \in Seq(S)
         /\ <<a, b, c>> \in Seq(S) /\ <<a, b, c, d>> \in Seq(S)
         /\ Append(<<>>, a) = <<a>> /\ Append(<<a>>, b) = <<a, b>>
         /\ Append(<<a, b>>, c) = <<a, b, c>> /\ Append(<<a, b, c>>, d) = <<a, b, c, d>>
<1> DEFINE g0 == <<>>
           g1 == <<a>>
           g2 == <<a, b>>
           g3 == <<a, b, c>>
           g4 == <<a, b, c, d>>
<1>1. /\ g0 \in Seq(S) /\ g1 \in Seq(S) /\ g2 \in Seq(S) /\ g3 \in Seq(S) /\ g4 \in Seq(S)
      /\ Len(g0) = 0 /\ Len(g1) = 1 /\ Len(g2) = 2 /\ Len(g3) = 3 /\ Len(g4) = 4
  OBVIOUS
<1>2. /\ g1[1] = a /\ g2[1] = a /\ g3[1] = a /\ g4[1] = a /\ g2[2] = b /\ g3[2] = b
      /\ g4[2] = b /\ g3[3] = c /\ g4[3] = c /\ g4[4] = d
  OBVIOUS
<1> HIDE DEF g0, g1, g2, g3, g4
<1>3. Append(g0, a) = g1
  <2>1. Continues(g1, g0, a)
    BY <1>1, <1>2 DEF Continues
  <2>2. QED
    BY <1>1, <2>1, AppendIs
<1>4. Append(g1, b) = g2
  <2>1. Continues(g2, g1, b)
    BY <1>1, <1>2 DEF Continues
  <2>2. QED
    BY <1>1, <2>1, AppendIs
<1>5. Append(g2, c) = g3
  <2>1. Continues(g3, g2, c)
    BY <1>1, <1>2 DEF Continues
  <2>2. QED
    BY <1>1, <2>1, AppendIs
<1>6. Append(g3, d) = g4
  <2>1. Continues(g4, g3, d)
    BY <1>1, <1>2 DEF Continues
  <2>2. QED
    BY <1>1, <2>1, AppendIs
<1>7. QED
  BY <1>1, <1>3, <1>4, <1>5, <1>6 DEF g0, g1, g2, g3, g4

LEMMA PostingBytesAre ==
  ASSUME NEW p \in Postings
  PROVE  PostingBytes(p) \in Seq(Byte)
<1>1. p[1] \in Texts /\ p[2] \in Nat /\ p[3] \in Seq(Nat) /\ Len(p[3]) \in Nat
  BY LenProperties DEF Postings
<1>2. Short \in Nat /\ Word \in Nat
  BY WidthAssumption
<1>3. /\ ShortText(p[1]) \in Seq(Byte) /\ Bytes(p[2], Word) \in Seq(Byte)
      /\ Bytes(Len(p[3]), Word) \in Seq(Byte) /\ Words(p[3]) \in Seq(Byte)
  BY <1>1, <1>2, SizedTextIs, BytesAre, WordListIs DEF ShortText
<1> DEFINE a == ShortText(p[1])
           b == Bytes(p[2], Word)
           c == Bytes(Len(p[3]), Word)
           d == Words(p[3])
<1>4. PostingBytes(p) = a \o b \o c \o d
  BY DEF PostingBytes
<1> HIDE DEF a, b, c, d
<1>5. a \in Seq(Byte) /\ b \in Seq(Byte) /\ c \in Seq(Byte) /\ d \in Seq(Byte)
  BY <1>3 DEF a, b, c, d
<1>6. QED
  BY <1>4, <1>5, FourJoin

LEMMA PostingIsRead ==
  ASSUME NEW image, NEW offset \in Nat, NEW p \in Postings, Begins(image), PostingFits(p),
         Stands(PostingBytes(p), offset, image)
  PROVE  ReadPosting(offset) = Expect(offset + Len(PostingBytes(p)), p)
<1>1. PICK id \in Texts, n \in Nat, ns \in Seq(Nat) : p = <<id, n, ns>>
  BY DEF Postings
<1>2. Len(ns) \in Nat /\ Len(id) \in Nat /\ Short \in Nat /\ Word \in Nat /\ image \in Seq(Byte)
  BY LenProperties, WidthAssumption DEF Begins, Texts
<1> DEFINE a == ShortText(id)
           b == Bytes(n, Word)
           c == Bytes(Len(ns), Word)
           d == Words(ns)
           o1 == offset + Short + Len(id)
           o2 == o1 + Word
           o3 == o2 + Word
<1>3. /\ a \in Seq(Byte) /\ b \in Seq(Byte) /\ c \in Seq(Byte) /\ d \in Seq(Byte)
      /\ Len(a) = Short + Len(id) /\ Len(b) = Word /\ Len(c) = Word
      /\ Len(d) = Len(ns) * Word
  BY <1>2, SizedTextIs, BytesAre, WordListIs DEF ShortText
<1>4. PostingBytes(p) = a \o b \o c \o d
  BY <1>1 DEF PostingBytes
<1>5. /\ Fits(Len(id), Short) /\ Fits(n, Word) /\ Fits(Len(ns), Word)
      /\ \A i \in DOMAIN ns : Fits(ns[i], Word)
  BY <1>1 DEF PostingFits
<1>6. o1 \in Nat /\ o2 \in Nat /\ o3 \in Nat /\ Len(ns) * Word \in Nat
  BY <1>2, TimesIs
<1>7. /\ Stands(a, offset, image) /\ Stands(b, o1, image) /\ Stands(c, o2, image)
      /\ Stands(d, o3, image) /\ offset + Len(PostingBytes(p)) = o3 + Len(ns) * Word
  <2> HIDE DEF a, b, c, d
  <2>1. Stands(a \o b \o c \o d, offset, image)
    BY <1>4
  <2>2. /\ Stands(a, offset, image) /\ Stands(b, offset + Len(a), image)
        /\ Stands(c, offset + Len(a) + Len(b), image)
        /\ Stands(d, offset + Len(a) + Len(b) + Len(c), image)
        /\ Len(a \o b \o c \o d) = Len(a) + Len(b) + Len(c) + Len(d)
    <3>1. StandInRow(a, b, c, d, offset, image)
      BY <1>2, <1>3, <2>1, FourStand
    <3>2. QED
      BY <3>1 DEF StandInRow
  <2>3. /\ offset + Len(a) = o1 /\ offset + Len(a) + Len(b) = o2
        /\ offset + Len(a) + Len(b) + Len(c) = o3
        /\ offset + (Len(a) + Len(b) + Len(c) + Len(d)) = o3 + Len(d)
    <3> DEFINE m == Len(ns) * Word
    <3>1. m \in Nat /\ Len(d) = m
      BY <1>3, <1>6
    <3> HIDE DEF m
    <3>2. QED
      BY <1>2, <1>3, <3>1
  <2> HIDE DEF o1, o2, o3
  <2>4. QED
    BY <1>3, <1>4, <2>2, <2>3
<1> HIDE DEF o1, o2, o3
<1>8. id \in Fields /\ n \in Fields /\ ns \in Fields
  BY DEF Fields
<1> DEFINE g0 == <<>>
           g1 == <<id>>
           g2 == <<id, n>>
           r0 == At(offset)
<1>9. /\ g0 \in Seq(Fields) /\ g1 \in Seq(Fields) /\ g2 \in Seq(Fields)
      /\ Append(g0, id) = g1 /\ Append(g1, n) = g2 /\ Append(g2, ns) = p
  BY <1>1, <1>8, GotAre
<1>0. Reached(r0, offset, g0)
  BY AtReaches
<1> HIDE DEF g0, g1, g2, r0
<1> DEFINE r1 == ReadText(ReadNumber(r0, Short))
           r2 == ReadNumber(r1, Word)
           r3 == ReadNumber(r2, Word)
<1>10. r1 = Expect(o1, g1)
  <2>1. Stands(Bytes(Len(id), Short) \o id, offset, image)
    BY <1>7 DEF ShortText
  <2>2. SizedTextStands(id, Short, r0, offset, g0, image)
    BY <1>0, <1>5, <2>1 DEF SizedTextStands
  <2>3. SizedTextRead(id, Short, r0, offset, g0)
    BY <1>2, <1>9, <2>2, SizedTextIsRead
  <2>4. QED
    BY <1>9, <2>3 DEF o1, SizedTextRead
<1> HIDE DEF r1
<1>11. r2 = Expect(o2, g2)
  <2>1. Reached(r1, o1, g1)
    BY <1>10, ExpectReaches
  <2>2. r2 = Expect(o1 + Word, Append(g1, n))
    BY <1>2, <1>5, <1>6, <1>7, <2>1, NumberIs
  <2>3. QED
    BY <1>9, <2>2 DEF o2
<1> HIDE DEF r2
<1>12. r3 = Expect(o3, Append(g2, Len(ns)))
  <2>1. Reached(r2, o2, g2)
    BY <1>11, ExpectReaches
  <2>2. QED
    BY <1>2, <1>5, <1>6, <1>7, <2>1, NumberIs DEF o3
<1> HIDE DEF r3
<1>13. ReadWords(r3) = Expect(o3 + Len(ns) * Word, p)
  <2>1. Reached(r3, o3, Append(g2, Len(ns)))
    BY <1>12, ExpectReaches
  <2>2. WordsStand(ns, r3, o3, g2, image)
    BY <1>5, <1>7, <2>1 DEF WordsStand
  <2>3. WordsRead(ns, r3, o3, g2)
    BY <1>6, <1>9, <2>2, WordsAreRead
  <2>4. QED
    BY <1>9, <2>3 DEF WordsRead
<1>14. ReadPosting(offset) = ReadWords(r3)
  BY DEF ReadPosting, r0, r1, r2, r3
<1>15. QED
  BY <1>7, <1>13, <1>14

LEMMA DocBytesAre ==
  ASSUME NEW d \in StoredDocs
  PROVE  DocBytes(d) \in Seq(Byte)
<1>1. d[1] \in Texts /\ d[2] \in Nat /\ d[3] \in Texts /\ d[4] \in Texts
  BY DEF StoredDocs
<1>2. Short \in Nat /\ Word \in Nat
  BY WidthAssumption
<1> DEFINE a == ShortText(d[1])
           b == Bytes(d[2], Word)
           c == ShortText(d[3])
           e == LongText(d[4])
<1>3. a \in Seq(Byte) /\ b \in Seq(Byte) /\ c \in Seq(Byte) /\ e \in Seq(Byte)
  BY <1>1, <1>2, SizedTextIs, BytesAre DEF ShortText, LongText
<1>4. DocBytes(d) = a \o b \o c \o e
  BY DEF DocBytes
<1> HIDE DEF a, b, c, e
<1>5. QED
  BY <1>3, <1>4, FourJoin

LEMMA DocumentIsRead ==
  ASSUME NEW image, NEW offset \in Nat, NEW doc \in StoredDocs, Begins(image),
         DocumentFits(doc), Stands(DocBytes(doc), offset, image)
  PROVE  ReadDocument(offset) = Expect(offset + Len(DocBytes(doc)), doc)
<1>1. PICK id \in Texts, n \in Nat, title \in Texts, body \in Texts :
        doc = <<id, n, title, body>>
  BY DEF StoredDocs
<1>2. /\ Len(body) \in Nat /\ Len(title) \in Nat /\ Len(id) \in Nat
      /\ Short \in Nat /\ Word \in Nat /\ image \in Seq(Byte)
  BY LenProperties, WidthAssumption DEF Begins, Texts
<1> DEFINE a == ShortText(id)
           b == Bytes(n, Word)
           c == ShortText(title)
           d == LongText(body)
           o1 == offset + Short + Len(id)
           o2 == o1 + Word
           o3 == o2 + Short + Len(title)
           o4 == o3 + Word + Len(body)
<1>3. /\ a \in Seq(Byte) /\ b \in Seq(Byte) /\ c \in Seq(Byte) /\ d \in Seq(Byte)
      /\ Len(a) = Short + Len(id) /\ Len(b) = Word /\ Len(c) = Short + Len(title)
      /\ Len(d) = Word + Len(body)
  BY <1>2, SizedTextIs, BytesAre DEF ShortText, LongText
<1>4. DocBytes(doc) = a \o b \o c \o d
  BY <1>1 DEF DocBytes
<1>5. /\ Fits(Len(id), Short) /\ Fits(n, Word) /\ Fits(Len(title), Short)
      /\ Fits(Len(body), Word)
  BY <1>1 DEF DocumentFits
<1>6. o1 \in Nat /\ o2 \in Nat /\ o3 \in Nat /\ o4 \in Nat
  BY <1>2
<1>7. /\ Stands(a, offset, image) /\ Stands(b, o1, image) /\ Stands(c, o2, image)
      /\ Stands(d, o3, image) /\ offset + Len(DocBytes(doc)) = o4
  <2> HIDE DEF a, b, c, d
  <2>1. StandInRow(a, b, c, d, offset, image)
    BY <1>2, <1>3, <1>4, FourStand
  <2>2. /\ offset + Len(a) = o1 /\ offset + Len(a) + Len(b) = o2
        /\ offset + Len(a) + Len(b) + Len(c) = o3
        /\ offset + (Len(a) + Len(b) + Len(c) + Len(d)) = o4
    BY <1>2, <1>3
  <2> HIDE DEF o1, o2, o3, o4
  <2>3. QED
    BY <1>4, <2>1, <2>2 DEF StandInRow
<1> HIDE DEF o1, o2, o3, o4
<1>8. id \in Fields /\ n \in Fields /\ title \in Fields /\ body \in Fields
  BY DEF Fields
<1> DEFINE g0 == <<>>
           g1 == <<id>>
           g2 == <<id, n>>
           g3 == <<id, n, title>>
           r0 == At(offset)
<1>9. /\ g0 \in Seq(Fields) /\ g1 \in Seq(Fields) /\ g2 \in Seq(Fields) /\ g3 \in Seq(Fields)
      /\ Append(g0, id) = g1 /\ Append(g1, n) = g2 /\ Append(g2, title) = g3
      /\ Append(g3, body) = doc
  BY <1>1, <1>8, GotAre
<1>0. Reached(r0, offset, g0)
  BY AtReaches
<1> HIDE DEF g0, g1, g2, g3, r0
<1> DEFINE r1 == ReadText(ReadNumber(r0, Short))
           r2 == ReadNumber(r1, Word)
           r3 == ReadText(ReadNumber(r2, Short))
           r4 == ReadText(ReadNumber(r3, Word))
<1>10. r1 = Expect(o1, g1)
  <2>1. SizedTextStands(id, Short, r0, offset, g0, image)
    BY <1>0, <1>5, <1>7 DEF SizedTextStands, ShortText
  <2>2. SizedTextRead(id, Short, r0, offset, g0)
    BY <1>2, <1>9, <2>1, SizedTextIsRead
  <2>3. QED
    BY <1>9, <2>2 DEF o1, SizedTextRead
<1> HIDE DEF r1
<1>11. r2 = Expect(o2, g2)
  <2>1. Reached(r1, o1, g1)
    BY <1>10, ExpectReaches
  <2>2. r2 = Expect(o1 + Word, Append(g1, n))
    BY <1>2, <1>5, <1>6, <1>7, <2>1, NumberIs
  <2>3. QED
    BY <1>9, <2>2 DEF o2
<1> HIDE DEF r2
<1>12. r3 = Expect(o3, g3)
  <2>1. Reached(r2, o2, g2)
    BY <1>11, ExpectReaches
  <2>2. SizedTextStands(title, Short, r2, o2, g2, image)
    BY <1>5, <1>7, <2>1 DEF SizedTextStands, ShortText
  <2>3. SizedTextRead(title, Short, r2, o2, g2)
    BY <1>2, <1>6, <1>9, <2>2, SizedTextIsRead
  <2>4. QED
    BY <1>9, <2>3 DEF o3, SizedTextRead
<1> HIDE DEF r3
<1>13. r4 = Expect(o4, doc)
  <2>1. Reached(r3, o3, g3)
    BY <1>12, ExpectReaches
  <2>2. SizedTextStands(body, Word, r3, o3, g3, image)
    BY <1>5, <1>7, <2>1 DEF SizedTextStands, LongText
  <2>3. SizedTextRead(body, Word, r3, o3, g3)
    BY <1>2, <1>6, <1>9, <2>2, SizedTextIsRead
  <2>4. QED
    BY <1>9, <2>3 DEF o4, SizedTextRead
<1>14. ReadDocument(offset) = r4
  BY DEF ReadDocument, r0, r1, r2, r3
<1>15. QED
  BY <1>7, <1>13, <1>14

(* What is read where a number of any size was written.                      *)
LEMMA CutNumberIs ==
  ASSUME NEW image, NEW r, NEW offset \in Nat, NEW got, NEW n \in Nat, NEW w \in Nat,
         Begins(image), Stands(Bytes(n, w), offset, image), Reached(r, offset, got)
  PROVE  ReadNumber(r, w) = Expect(offset + w, Append(got, Value(Bytes(n, w))))
<1>1. Bytes(n, w) \in Seq(Byte) /\ Len(Bytes(n, w)) = w
  BY BytesAre
<1>2. Len(file) \in Nat
  BY LenProperties DEF Begins
<1>3. CASE ~(offset + w <= Len(file))
  <2>1. CASE r = Failed
    BY <1>3, <2>1 DEF ReadNumber, Failed, Expect
  <2>2. CASE r = [ok |-> TRUE, at |-> offset, got |-> got]
    BY <1>3, <2>2 DEF ReadNumber, InFile, Expect
  <2>3. QED
    BY <2>1, <2>2 DEF Reached
<1>4. CASE offset + w <= Len(file)
  <2>1. Slice(offset, w) = Bytes(n, w)
    BY <1>1, <1>4, SliceIs
  <2>2. r = [ok |-> TRUE, at |-> offset, got |-> got]
    BY <1>2, <1>4 DEF Reached
  <2>3. QED
    BY <1>4, <2>1, <2>2 DEF ReadNumber, InFile, Expect
<1>5. QED
  BY <1>3, <1>4

(* An entry of the dictionary: a term, an offset and a length, which no      *)
(* reader uses and which may be cut off.                                     *)
Entry(t, o, l) == ShortText(t) \o Bytes(o, Long) \o Bytes(l, Word)
Read(t, o, l) == <<t, o, Value(Bytes(l, Word))>>

LEMMA EntryBytesAre ==
  ASSUME NEW t \in Texts, NEW o \in Nat, NEW l \in Nat
  PROVE  Entry(t, o, l) \in Seq(Byte) /\ Len(Entry(t, o, l)) = EntrySize(t)
<1>1. Short \in Nat /\ Word \in Nat /\ Long \in Nat /\ Len(t) \in Nat
  BY LenProperties, WidthAssumption DEF Texts
<1> DEFINE a == ShortText(t)
           b == Bytes(o, Long)
           c == Bytes(l, Word)
<1>2. /\ a \in Seq(Byte) /\ b \in Seq(Byte) /\ c \in Seq(Byte)
      /\ Len(a) = Short + Len(t) /\ Len(b) = Long /\ Len(c) = Word
  BY <1>1, SizedTextIs, BytesAre DEF ShortText
<1>3. Entry(t, o, l) = a \o b \o c
  BY DEF Entry
<1> HIDE DEF a, b, c
<1>4. a \o b \o c \in Seq(Byte) /\ Len(a \o b \o c) = Len(a) + Len(b) + Len(c)
  BY <1>2, FourJoin
<1>5. QED
  BY <1>1, <1>2, <1>3, <1>4 DEF EntrySize

LEMMA EntryIsRead ==
  ASSUME NEW image, NEW offset \in Nat, NEW t \in Texts, NEW o, NEW l \in Nat,
         Begins(image), Fits(Len(t), Short), Fits(o, Long),
         Stands(Entry(t, o, l), offset, image)
  PROVE  ReadEntry(offset) = Expect(offset + Len(Entry(t, o, l)), Read(t, o, l))
<1>1. /\ Short \in Nat /\ Word \in Nat /\ Long \in Nat /\ Len(t) \in Nat /\ o \in Nat
      /\ image \in Seq(Byte)
  BY LenProperties, WidthAssumption DEF Texts, Fits, Begins
<1> DEFINE a == ShortText(t)
           b == Bytes(o, Long)
           c == Bytes(l, Word)
           o1 == offset + Short + Len(t)
           o2 == o1 + Long
           o3 == o2 + Word
           cut == Value(c)
<1>2. /\ a \in Seq(Byte) /\ b \in Seq(Byte) /\ c \in Seq(Byte)
      /\ Len(a) = Short + Len(t) /\ Len(b) = Long /\ Len(c) = Word
  BY <1>1, SizedTextIs, BytesAre DEF ShortText
<1>3. /\ o1 \in Nat /\ o2 \in Nat /\ o3 \in Nat
      /\ offset + Len(Entry(t, o, l)) = o3
  <2> DEFINE e == Entry(t, o, l)
  <2>1. Len(e) = Short + Len(t) + Long + Word
    BY <1>1, EntryBytesAre DEF EntrySize
  <2> HIDE DEF e
  <2>2. /\ o1 \in Nat /\ o2 \in Nat /\ o3 \in Nat /\ offset + Len(e) = o3
    BY <1>1, <2>1
  <2>3. QED
    BY <2>2 DEF e
<1>4. Stands(a, offset, image) /\ Stands(b, o1, image) /\ Stands(c, o2, image)
  <2>1. Stands(a \o b \o c, offset, image)
    BY DEF Entry
  <2> DEFINE ab == a \o b
  <2>2. ab \in Seq(Byte) /\ Len(ab) = Len(a) + Len(b)
    <3> HIDE DEF a, b
    <3>1. QED
      BY <1>2, ConcatProperties
  <2>3. offset + Len(ab) = o2 /\ offset + Len(a) = o1
    <3> HIDE DEF a, b, ab
    <3>1. QED
      BY <1>1, <1>2, <2>2
  <2>4. Stands(ab \o c, offset, image)
    BY <2>1
  <2> HIDE DEF a, b, c, ab, o1, o2
  <2>5. Stands(ab, offset, image) /\ Stands(c, o2, image)
    BY <1>1, <1>2, <2>2, <2>3, <2>4, StandsApart
  <2>6. Stands(a \o b, offset, image)
    BY <2>5 DEF ab
  <2>7. Stands(a, offset, image) /\ Stands(b, o1, image)
    BY <1>1, <1>2, <2>3, <2>6, StandsApart
  <2>8. QED
    BY <2>5, <2>7
<1> HIDE DEF o1, o2, o3
<1> DEFINE g0 == <<>>
           g1 == <<t>>
           g2 == <<t, o>>
           r0 == At(offset)
<1>5. t \in Fields /\ o \in Fields
  BY <1>1 DEF Fields
<1>6. g0 \in Seq(Fields) /\ Append(g0, t) = g1
  BY <1>5, GotAre
<1>7. Append(g1, o) = g2 /\ Append(g2, cut) = Read(t, o, l)
  <2> DEFINE S == Fields \cup {cut}
  <2>1. t \in S /\ o \in S /\ cut \in S
    BY <1>5
  <2> HIDE DEF S, cut
  <2>2. GotInTurn(t, o, cut, cut)
    BY <2>1, GotAre DEF GotInTurn
  <2>3. QED
    BY <2>2 DEF GotInTurn, Read, cut
<1>0. Reached(r0, offset, g0)
  BY AtReaches
<1> HIDE DEF g0, g1, g2, r0
<1> DEFINE r1 == ReadText(ReadNumber(r0, Short))
           r2 == ReadNumber(r1, Long)
           r3 == ReadNumber(r2, Word)
<1>10. r1 = Expect(o1, g1)
  <2>1. SizedTextStands(t, Short, r0, offset, g0, image)
    BY <1>0, <1>4 DEF SizedTextStands, ShortText
  <2>2. SizedTextRead(t, Short, r0, offset, g0)
    BY <1>1, <1>6, <2>1, SizedTextIsRead
  <2>3. QED
    BY <1>6, <2>2 DEF o1, SizedTextRead
<1> HIDE DEF r1
<1>11. r2 = Expect(o2, g2)
  <2>1. Reached(r1, o1, g1)
    BY <1>10, ExpectReaches
  <2>2. r2 = Expect(o1 + Long, Append(g1, o))
    BY <1>1, <1>3, <1>4, <2>1, NumberIs
  <2>3. QED
    BY <1>7, <2>2 DEF o2
<1> HIDE DEF r2
<1>12. r3 = Expect(o3, Read(t, o, l))
  <2>1. Reached(r2, o2, g2)
    BY <1>11, ExpectReaches
  <2>2. r3 = Expect(o2 + Word, Append(g2, cut))
    BY <1>1, <1>3, <1>4, <2>1, CutNumberIs
  <2>3. QED
    BY <1>7, <2>2 DEF o3
<1>13. ReadEntry(offset) = r3
  BY DEF ReadEntry, r0, r1, r2
<1>14. QED
  BY <1>3, <1>12, <1>13

----------------------------------------------------------------------------
(* Reading several records, one after the other.                             *)

(* Each record would be read where its bytes are.                            *)
RecordsStand(kind, parts, gots, offset, image) ==
  /\ Begins(image) /\ Len(gots) = Len(parts) /\ Stands(Concat(parts), offset, image)
  /\ \A k \in 1..Len(parts), o \in Nat :
       Stands(parts[k], o, image) =>
         ReadRecord(kind, o) = Expect(o + Len(parts[k]), gots[k])
RecordsRead(kind, parts, gots, offset) ==
  IF gots = <<>> THEN ReadRecords(kind, offset, 0) = At(offset)
  ELSE ReadRecords(kind, offset, Len(gots)) = Expect(offset + Len(Concat(parts)), gots)

ThenStands(kind, r, at, len, got, what) ==
  Reached(r, at, got) /\ ReadRecord(kind, at) = Expect(at + len, what)
ThenRead(kind, r, at, len, got, what) ==
  Then(r, ReadRecord(kind, r.at)) = Expect(at + len, Append(got, what))

LEMMA ThenIs ==
  ASSUME NEW kind, NEW at \in Nat, NEW len \in Nat, NEW r, NEW got, NEW what,
         Len(file) \in Nat, ThenStands(kind, r, at, len, got, what)
  PROVE  ThenRead(kind, r, at, len, got, what)
<1> DEFINE next == at + len
<1>1. next \in Nat /\ at <= next
  OBVIOUS
<1>2. ReadRecord(kind, at) = Expect(next, what) /\ Reached(r, at, got)
  BY DEF ThenStands
<1> HIDE DEF next
<1>3. CASE r = Failed /\ ~(at <= Len(file))
  <2>1. ~(next <= Len(file))
    BY <1>1, <1>3
  <2>2. ~r.ok
    BY <1>3 DEF Failed
  <2>3. QED
    BY <2>1, <2>2 DEF Then, Expect, next, ThenRead
<1>4. CASE r = [ok |-> TRUE, at |-> at, got |-> got]
  <2>1. r.ok /\ r.at = at /\ r.got = got
    BY <1>4
  <2>2. ReadRecord(kind, r.at) = Expect(next, what)
    BY <1>2, <2>1
  <2>3. Then(r, Expect(next, what)) = Expect(next, Append(got, what))
    <3>1. CASE next <= Len(file)
      BY <2>1, <3>1 DEF Expect, Then
    <3>2. CASE ~(next <= Len(file))
      BY <3>2 DEF Expect, Then, Failed
    <3>3. QED
      BY <3>1, <3>2
  <2>4. QED
    BY <2>2, <2>3 DEF next, ThenRead
<1>5. QED
  BY <1>2, <1>3, <1>4 DEF Reached

(* The first k of what is read.                                              *)
LEMMA FirstAre ==
  ASSUME NEW s, NEW S, s \in Seq(S)
  PROVE  /\ SubSeq(s, 1, 0) = <<>> /\ SubSeq(s, 1, Len(s)) = s
         /\ \A k \in 1..Len(s) : SubSeq(s, 1, k) = Append(SubSeq(s, 1, k - 1), s[k])
<1>1. SubSeq(s, 1, 0) = <<>> /\ SubSeq(s, 1, Len(s)) = s
  OBVIOUS
<1>2. ASSUME NEW k \in 1..Len(s)
      PROVE  SubSeq(s, 1, k) = Append(SubSeq(s, 1, k - 1), s[k])
  <2> DEFINE a == SubSeq(s, 1, k - 1)
             t == SubSeq(s, 1, k)
  <2>1. /\ a \in Seq(S) /\ Len(a) = k - 1 /\ t \in Seq(S) /\ Len(t) = k
        /\ (\A i \in 1..k - 1 : a[i] = s[i]) /\ \A i \in 1..k : t[i] = s[i]
    OBVIOUS
  <2>2. s[k] \in S
    BY ElementOfSeq
  <2> HIDE DEF a, t
  <2>3. Continues(t, a, s[k])
    <3>1. Len(t) = Len(a) + 1 /\ t[Len(a) + 1] = s[k]
      BY <2>1
    <3>2. \A i \in 1..Len(a) : t[i] = a[i]
      BY <2>1
    <3>3. QED
      BY <3>1, <3>2 DEF Continues
  <2>4. Append(a, s[k]) = t
    BY <2>1, <2>2, <2>3, AppendIs
  <2>5. QED
    BY <2>4 DEF a, t
<1>3. QED
  BY <1>1, <1>2

LEMMA RecordsAreRead ==
  ASSUME NEW image, NEW kind, NEW parts \in Seq(Seq(Byte)), NEW G, NEW gots \in Seq(G),
         NEW offset \in Nat, RecordsStand(kind, parts, gots, offset, image)
  PROVE  RecordsRead(kind, parts, gots, offset)
<1>0. /\ Begins(image) /\ Len(gots) = Len(parts) /\ Stands(Concat(parts), offset, image)
      /\ \A k \in 1..Len(parts), o \in Nat :
           Stands(parts[k], o, image) =>
             ReadRecord(kind, o) = Expect(o + Len(parts[k]), gots[k])
  BY DEF RecordsStand
<1> DEFINE n == Len(parts)
           j == Joined(parts)
           first(k) == SubSeq(gots, 1, k)
           e == [k \in 0..n |-> IF k = 0 THEN At(offset)
                                ELSE Expect(offset + Len(j[k]), first(k))]
           read == CHOOSE read : read = [k \in 0..n |->
                     IF k = 0 THEN At(offset)
                     ELSE Then(read[k - 1], ReadRecord(kind, read[k - 1].at))]
<1>1. n \in Nat /\ Len(file) \in Nat /\ image \in Seq(Byte)
  BY <1>0, LenProperties DEF Begins
<1>2. j \in [0..n -> Seq(Byte)] /\ j[0] = <<>>
  BY JoinedIs
<1>3. \A k \in 1..n : /\ Stands(parts[k], offset + Len(j[k - 1]), image)
                      /\ Len(j[k]) = Len(j[k - 1]) + Len(parts[k])
  BY <1>0, <1>1, StandsInTurn
<1>4. \A k \in 1..n : parts[k] \in Seq(Byte) /\ Len(parts[k]) \in Nat
  BY ElementOfSeq, LenProperties
<1>5. first(0) = <<>> /\ first(n) = gots /\ \A k \in 1..n : first(k) = Append(first(k - 1), gots[k])
  BY <1>0, FirstAre
<1>6. \A k \in 0..n : Len(j[k]) \in Nat
  BY <1>2, LenProperties
<1>7. Concat(parts) = j[n]
  BY DEF Concat
<1>8. ReadRecords(kind, offset, n) = read[n]
  BY DEF ReadRecords
<1> HIDE DEF n, j, first
<1>9. \A k \in 0..n : Reached(e[k], offset + Len(j[k]), first(k))
  <2> TAKE k \in 0..n
  <2>1. CASE k = 0
    <3>1. e[k] = At(offset)
      BY <2>1
    <3>2. first(k) = <<>>
      BY <1>5, <2>1
    <3>3. Len(j[k]) = 0
      BY <1>2, <2>1
    <3> HIDE DEF e
    <3>4. offset + Len(j[k]) = offset
      BY <3>3
    <3>5. QED
      BY <3>1, <3>2, <3>4, AtReaches
  <2>2. CASE k # 0
    BY <2>2, ExpectReaches
  <2>3. QED
    BY <2>1, <2>2
<1>10. ASSUME NEW k \in 1..n
       PROVE  e[k] = Then(e[k - 1], ReadRecord(kind, e[k - 1].at))
  <2> DEFINE at == offset + Len(j[k - 1])
             r == e[k - 1]
             len == Len(parts[k])
  <2>1. k - 1 \in 0..n /\ k \in 0..n /\ k # 0
    BY <1>1
  <2>2. at \in Nat /\ len \in Nat /\ offset + Len(j[k]) = at + len
    <3>1. Len(j[k - 1]) \in Nat
      BY <1>6, <2>1
    <3>2. len \in Nat
      BY <1>4
    <3>3. Len(j[k]) = Len(j[k - 1]) + len
      BY <1>3
    <3> HIDE DEF len
    <3>4. QED
      BY <3>1, <3>2, <3>3
  <2>3. ReadRecord(kind, at) = Expect(at + len, gots[k])
    BY <1>0, <1>3, <2>2 DEF n
  <2>4. Reached(r, at, first(k - 1))
    BY <1>9, <2>1
  <2>5. e[k] = Expect(offset + Len(j[k]), first(k))
    BY <2>1
  <2> HIDE DEF e, at, r, len
  <2> DEFINE got == first(k - 1)
             what == gots[k]
  <2>6. ThenStands(kind, r, at, len, got, what)
    BY <2>3, <2>4 DEF ThenStands
  <2> HIDE DEF got, what
  <2>7. ThenRead(kind, r, at, len, got, what)
    BY <1>1, <2>2, <2>6, ThenIs
  <2>8. Append(got, what) = first(k)
    BY <1>5 DEF got, what
  <2>9. QED
    BY <2>2, <2>5, <2>7, <2>8 DEF r, ThenRead
<1>11. e[0] = At(offset) /\ e = [k \in 0..n |-> e[k]]
  BY <1>1
<1>12. e[n] = IF n = 0 THEN At(offset) ELSE Expect(offset + Len(j[n]), first(n))
  BY <1>1
<1> HIDE DEF e
<1>13. \A k \in 0..n : e[k] = IF k = 0 THEN At(offset)
                              ELSE Then(e[k - 1], ReadRecord(kind, e[k - 1].at))
  <2> TAKE k \in 0..n
  <2>1. k = 0 \/ k \in 1..n
    BY <1>1
  <2>2. CASE k = 0
    BY <1>11, <2>2, Zenon
  <2>3. CASE k # 0
    BY <1>10, <2>1, <2>3, Zenon
  <2>4. QED
    BY <2>2, <2>3
<1>14. e = [k \in 0..n |-> IF k = 0 THEN At(offset)
                           ELSE Then(e[k - 1], ReadRecord(kind, e[k - 1].at))]
  BY <1>11, <1>13, Zenon
<1>15. read = [k \in 0..n |-> IF k = 0 THEN At(offset)
                              ELSE Then(read[k - 1], ReadRecord(kind, read[k - 1].at))]
  BY <1>14, Zenon
<1> HIDE DEF read
<1>16. \A k \in 0..n : read[k] = IF k = 0 THEN At(offset)
                                 ELSE Then(read[k - 1], ReadRecord(kind, read[k - 1].at))
  BY <1>15, Zenon
<1> DEFINE T == {k \in 0..n : read[k] = e[k]}
<1>17. \A k \in 0..n : k \in T
  <2>1. 0 \in T
    <3>1. 0 \in 0..n
      BY <1>1
    <3>2. QED
      BY <1>13, <1>16, <3>1, Zenon
  <2>2. ASSUME NEW k \in 0..(n - 1), k \in T PROVE k + 1 \in T
    <3>1. k + 1 \in 0..n /\ (k + 1) - 1 = k /\ k + 1 # 0 /\ read[k] = e[k]
      BY <1>1, <2>2
    <3> DEFINE l == k + 1
    <3>2. l \in 0..n /\ l # 0 /\ read[l - 1] = e[l - 1]
      BY <3>1
    <3> HIDE DEF l
    <3>3. read[l] = e[l]
      BY <1>13, <1>16, <3>2, Zenon
    <3>4. QED
      BY <3>2, <3>3 DEF l
  <2> HIDE DEF T
  <2>3. QED
    BY <1>1, <2>1, <2>2, Climb
<1>18. read[n] = IF n = 0 THEN At(offset) ELSE Expect(offset + Len(j[n]), first(n))
  <2>1. n \in 0..n
    BY <1>1
  <2>2. QED
    BY <1>12, <1>17, <2>1, Zenon
<1>19. CASE gots = <<>>
  <2>1. n = 0
    BY <1>0, <1>19 DEF n
  <2>2. QED
    BY <1>8, <1>18, <1>19, <2>1 DEF RecordsRead
<1>20. CASE gots # <<>>
  <2>1. n # 0 /\ n = Len(gots)
    BY <1>0, <1>20, EmptySeq DEF n
  <2>2. QED
    BY <1>5, <1>7, <1>8, <1>18, <1>20, <2>1 DEF RecordsRead
<1>21. QED
  BY <1>19, <1>20

(* The postings of a term: how many they are, and each of them.              *)
PostingParts(list) == [i \in DOMAIN list |-> PostingBytes(list[i])]

LEMMA PostingPartsAre ==
  ASSUME NEW list \in Seq(Postings)
  PROVE  /\ PostingParts(list) \in Seq(Seq(Byte)) /\ Len(PostingParts(list)) = Len(list)
         /\ \A k \in 1..Len(list) : PostingParts(list)[k] = PostingBytes(list[k])
         /\ PostingsBytes(list) = Bytes(Len(list), Word) \o Concat(PostingParts(list))
         /\ PostingsBytes(list) \in Seq(Byte)
<1> DEFINE n == Len(list)
           parts == PostingParts(list)
           b == Bytes(n, Word)
<1>1. n \in Nat /\ DOMAIN list = 1..n /\ \A k \in 1..n : list[k] \in Postings
  BY LenProperties, ElementOfSeq
<1>2. parts \in [1..n -> Seq(Byte)] /\ \A k \in 1..n : parts[k] = PostingBytes(list[k])
  BY <1>1, PostingBytesAre DEF PostingParts
<1> HIDE DEF parts
<1>3. parts \in Seq(Seq(Byte)) /\ Len(parts) = n
  BY <1>1, <1>2
<1>4. PostingsBytes(list) = b \o Concat(parts)
  BY DEF PostingsBytes, parts, PostingParts
<1>5. b \in Seq(Byte) /\ Concat(parts) \in Seq(Byte)
  BY <1>1, <1>3, WidthAssumption, BytesAre, ConcatIs
<1> HIDE DEF b
<1>6. PostingsBytes(list) \in Seq(Byte)
  BY <1>4, <1>5, ConcatProperties
<1>7. QED
  BY <1>2, <1>3, <1>4, <1>6 DEF parts, b

ListRead(list, offset) ==
  LET r == ReadPostings(offset) IN r.ok /\ r.got = list

LEMMA PostingsAreRead ==
  ASSUME NEW image, NEW offset \in Nat, NEW list \in Seq(Postings), Begins(image),
         ListFits(list), Stands(PostingsBytes(list), offset, image), Len(file) = Len(image)
  PROVE  ListRead(list, offset)
<1> DEFINE n == Len(list)
           parts == PostingParts(list)
           b == Bytes(n, Word)
           rest == Concat(parts)
           start == offset + Word
<1>1. n \in Nat /\ Word \in Nat /\ image \in Seq(Byte) /\ Len(image) \in Nat
  BY LenProperties, WidthAssumption DEF Begins
<1>2. /\ parts \in Seq(Seq(Byte)) /\ Len(parts) = n
      /\ \A k \in 1..n : parts[k] = PostingBytes(list[k])
      /\ PostingsBytes(list) = b \o rest
  BY PostingPartsAre
<1>3. b \in Seq(Byte) /\ Len(b) = Word /\ rest \in Seq(Byte) /\ Len(rest) \in Nat
  BY <1>1, <1>2, BytesAre, ConcatIs, LenProperties
<1>4. Stands(b, offset, image) /\ Stands(rest, start, image)
  <2> HIDE DEF b, rest
  <2>1. Stands(b \o rest, offset, image)
    BY <1>2
  <2>2. QED
    BY <1>1, <1>3, <2>1, StandsApart
<1>5. start \in Nat /\ start <= Len(file) /\ start + Len(rest) <= Len(file)
  <2> HIDE DEF b, rest
  <2>1. QED
    BY <1>1, <1>3, <1>4 DEF Stands
<1>6. ReadNumber(At(offset), Word) = [ok |-> TRUE, at |-> start, got |-> <<n>>]
  <2>1. Fits(n, Word)
    BY DEF ListFits
  <2> DEFINE r0 == At(offset)
             g0 == <<>>
  <2>2. Reached(r0, offset, g0)
    BY AtReaches
  <2>3. Append(g0, n) = <<n>>
    OBVIOUS
  <2> HIDE DEF r0, g0, n
  <2>4. ReadNumber(r0, Word) = Expect(offset + Word, Append(g0, n))
    BY <1>1, <1>4, <2>1, <2>2, NumberIs
  <2>5. QED
    BY <1>5, <2>3, <2>4 DEF Expect, r0
<1>7. RecordsStand("posting", parts, list, start, image)
  <2>1. ASSUME NEW k \in 1..n, NEW o \in Nat, Stands(parts[k], o, image)
        PROVE  ReadRecord("posting", o) = Expect(o + Len(parts[k]), list[k])
    <3>0. k \in DOMAIN list /\ list[k] \in Postings
      BY ElementOfSeq
    <3>1. list[k] \in Postings /\ PostingFits(list[k]) /\ parts[k] = PostingBytes(list[k])
      BY <1>2, <3>0 DEF ListFits
    <3>2. ReadPosting(o) = Expect(o + Len(parts[k]), list[k])
      BY <2>1, <3>1, PostingIsRead
    <3>3. QED
      BY <3>2 DEF ReadRecord
  <2> HIDE DEF n, parts
  <2>2. QED
    BY <1>2, <1>4, <2>1 DEF RecordsStand, n
<1>8. RecordsRead("posting", parts, list, start)
  BY <1>2, <1>5, <1>7, RecordsAreRead
<1>9. ReadPostings(offset) = ReadRecords("posting", start, n)
  BY <1>6 DEF ReadPostings
<1>10. CASE list = <<>>
  <2>1. n = 0
    BY <1>10
  <2>2. ReadPostings(offset) = At(start)
    BY <1>8, <1>9, <1>10, <2>1 DEF RecordsRead
  <2>3. QED
    BY <1>10, <2>2 DEF ListRead, At
<1>11. CASE list # <<>>
  <2> HIDE DEF rest, start, n, parts
  <2>1. ReadPostings(offset) = Expect(start + Len(rest), list)
    BY <1>8, <1>9, <1>11 DEF RecordsRead, n, rest
  <2>2. QED
    BY <1>5, <2>1 DEF ListRead, Expect
<1>12. QED
  BY <1>10, <1>11

(* The documents.                                                            *)
LEMMA DocsSectionIs ==
  ASSUME IndexOK
  PROVE  /\ DocsSection \in Seq(Seq(Byte)) /\ Len(DocsSection) = Len(index.docs)
         /\ Len(index.docs) \in Nat
         /\ \A k \in 1..Len(index.docs) : DocsSection[k] = DocBytes(index.docs[k])
<1> DEFINE docs == index.docs
           n == Len(docs)
           parts == DocsSection
<1>1. docs \in Seq(StoredDocs)
  BY DEF IndexOK
<1> HIDE DEF docs
<1>2. n \in Nat /\ DOMAIN docs = 1..n /\ \A k \in 1..n : docs[k] \in StoredDocs
  BY <1>1, LenProperties, ElementOfSeq
<1>3. parts = [i \in 1..n |-> DocBytes(docs[i])]
  BY <1>2 DEF DocsSection, docs
<1> HIDE DEF parts
<1>4. parts \in [1..n -> Seq(Byte)] /\ \A k \in 1..n : parts[k] = DocBytes(docs[k])
  BY <1>2, <1>3, DocBytesAre
<1>5. parts \in Seq(Seq(Byte)) /\ Len(parts) = n
  BY <1>2, <1>4
<1>6. QED
  BY <1>2, <1>4, <1>5 DEF docs, parts

LEMMA DocumentsAreRead ==
  ASSUME NEW image, NEW offset \in Nat, IndexOK, AllFit, index.docs # <<>>, Begins(image),
         Stands(Concat(DocsSection), offset, image)
  PROVE  ReadRecords("document", offset, Len(index.docs))
           = Expect(offset + Len(Concat(DocsSection)), index.docs)
<1> DEFINE docs == index.docs
           n == Len(docs)
           parts == DocsSection
<1>1. /\ parts \in Seq(Seq(Byte)) /\ Len(parts) = n
      /\ \A k \in 1..n : parts[k] = DocBytes(docs[k])
  BY DocsSectionIs
<1>2. docs \in Seq(StoredDocs) /\ DOMAIN docs = 1..n
  BY DEF IndexOK
<1>3. \A k \in 1..n : docs[k] \in StoredDocs /\ DocumentFits(docs[k])
  BY <1>2, ElementOfSeq DEF AllFit
<1> HIDE DEF docs, parts
<1>4. ASSUME NEW k \in 1..n, NEW o \in Nat, Stands(parts[k], o, image)
      PROVE  ReadRecord("document", o) = Expect(o + Len(parts[k]), docs[k])
  <2>1. ReadDocument(o) = Expect(o + Len(parts[k]), docs[k])
    BY <1>1, <1>3, <1>4, DocumentIsRead
  <2>2. QED
    BY <2>1 DEF ReadRecord
<1>5. RecordsStand("document", parts, docs, offset, image)
  BY <1>1, <1>4 DEF RecordsStand, parts
<1>6. RecordsRead("document", parts, docs, offset)
  BY <1>1, <1>2, <1>5, RecordsAreRead
<1>7. QED
  BY <1>6 DEF RecordsRead, docs, parts

----------------------------------------------------------------------------
(* Where the parts of a segment are.                                         *)

LEMMA SmallerIs ==
  ASSUME NEW m \in Nat, NEW n \in Nat, m <= n, NEW b \in Nat \ {0}
  PROVE  m \div b <= n \div b
<1> DEFINE x == m \div b
           y == n \div b
<1>1. /\ x \in Nat /\ y \in Nat /\ m % b \in 0..b - 1 /\ n % b \in 0..b - 1
      /\ x * b + (m % b) = m /\ y * b + (n % b) = n
  BY DigitsAre
<1> DEFINE r == m % b
           s == n % b
<1>2. r \in Nat /\ s \in Nat /\ s < b /\ x * b + r = m /\ y * b + s = n
  BY <1>1
<1> HIDE DEF x, y, r, s
<1>3. ASSUME ~(x <= y) PROVE FALSE
  <2>1. x - y - 1 \in Nat /\ x = (x - y - 1) + y + 1
    BY <1>1, <1>3
  <2> DEFINE z == x - y - 1
  <2>2. z * b \in Nat
    BY <2>1, TimesIs
  <2>3. x * b = z * b + y * b + b
    BY <1>1, <2>1
  <2> HIDE DEF z
  <2>4. y * b \in Nat /\ x * b \in Nat
    BY <1>1, TimesIs
  <2>5. QED
    BY <1>2, <2>2, <2>3, <2>4
<1>4. QED
  BY <1>3 DEF x, y

(* What is less than a number that fits a field, fits it.                    *)
LEMMA FitsBelow ==
  ASSUME NEW m \in Nat, NEW n \in Nat, m <= n, NEW w \in Nat, Fits(n, w)
  PROVE  Fits(m, w)
<1> DEFINE r == Rest(m, w)
           s == Rest(n, w)
<1>1. /\ r \in [0..w -> Nat] /\ r[0] = m /\ \A k \in 1..w : r[k] = r[k - 1] \div Base
      /\ s \in [0..w -> Nat] /\ s[0] = n /\ \A k \in 1..w : s[k] = s[k - 1] \div Base
  BY RestIs
<1>2. s[w] = 0
  BY DEF Fits
<1> HIDE DEF r, s
<1> DEFINE T == {k \in 0..w : r[k] <= s[k]}
<1>3. \A k \in 0..w : k \in T
  <2>1. 0 \in T
    BY <1>1
  <2>2. ASSUME NEW k \in 0..(w - 1), k \in T PROVE k + 1 \in T
    <3>1. k + 1 \in 1..w /\ k + 1 \in 0..w /\ (k + 1) - 1 = k /\ k \in 0..w /\ r[k] <= s[k]
      BY <2>2
    <3>2. r[k] \div Base <= s[k] \div Base
      <4>1. r[k] \in Nat /\ s[k] \in Nat /\ Base \in Nat \ {0}
        BY <1>1, <3>1, WidthAssumption
      <4>2. QED
        BY <3>1, <4>1, SmallerIs
    <3>3. r[k + 1] = r[k] \div Base /\ s[k + 1] = s[k] \div Base
      BY <1>1, <3>1
    <3>4. QED
      BY <3>1, <3>2, <3>3
  <2> HIDE DEF T
  <2>3. QED
    BY <2>1, <2>2, Climb
<1>4. r[w] = 0
  <2>1. w \in 0..w /\ r[w] \in Nat
    BY <1>1
  <2>2. r[w] <= 0
    BY <1>2, <1>3, <2>1
  <2>3. QED
    BY <2>1, <2>2
<1>5. QED
  BY <1>4 DEF Fits, r

(* The parts of the first k, and of all.                                     *)
LEMMA JoinedGrows ==
  ASSUME NEW S, NEW parts \in Seq(Seq(S))
  PROVE  /\ Len(parts) \in Nat /\ Len(Concat(parts)) \in Nat
         /\ \A k \in 0..Len(parts) : /\ Len(Joined(parts)[k]) \in Nat
                                     /\ Len(Joined(parts)[k]) <= Len(Concat(parts))
<1> DEFINE n == Len(parts)
           j == Joined(parts)
<1>1. n \in Nat /\ \A k \in 1..n : parts[k] \in Seq(S)
  BY LenProperties, ElementOfSeq
<1>2. j \in [0..n -> Seq(S)] /\ \A k \in 1..n : j[k] = j[k - 1] \o parts[k]
  BY JoinedIs
<1>3. Concat(parts) = j[n]
  BY DEF Concat
<1> HIDE DEF n, j
<1>4. \A k \in 0..n : Len(j[k]) \in Nat
  BY <1>2, LenProperties
<1>5. ASSUME NEW k \in 1..n PROVE Len(j[k - 1]) <= Len(j[k])
  <2>0. k - 1 \in 0..n /\ k \in 0..n
    BY <1>1
  <2> DEFINE a == j[k - 1]
             b == parts[k]
  <2>1. a \in Seq(S) /\ b \in Seq(S) /\ j[k] = a \o b
    BY <1>1, <1>2, <2>0
  <2> HIDE DEF a, b
  <2>2. Len(j[k]) = Len(a) + Len(b) /\ Len(a) \in Nat /\ Len(b) \in Nat
    BY <2>1, ConcatProperties, LenProperties
  <2>3. Len(a) <= Len(j[k])
    BY <2>2
  <2>4. QED
    BY <2>3 DEF a
<1> DEFINE T == {k \in 0..n : Len(j[n - k]) <= Len(j[n])}
<1>6. \A k \in 0..n : k \in T
  <2>1. 0 \in T
    <3>1. n - 0 = n /\ 0 \in 0..n /\ n \in 0..n
      BY <1>1
    <3>2. Len(j[n]) <= Len(j[n])
      BY <1>4, <3>1
    <3>3. QED
      BY <3>1, <3>2
  <2>2. ASSUME NEW k \in 0..(n - 1), k \in T PROVE k + 1 \in T
    <3>1. /\ n - k \in 1..n /\ (n - k) - 1 = n - (k + 1) /\ k + 1 \in 0..n
          /\ n - (k + 1) \in 0..n /\ n - k \in 0..n /\ n \in 0..n
      BY <1>1
    <3>2. Len(j[n - (k + 1)]) <= Len(j[n - k]) /\ Len(j[n - k]) <= Len(j[n])
      BY <1>5, <2>2, <3>1
    <3>3. Len(j[n - (k + 1)]) <= Len(j[n])
      BY <1>4, <3>1, <3>2
    <3>4. QED
      BY <3>1, <3>3
  <2> HIDE DEF T
  <2>3. QED
    BY <1>1, <2>1, <2>2, Climb
<1>7. ASSUME NEW k \in 0..n PROVE Len(j[k]) <= Len(j[n])
  <2>1. n - k \in 0..n /\ n - (n - k) = k
    BY <1>1
  <2>2. QED
    BY <1>6, <2>1
<1>8. n \in 0..n
  BY <1>1
<1>9. QED
  BY <1>1, <1>3, <1>4, <1>7, <1>8 DEF n, j

(* The terms and their postings.                                             *)
LEMMA PostingsSectionIs ==
  ASSUME IndexOK
  PROVE  /\ Len(index.terms) \in Nat
         /\ \A k \in 1..Len(index.terms) :
              /\ index.terms[k] \in Texts /\ index.terms[k] \in DOMAIN index.postings
              /\ index.postings[index.terms[k]] \in Seq(Postings)
         /\ PostingsSection \in Seq(Seq(Byte)) /\ Len(PostingsSection) = Len(index.terms)
         /\ \A k \in 1..Len(index.terms) :
              /\ PostingsSection[k] = PostingsBytes(index.postings[index.terms[k]])
              /\ Len(PostingsSection[k]) \in Nat
<1> DEFINE terms == index.terms
           n == Len(terms)
           parts == PostingsSection
<1>1. /\ terms \in Seq(Texts) /\ DOMAIN index.postings = {terms[i] : i \in DOMAIN terms}
      /\ \A t \in DOMAIN index.postings : index.postings[t] \in Seq(Postings)
  BY DEF IndexOK, ToSet
<1> HIDE DEF terms
<1>2. n \in Nat /\ DOMAIN terms = 1..n /\ \A k \in 1..n : terms[k] \in Texts
  BY <1>1, LenProperties, ElementOfSeq
<1>3. \A k \in 1..n : /\ terms[k] \in DOMAIN index.postings
                      /\ index.postings[terms[k]] \in Seq(Postings)
  BY <1>1, <1>2
<1>4. parts = [i \in 1..n |-> PostingsBytes(index.postings[terms[i]])]
  BY <1>2 DEF PostingsSection, terms
<1> HIDE DEF parts
<1>5. /\ parts \in [1..n -> Seq(Byte)]
      /\ \A k \in 1..n : parts[k] = PostingsBytes(index.postings[terms[k]])
  BY <1>3, <1>4, PostingPartsAre
<1>6. parts \in Seq(Seq(Byte)) /\ Len(parts) = n /\ \A k \in 1..n : Len(parts[k]) \in Nat
  BY <1>2, <1>5, LenProperties
<1>7. QED
  BY <1>2, <1>3, <1>5, <1>6 DEF terms, parts

(* Where the dictionary's entries end.                                       *)
LEMMA EntriesEndIs ==
  ASSUME IndexOK
  PROVE  /\ EntriesEnd \in [0..Len(index.terms) -> Nat] /\ EntriesEnd[0] = HeaderSize
         /\ \A k \in 1..Len(index.terms) :
              EntriesEnd[k] = EntriesEnd[k - 1] + EntrySize(index.terms[k])
<1> DEFINE n == Len(index.terms)
           X == Nat
           x0 == HeaderSize
           size(k) == EntrySize(index.terms[k])
           G == [k \in 1..n |-> [x \in X |-> x + size(k)]]
<1>1. Short \in Nat /\ Word \in Nat /\ Long \in Nat
  BY WidthAssumption
<1>2. n \in Nat /\ \A k \in 1..n : Len(index.terms[k]) \in Nat
  <2>1. n \in Nat /\ \A k \in 1..n : index.terms[k] \in Texts
    BY PostingsSectionIs
  <2>2. QED
    BY <2>1, LenProperties DEF Texts
<1>3. \A k \in 1..n : size(k) \in Nat
  BY <1>1, <1>2 DEF EntrySize
<1>4. x0 \in Nat
  BY <1>1 DEF HeaderSize
<1> HIDE DEF n, x0, size
<1>5. G \in Steps(n, X) /\ \A k \in 1..n, x \in X : G[k][x] = x + size(k)
  BY <1>3 DEF Steps
<1>6. x0 \in X
  BY <1>4
<1> HIDE DEF G, X
<1>7. PICK f : Iterates(f, n, X, x0, G)
  BY <1>2, <1>5, <1>6, Iteration
<1>8. \A k \in 0..n : f[k] = IF k = 0 THEN x0 ELSE f[k - 1] + size(k)
  <2> TAKE k \in 0..n
  <2>1. k # 0 => k \in 1..n /\ k - 1 \in 0..n
    BY <1>2
  <2>2. k # 0 => f[k] = G[k][f[k - 1]] /\ f[k - 1] \in X
    BY <1>7, <2>1 DEF Iterates
  <2>3. QED
    BY <1>5, <1>7, <2>1, <2>2 DEF Iterates
<1>9. f = [k \in 0..n |-> IF k = 0 THEN x0 ELSE f[k - 1] + size(k)]
  BY <1>7, <1>8 DEF Iterates
<1> DEFINE e == CHOOSE e : e = [k \in 0..n |-> IF k = 0 THEN x0 ELSE e[k - 1] + size(k)]
<1>10. e = [k \in 0..n |-> IF k = 0 THEN x0 ELSE e[k - 1] + size(k)]
  BY <1>9
<1>11. EntriesEnd = e
  BY DEF EntriesEnd, n, x0, size
<1> HIDE DEF e
<1>12. e[0] = x0 /\ \A k \in 1..n : e[k] = e[k - 1] + size(k)
  <2>1. \A k \in 0..n : e[k] = IF k = 0 THEN x0 ELSE e[k - 1] + size(k)
    BY <1>10, Zenon
  <2>2. 0 \in 0..n /\ \A k \in 1..n : k \in 0..n /\ k # 0
    BY <1>2
  <2>3. QED
    BY <2>1, <2>2, Zenon
<1> DEFINE T == {k \in 0..n : e[k] \in Nat}
<1>13. \A k \in 0..n : k \in T
  <2>1. 0 \in T
    BY <1>2, <1>4, <1>12
  <2>2. ASSUME NEW k \in 0..(n - 1), k \in T PROVE k + 1 \in T
    <3>1. k + 1 \in 1..n /\ k + 1 \in 0..n /\ (k + 1) - 1 = k /\ e[k] \in Nat
      BY <1>2, <2>2
    <3>2. e[k + 1] = e[k] + size(k + 1) /\ size(k + 1) \in Nat
      BY <1>3, <1>12, <3>1
    <3>3. QED
      BY <3>1, <3>2
  <2> HIDE DEF T
  <2>3. QED
    BY <1>2, <2>1, <2>2, Climb
<1>14. e \in [0..n -> Nat]
  BY <1>10, <1>13
<1>15. QED
  BY <1>11, <1>12, <1>14 DEF n, x0, size

(* The offsets.                                                              *)
LEMMA OffsetsAre ==
  ASSUME IndexOK
  PROVE  /\ PostingsStart \in Nat /\ DocsStart \in Nat /\ PostingsStart <= DocsStart
         /\ \A k \in 1..Len(index.terms) : Offset(k) \in Nat /\ Offset(k) <= DocsStart
<1> DEFINE n == Len(index.terms)
           parts == PostingsSection
           j == Joined(parts)
           start == PostingsStart
           all == Len(Concat(parts))
<1>1. n \in Nat /\ parts \in Seq(Seq(Byte)) /\ Len(parts) = n
  BY PostingsSectionIs
<1>2. start \in Nat
  <2>1. n \in 0..n
    BY <1>1
  <2>2. QED
    BY <2>1, EntriesEndIs DEF PostingsStart
<1> HIDE DEF n, parts, j, start, all
<1>3. all \in Nat /\ \A k \in 0..n : Len(j[k]) \in Nat /\ Len(j[k]) <= all
  BY <1>1, JoinedGrows DEF all, j
<1>4. DocsStart = start + all /\ \A k \in 1..n : Offset(k) = start + Len(j[k - 1])
  BY DEF DocsStart, Offset, start, all, j, parts
<1>5. ASSUME NEW k \in 1..n PROVE Offset(k) \in Nat /\ Offset(k) <= DocsStart
  <2>1. k - 1 \in 0..n
    BY <1>1
  <2> DEFINE l == Len(j[k - 1])
  <2>2. l \in Nat /\ l <= all /\ Offset(k) = start + l
    BY <1>3, <1>4, <2>1
  <2> HIDE DEF l
  <2>3. QED
    BY <1>2, <1>3, <1>4, <2>2
<1>6. DocsStart \in Nat /\ start <= DocsStart
  BY <1>2, <1>3, <1>4
<1>7. QED
  BY <1>2, <1>5, <1>6 DEF n, start

(* The dictionary's entries, and where they end.                             *)
LEMMA DictionaryIs ==
  ASSUME IndexOK
  PROVE  /\ Dictionary \in Seq(Seq(Byte)) /\ Len(Dictionary) = Len(index.terms)
         /\ \A k \in 1..Len(index.terms) :
              Dictionary[k] = Entry(index.terms[k], Offset(k), Len(PostingsSection[k]))
         /\ HeaderSize + Len(Concat(Dictionary)) = PostingsStart
<1> DEFINE terms == index.terms
           n == Len(terms)
           parts == Dictionary
           entry(k) == Entry(terms[k], Offset(k), Len(PostingsSection[k]))
<1>1. /\ n \in Nat /\ DOMAIN terms = 1..n
      /\ \A k \in 1..n : /\ terms[k] \in Texts /\ Offset(k) \in Nat
                         /\ Len(PostingsSection[k]) \in Nat
  <2>1. terms \in Seq(Texts)
    BY DEF IndexOK
  <2>2. QED
    BY <2>1, PostingsSectionIs, OffsetsAre
<1>2. \A k \in 1..n : entry(k) \in Seq(Byte) /\ Len(entry(k)) = EntrySize(terms[k])
  BY <1>1, EntryBytesAre
<1>3. parts = [k \in 1..n |-> entry(k)]
  BY <1>1 DEF Dictionary, EntryBytes, Entry
<1> HIDE DEF terms, parts, entry
<1>4. parts \in [1..n -> Seq(Byte)] /\ \A k \in 1..n : parts[k] = entry(k)
  BY <1>2, <1>3
<1>5. parts \in Seq(Seq(Byte)) /\ Len(parts) = n
  BY <1>1, <1>4
<1> DEFINE j == Joined(parts)
           end == EntriesEnd
<1>6. /\ j \in [0..n -> Seq(Byte)] /\ j[0] = <<>>
      /\ \A k \in 1..n : j[k] = j[k - 1] \o parts[k]
  BY <1>5, JoinedIs
<1>7. /\ end \in [0..n -> Nat] /\ end[0] = HeaderSize
      /\ \A k \in 1..n : end[k] = end[k - 1] + EntrySize(terms[k])
  BY EntriesEndIs DEF terms
<1>8. Concat(parts) = j[n] /\ PostingsStart = end[n]
  BY <1>5 DEF Concat, PostingsStart, terms
<1>9. HeaderSize \in Nat
  BY <1>1, <1>7
<1> HIDE DEF j, end, n
<1> DEFINE T == {k \in 0..n : HeaderSize + Len(j[k]) = end[k]}
<1>10. \A k \in 0..n : k \in T
  <2>1. 0 \in T
    <3>1. Len(j[0]) = 0 /\ 0 \in 0..n
      BY <1>1, <1>6
    <3>2. HeaderSize + Len(j[0]) = end[0]
      BY <1>7, <1>9, <3>1
    <3>3. QED
      BY <3>1, <3>2
  <2>2. ASSUME NEW k \in 0..(n - 1), k \in T PROVE k + 1 \in T
    <3>1. /\ k + 1 \in 1..n /\ k + 1 \in 0..n /\ (k + 1) - 1 = k /\ k \in 0..n
          /\ HeaderSize + Len(j[k]) = end[k]
      BY <1>1, <2>2
    <3> DEFINE a == j[k]
               b == parts[k + 1]
    <3>2. a \in Seq(Byte) /\ b \in Seq(Byte) /\ j[k + 1] = a \o b
          /\ Len(b) = EntrySize(terms[k + 1])
      BY <1>2, <1>4, <1>6, <3>1
    <3>3. end[k + 1] = end[k] + EntrySize(terms[k + 1]) /\ end[k] \in Nat
      BY <1>7, <3>1
    <3>4. HeaderSize + Len(a) = end[k]
      BY <3>1
    <3> HIDE DEF a, b
    <3>5. Len(j[k + 1]) = Len(a) + Len(b) /\ Len(a) \in Nat /\ Len(b) \in Nat
      BY <3>2, ConcatProperties, LenProperties
    <3>6. HeaderSize + Len(j[k + 1]) = end[k + 1]
      BY <1>9, <3>2, <3>3, <3>4, <3>5
    <3>7. QED
      BY <3>1, <3>6
  <2> HIDE DEF T
  <2>3. QED
    BY <1>1, <2>1, <2>2, Climb
<1>11. n \in 0..n
  BY <1>1
<1>12. HeaderSize + Len(Concat(parts)) = PostingsStart
  BY <1>8, <1>10, <1>11
<1>13. QED
  BY <1>4, <1>5, <1>12 DEF n, terms, parts, entry

(* The header: seven numbers.                                                *)
HeaderStands(image) ==
  LET l == Word
      m == Word + Word
      n == m + Word
      o == n + Word
      p == o + Long
      q == p + Long
  IN /\ Stands(Bytes(MAGIC, Word), 0, image) /\ Stands(Bytes(FORMAT_VERSION, Word), l, image)
     /\ Stands(Bytes(Len(index.terms), Word), m, image)
     /\ Stands(Bytes(Len(index.docs), Word), n, image)
     /\ Stands(Bytes(index.total, Long), o, image)
     /\ Stands(Bytes(PostingsStart, Long), p, image)
     /\ Stands(Bytes(DocsStart, Long), q, image)

LEMMA HeaderIs ==
  ASSUME IndexOK
  PROVE  /\ Header \in Seq(Byte) /\ Len(Header) = HeaderSize /\ HeaderSize \in Nat
         /\ \A image \in Seq(Byte) : Stands(Header, 0, image) => HeaderStands(image)
<1> DEFINE a == Bytes(MAGIC, Word)
           b == Bytes(FORMAT_VERSION, Word)
           c == Bytes(Len(index.terms), Word)
           d == Bytes(Len(index.docs), Word)
           e == Bytes(index.total, Long)
           f == Bytes(PostingsStart, Long)
           g == Bytes(DocsStart, Long)
           abcd == a \o b \o c \o d
<1>1. /\ MAGIC \in Nat /\ FORMAT_VERSION \in Nat /\ Len(index.terms) \in Nat
      /\ Len(index.docs) \in Nat /\ index.total \in Nat /\ PostingsStart \in Nat
      /\ DocsStart \in Nat
  <2>1. MAGIC \in Nat /\ FORMAT_VERSION \in Nat
    BY DEF MAGIC, FORMAT_VERSION
  <2>2. index.total \in Nat
    BY DEF IndexOK
  <2>3. QED
    BY <2>1, <2>2, PostingsSectionIs, DocsSectionIs, OffsetsAre
<1>2. Word \in Nat /\ Long \in Nat
  BY WidthAssumption
<1>3. /\ a \in Seq(Byte) /\ b \in Seq(Byte) /\ c \in Seq(Byte) /\ d \in Seq(Byte)
      /\ e \in Seq(Byte) /\ f \in Seq(Byte) /\ g \in Seq(Byte)
      /\ Len(a) = Word /\ Len(b) = Word /\ Len(c) = Word /\ Len(d) = Word
      /\ Len(e) = Long /\ Len(f) = Long /\ Len(g) = Long
  BY <1>1, <1>2, BytesAre
<1>4. Header = abcd \o e \o f \o g
  BY DEF Header
<1> HIDE DEF a, b, c, d, e, f, g
<1>5. abcd \in Seq(Byte) /\ Len(abcd) = Word + Word + Word + Word
  <2>1. FourJoined(a, b, c, d, Byte)
    BY <1>3, FourJoinedIs
  <2>2. QED
    BY <1>3, <2>1 DEF FourJoined
<1> HIDE DEF abcd
<1>6. Header \in Seq(Byte) /\ Len(Header) = Len(abcd) + Len(e) + Len(f) + Len(g)
  <2>1. FourJoined(abcd, e, f, g, Byte)
    BY <1>3, <1>5, FourJoinedIs
  <2>2. QED
    BY <1>4, <2>1 DEF FourJoined
<1>7. Len(Header) = HeaderSize /\ HeaderSize \in Nat
  BY <1>2, <1>3, <1>5, <1>6 DEF HeaderSize
<1>8. ASSUME NEW image \in Seq(Byte), Stands(Header, 0, image) PROVE HeaderStands(image)
  <2>1. StandInRow(abcd, e, f, g, 0, image)
    BY <1>3, <1>4, <1>5, <1>8, FourStand
  <2>2. Stands(abcd, 0, image)
    BY <2>1 DEF StandInRow
  <2>3. StandInRow(a, b, c, d, 0, image)
    BY <1>3, <2>2, FourStand DEF abcd
  <2>4. /\ 0 + Len(a) = Word /\ 0 + Len(a) + Len(b) = Word + Word
        /\ 0 + Len(a) + Len(b) + Len(c) = Word + Word + Word
        /\ 0 + Len(abcd) = Word + Word + Word + Word
        /\ 0 + Len(abcd) + Len(e) = Word + Word + Word + Word + Long
        /\ 0 + Len(abcd) + Len(e) + Len(f) = Word + Word + Word + Word + Long + Long
    BY <1>2, <1>3, <1>5
  <2>5. /\ Stands(a, 0, image) /\ Stands(b, Word, image) /\ Stands(c, Word + Word, image)
        /\ Stands(d, Word + Word + Word, image)
    BY <2>3, <2>4 DEF StandInRow
  <2>6. /\ Stands(e, Word + Word + Word + Word, image)
        /\ Stands(f, Word + Word + Word + Word + Long, image)
        /\ Stands(g, Word + Word + Word + Word + Long + Long, image)
    BY <2>1, <2>4 DEF StandInRow
  <2>7. QED
    BY <2>5, <2>6 DEF HeaderStands, a, b, c, d, e, f, g
<1>9. QED
  BY <1>6, <1>7, <1>8

HeaderGot ==
  <<MAGIC, FORMAT_VERSION, Len(index.terms), Len(index.docs), index.total,
    PostingsStart, DocsStart>>

GotLater(a, b, c, d, e, f, g) ==
  /\ Append(<<a, b, c, d>>, e) = <<a, b, c, d, e>>
  /\ Append(<<a, b, c, d, e>>, f) = <<a, b, c, d, e, f>>
  /\ Append(<<a, b, c, d, e, f>>, g) = <<a, b, c, d, e, f, g>>

LEMMA SevenGot ==
  ASSUME NEW S, NEW a \in S, NEW b \in S, NEW c \in S, NEW d \in S, NEW e \in S,
         NEW f \in S, NEW g \in S
  PROVE  GotLater(a, b, c, d, e, f, g)
<1> DEFINE g4 == <<a, b, c, d>>
           g5 == <<a, b, c, d, e>>
           g6 == <<a, b, c, d, e, f>>
           g7 == <<a, b, c, d, e, f, g>>
<1>1. /\ g4 \in Seq(S) /\ g5 \in Seq(S) /\ g6 \in Seq(S) /\ g7 \in Seq(S)
      /\ Len(g4) = 4 /\ Len(g5) = 5 /\ Len(g6) = 6 /\ Len(g7) = 7
  OBVIOUS
<1>2. /\ g4[1] = a /\ g4[2] = b /\ g4[3] = c /\ g4[4] = d
      /\ g5[1] = a /\ g5[2] = b /\ g5[3] = c /\ g5[4] = d /\ g5[5] = e
      /\ g6[1] = a /\ g6[2] = b /\ g6[3] = c /\ g6[4] = d /\ g6[5] = e /\ g6[6] = f
      /\ g7[1] = a /\ g7[2] = b /\ g7[3] = c /\ g7[4] = d /\ g7[5] = e /\ g7[6] = f
      /\ g7[7] = g
  OBVIOUS
<1> HIDE DEF g4, g5, g6, g7
<1>3. Continues(g5, g4, e) /\ Continues(g6, g5, f) /\ Continues(g7, g6, g)
  BY <1>1, <1>2 DEF Continues
<1>4. Append(g4, e) = g5 /\ Append(g5, f) = g6 /\ Append(g6, g) = g7
  BY <1>1, <1>3, AppendIs
<1>5. QED
  BY <1>4 DEF g4, g5, g6, g7, GotLater

(* A number, with where it stands and what is read of it by names.          *)
NumberStands(n, w, r, offset, got, image) ==
  Fits(n, w) /\ Stands(Bytes(n, w), offset, image) /\ Reached(r, offset, got)
NumberRead(n, w, r, offset, got) ==
  Reached(ReadNumber(r, w), offset + w, Append(got, n))

LEMMA NumberIsRead ==
  ASSUME NEW image, NEW r, NEW offset \in Nat, NEW got, NEW n, NEW w \in Nat,
         Begins(image), NumberStands(n, w, r, offset, got, image)
  PROVE  NumberRead(n, w, r, offset, got)
<1>1. ReadNumber(r, w) = Expect(offset + w, Append(got, n))
  BY NumberIs DEF NumberStands
<1>2. QED
  BY <1>1, ExpectReaches DEF NumberRead

(* The header is read as it was written.                                     *)
LEMMA HeaderIsRead ==
  ASSUME NEW image, IndexOK, AllFit, Begins(image), Stands(Header, 0, image)
  PROVE  Reached(ReadHeader, HeaderSize, HeaderGot)
<1> DEFINE a == MAGIC
           b == FORMAT_VERSION
           c == Len(index.terms)
           d == Len(index.docs)
           e == index.total
           f == PostingsStart
           g == DocsStart
           l == Word
           m == l + Word
           n == m + Word
           o == n + Word
           p == o + Long
           q == p + Long
           s == q + Long
           g0 == <<>>
           g1 == <<a>>
           g2 == <<a, b>>
           g3 == <<a, b, c>>
           g4 == <<a, b, c, d>>
           g5 == <<a, b, c, d, e>>
           g6 == <<a, b, c, d, e, f>>
           g7 == <<a, b, c, d, e, f, g>>
<1>1. /\ Fits(a, Word) /\ Fits(b, Word) /\ Fits(c, Word) /\ Fits(d, Word)
      /\ Fits(e, Long) /\ Fits(g, Long)
  BY WidthAssumption DEF AllFit
<1>2. Fits(f, Long)
  BY <1>1, OffsetsAre, FitsBelow, WidthAssumption
<1>3. Word \in Nat /\ Long \in Nat
  BY WidthAssumption
<1>4. HeaderStands(image)
  BY HeaderIs DEF Begins
<1>5. /\ Stands(Bytes(a, Word), 0, image) /\ Stands(Bytes(b, Word), l, image)
      /\ Stands(Bytes(c, Word), m, image) /\ Stands(Bytes(d, Word), n, image)
      /\ Stands(Bytes(e, Long), o, image) /\ Stands(Bytes(f, Long), p, image)
      /\ Stands(Bytes(g, Long), q, image)
  BY <1>4 DEF HeaderStands
<1>6. /\ l \in Nat /\ m \in Nat /\ n \in Nat /\ o \in Nat /\ p \in Nat /\ q \in Nat
      /\ 0 + Word = l /\ s = HeaderSize
  BY <1>3 DEF HeaderSize
<1>7. HeaderGot = g7
  BY DEF HeaderGot
<1> HIDE DEF a, b, c, d, e, f, g, l, m, n, o, p, q, s
<1>8. /\ a \in Nat /\ b \in Nat /\ c \in Nat /\ d \in Nat /\ e \in Nat /\ f \in Nat /\ g \in Nat
  BY <1>1, <1>2 DEF Fits
<1>9. /\ Append(g0, a) = g1 /\ Append(g1, b) = g2 /\ Append(g2, c) = g3
      /\ Append(g3, d) = g4
  <2> DEFINE S == Nat
  <2>1. a \in S /\ b \in S /\ c \in S /\ d \in S
    BY <1>8
  <2> HIDE DEF S
  <2>2. GotInTurn(a, b, c, d)
    BY <2>1, GotAre DEF GotInTurn
  <2>3. QED
    BY <2>2 DEF GotInTurn
<1>10. Append(g4, e) = g5 /\ Append(g5, f) = g6 /\ Append(g6, g) = g7
  <2> DEFINE S == Nat
  <2>1. a \in S /\ b \in S /\ c \in S /\ d \in S /\ e \in S /\ f \in S /\ g \in S
    BY <1>8
  <2> HIDE DEF S
  <2>2. GotLater(a, b, c, d, e, f, g)
    BY <2>1, SevenGot
  <2>3. QED
    BY <2>2 DEF GotLater
<1>11. Reached(At(0), 0, g0)
  BY AtReaches
<1> HIDE DEF g0, g1, g2, g3, g4, g5, g6, g7
<1> DEFINE r0 == At(0)
           r1 == ReadNumber(r0, Word)
           r2 == ReadNumber(r1, Word)
           r3 == ReadNumber(r2, Word)
           r4 == ReadNumber(r3, Word)
           r5 == ReadNumber(r4, Long)
           r6 == ReadNumber(r5, Long)
           r7 == ReadNumber(r6, Long)
<1>12. ReadHeader = r7
  BY DEF ReadHeader
<1> HIDE DEF r0
<1>13. Reached(r0, 0, g0)
  BY <1>11 DEF r0
<1>14. Reached(r1, l, g1)
  <2>1. NumberStands(a, Word, r0, 0, g0, image)
    BY <1>1, <1>2, <1>5, <1>13 DEF NumberStands
  <2>2. NumberRead(a, Word, r0, 0, g0)
    BY <1>3, <1>6, <2>1, NumberIsRead
  <2>3. QED
    BY <1>6, <1>9, <1>10, <2>2 DEF NumberRead, l
<1> HIDE DEF r1
<1>15. Reached(r2, m, g2)
  <2>1. NumberStands(b, Word, r1, l, g1, image)
    BY <1>1, <1>2, <1>5, <1>14 DEF NumberStands
  <2>2. NumberRead(b, Word, r1, l, g1)
    BY <1>3, <1>6, <2>1, NumberIsRead
  <2>3. QED
    BY <1>6, <1>9, <1>10, <2>2 DEF NumberRead, m
<1> HIDE DEF r2
<1>16. Reached(r3, n, g3)
  <2>1. NumberStands(c, Word, r2, m, g2, image)
    BY <1>1, <1>2, <1>5, <1>15 DEF NumberStands
  <2>2. NumberRead(c, Word, r2, m, g2)
    BY <1>3, <1>6, <2>1, NumberIsRead
  <2>3. QED
    BY <1>6, <1>9, <1>10, <2>2 DEF NumberRead, n
<1> HIDE DEF r3
<1>17. Reached(r4, o, g4)
  <2>1. NumberStands(d, Word, r3, n, g3, image)
    BY <1>1, <1>2, <1>5, <1>16 DEF NumberStands
  <2>2. NumberRead(d, Word, r3, n, g3)
    BY <1>3, <1>6, <2>1, NumberIsRead
  <2>3. QED
    BY <1>6, <1>9, <1>10, <2>2 DEF NumberRead, o
<1> HIDE DEF r4
<1>18. Reached(r5, p, g5)
  <2>1. NumberStands(e, Long, r4, o, g4, image)
    BY <1>1, <1>2, <1>5, <1>17 DEF NumberStands
  <2>2. NumberRead(e, Long, r4, o, g4)
    BY <1>3, <1>6, <2>1, NumberIsRead
  <2>3. QED
    BY <1>6, <1>9, <1>10, <2>2 DEF NumberRead, p
<1> HIDE DEF r5
<1>19. Reached(r6, q, g6)
  <2>1. NumberStands(f, Long, r5, p, g5, image)
    BY <1>1, <1>2, <1>5, <1>18 DEF NumberStands
  <2>2. NumberRead(f, Long, r5, p, g5)
    BY <1>3, <1>6, <2>1, NumberIsRead
  <2>3. QED
    BY <1>6, <1>9, <1>10, <2>2 DEF NumberRead, q
<1> HIDE DEF r6
<1>20. Reached(r7, s, g7)
  <2>1. NumberStands(g, Long, r6, q, g6, image)
    BY <1>1, <1>2, <1>5, <1>19 DEF NumberStands
  <2>2. NumberRead(g, Long, r6, q, g6)
    BY <1>3, <1>6, <2>1, NumberIsRead
  <2>3. QED
    BY <1>6, <1>9, <1>10, <2>2 DEF NumberRead, s
<1>21. QED
  BY <1>6, <1>7, <1>12, <1>20

(* The whole.                                                                *)
LEMMA ImageIs ==
  ASSUME IndexOK
  PROVE  /\ Image \in Seq(Byte) /\ Stands(Header, 0, Image)
         /\ Stands(Concat(Dictionary), HeaderSize, Image)
         /\ Stands(Concat(PostingsSection), PostingsStart, Image)
         /\ Stands(Concat(DocsSection), DocsStart, Image)
         /\ Len(Image) = DocsStart + Len(Concat(DocsSection))
<1> DEFINE a == Header
           b == Concat(Dictionary)
           c == Concat(PostingsSection)
           d == Concat(DocsSection)
           image == Image
<1>1. a \in Seq(Byte) /\ b \in Seq(Byte) /\ c \in Seq(Byte) /\ d \in Seq(Byte)
  BY HeaderIs, DictionaryIs, PostingsSectionIs, DocsSectionIs, ConcatIs
<1>2. image = a \o b \o c \o d
  BY DEF Image
<1>3. /\ Len(a) = HeaderSize /\ HeaderSize + Len(b) = PostingsStart
      /\ PostingsStart + Len(c) = DocsStart /\ HeaderSize \in Nat
  BY HeaderIs, DictionaryIs DEF DocsStart
<1> HIDE DEF a, b, c, d, image
<1>4. FourJoined(a, b, c, d, Byte)
  BY <1>1, FourJoinedIs
<1>5. image \in Seq(Byte) /\ Len(image) = Len(a) + Len(b) + Len(c) + Len(d)
  BY <1>2, <1>4 DEF FourJoined
<1>6. Stands(image, 0, image)
  BY <1>5 DEF Stands
<1>7. StandInRow(a, b, c, d, 0, image)
  BY <1>1, <1>2, <1>5, <1>6, FourStand
<1>8. 0 + Len(a) = HeaderSize /\ 0 + Len(a) + Len(b) = PostingsStart
      /\ 0 + Len(a) + Len(b) + Len(c) = DocsStart
  BY <1>3
<1>9. /\ Stands(a, 0, image) /\ Stands(b, HeaderSize, image)
      /\ Stands(c, PostingsStart, image) /\ Stands(d, DocsStart, image)
  BY <1>7, <1>8 DEF StandInRow
<1>10. Len(image) = DocsStart + Len(d)
  BY <1>3, <1>5
<1>11. QED
  BY <1>5, <1>9, <1>10 DEF a, b, c, d, image

----------------------------------------------------------------------------
(* What is read back.                                                        *)

(* Of a file that ends early, the header or the documents are not read.      *)
LEMMA TornIs ==
  ASSUME IndexOK, AllFit, index.docs # <<>>, Begins(Image), Len(file) < Len(Image)
  PROVE  ParseFromBytes = Unreadable
<1> DEFINE header == ReadHeader
           stored == ReadRecords("document", header.got[7], header.got[4])
<1>1. Reached(header, HeaderSize, HeaderGot)
  BY ImageIs, HeaderIsRead
<1>2. SUFFICES ASSUME header.ok PROVE ~stored.ok
  BY DEF ParseFromBytes
<1>3. header.got[7] = DocsStart /\ header.got[4] = Len(index.docs)
  <2>1. header # Failed
    BY <1>2 DEF Failed
  <2>2. header.got = HeaderGot
    BY <1>1, <2>1 DEF Reached
  <2>3. QED
    BY <2>2 DEF HeaderGot
<1> DEFINE end == DocsStart + Len(Concat(DocsSection))
<1>4. stored = Expect(end, index.docs)
  <2>1. DocsStart \in Nat /\ Stands(Concat(DocsSection), DocsStart, Image)
    BY OffsetsAre, ImageIs
  <2>2. ReadRecords("document", DocsStart, Len(index.docs)) = Expect(end, index.docs)
    BY <2>1, DocumentsAreRead
  <2>3. QED
    BY <1>3, <2>2
<1>5. ~(end <= Len(file))
  <2>1. end = Len(Image)
    BY ImageIs
  <2>2. Len(file) \in Nat /\ Len(Image) \in Nat
    BY LenProperties DEF Begins
  <2> HIDE DEF end
  <2>3. QED
    BY <2>1, <2>2
<1> HIDE DEF stored, end
<1>6. QED
  BY <1>4, <1>5 DEF Expect, Failed

(* Of a whole file, the header is read,                                      *)
LEMMA WholeHeaderIs ==
  ASSUME IndexOK, AllFit, Begins(Image), Len(file) = Len(Image)
  PROVE  ReadHeader = [ok |-> TRUE, at |-> HeaderSize, got |-> HeaderGot]
<1>1. Reached(ReadHeader, HeaderSize, HeaderGot)
  BY ImageIs, HeaderIsRead
<1>2. HeaderSize <= Len(file)
  BY ImageIs, HeaderIs DEF Stands
<1>3. QED
  BY <1>1, <1>2 DEF Reached

(* the dictionary,                                                           *)
EntriesGot ==
  [k \in 1..Len(index.terms) |->
     Read(index.terms[k], Offset(k), Len(PostingsSection[k]))]

EntriesRead ==
  LET entries == ReadRecords("entry", HeaderSize, Len(index.terms))
  IN entries.ok /\ entries.got = EntriesGot

LEMMA EntriesAreRead ==
  ASSUME IndexOK, AllFit, Begins(Image), Len(file) = Len(Image)
  PROVE  EntriesRead
<1> DEFINE terms == index.terms
           n == Len(terms)
           parts == Dictionary
           gots == EntriesGot
           G == {Read(terms[k], Offset(k), Len(PostingsSection[k])) : k \in 1..n}
           image == Image
           total == Len(Concat(parts))
<1>1. /\ n \in Nat /\ DOMAIN terms = 1..n
      /\ \A k \in 1..n : /\ terms[k] \in Texts /\ terms[k] \in DOMAIN index.postings
                         /\ Offset(k) \in Nat /\ Offset(k) <= DocsStart
                         /\ Len(PostingsSection[k]) \in Nat
  <2>1. terms \in Seq(Texts)
    BY DEF IndexOK
  <2>2. QED
    BY <2>1, PostingsSectionIs, OffsetsAre
<1>2. \A k \in 1..n : Fits(Len(terms[k]), Short) /\ Fits(Offset(k), Long)
  <2> TAKE k \in 1..n
  <2>1. Fits(Len(terms[k]), Short)
    BY <1>1 DEF AllFit
  <2>2. Fits(DocsStart, Long) /\ DocsStart \in Nat /\ Long \in Nat
    BY OffsetsAre, WidthAssumption DEF AllFit
  <2>3. QED
    BY <1>1, <2>1, <2>2, FitsBelow
<1>3. /\ gots \in [1..n -> G]
      /\ \A k \in 1..n : gots[k] = Read(terms[k], Offset(k), Len(PostingsSection[k]))
  BY DEF EntriesGot
<1> HIDE DEF gots
<1>4. gots \in Seq(G) /\ Len(gots) = n
  BY <1>1, <1>3
<1>5. /\ parts \in Seq(Seq(Byte)) /\ Len(parts) = n
      /\ \A k \in 1..n : parts[k] = Entry(terms[k], Offset(k), Len(PostingsSection[k]))
  BY DictionaryIs
<1>6. /\ Begins(image) /\ HeaderSize \in Nat /\ Stands(Concat(parts), HeaderSize, image)
      /\ Len(file) = Len(image)
  BY ImageIs, HeaderIs
<1> HIDE DEF terms, parts, G, image
<1>7. ASSUME NEW k \in 1..n, NEW o \in Nat, Stands(parts[k], o, image)
      PROVE  ReadRecord("entry", o) = Expect(o + Len(parts[k]), gots[k])
  <2> DEFINE t == terms[k]
             at == Offset(k)
             l == Len(PostingsSection[k])
  <2>0. /\ t \in Texts /\ l \in Nat /\ Fits(Len(t), Short) /\ Fits(at, Long)
        /\ parts[k] = Entry(t, at, l) /\ gots[k] = Read(t, at, l)
    BY <1>1, <1>2, <1>3, <1>5
  <2> HIDE DEF t, at, l
  <2>1. ReadEntry(o) = Expect(o + Len(parts[k]), gots[k])
    BY <1>6, <1>7, <2>0, EntryIsRead
  <2>2. QED
    BY <2>1 DEF ReadRecord
<1>8. RecordsStand("entry", parts, gots, HeaderSize, image)
  BY <1>4, <1>5, <1>6, <1>7 DEF RecordsStand
<1>9. RecordsRead("entry", parts, gots, HeaderSize)
  BY <1>4, <1>5, <1>6, <1>8, RecordsAreRead
<1> HIDE DEF total
<1>10. HeaderSize + total <= Len(file)
  BY <1>6 DEF Stands, total
<1>11. CASE gots = <<>>
  <2>1. n = 0
    BY <1>4, <1>11
  <2>2. ReadRecords("entry", HeaderSize, n) = At(HeaderSize)
    BY <1>9, <1>11, <2>1 DEF RecordsRead
  <2>3. QED
    BY <1>11, <2>2 DEF At, EntriesRead, gots, terms
<1>12. CASE gots # <<>>
  <2>1. ReadRecords("entry", HeaderSize, n) = Expect(HeaderSize + total, gots)
    BY <1>4, <1>9, <1>12 DEF RecordsRead, total
  <2>2. QED
    BY <1>10, <2>1 DEF Expect, EntriesRead, gots, terms
<1>13. QED
  BY <1>11, <1>12

(* and each term's postings where its entry says.                            *)
LEMMA ListsAreRead ==
  ASSUME IndexOK, AllFit, Begins(Image), Len(file) = Len(Image),
         NEW k \in 1..Len(index.terms)
  PROVE  ListRead(index.postings[index.terms[k]], Offset(k))
<1> DEFINE t == index.terms[k]
           list == index.postings[t]
           parts == PostingsSection
           image == Image
           start == PostingsStart
           o == Offset(k)
<1>1. /\ parts \in Seq(Seq(Byte)) /\ k \in 1..Len(parts) /\ parts[k] = PostingsBytes(list)
      /\ t \in DOMAIN index.postings /\ list \in Seq(Postings)
  BY PostingsSectionIs
<1>2. ListFits(list)
  BY <1>1 DEF AllFit
<1>3. /\ image \in Seq(Byte) /\ start \in Nat /\ Stands(Concat(parts), start, image)
      /\ o \in Nat /\ o = start + Len(Joined(parts)[k - 1])
  BY ImageIs, OffsetsAre DEF Offset
<1> HIDE DEF t, list, parts, image, start, o
<1>4. Stands(parts[k], o, image)
  BY <1>1, <1>3, StandsInTurn
<1>5. Begins(image) /\ Len(file) = Len(image)
  BY DEF image
<1>6. ListRead(list, o)
  BY <1>1, <1>2, <1>3, <1>4, <1>5, PostingsAreRead
<1>7. QED
  BY <1>6 DEF list, t, o

(* So the whole is read back.                                                *)
LEMMA WholeIs ==
  ASSUME IndexOK, AllFit, index.docs # <<>>, Begins(Image), Len(file) = Len(Image)
  PROVE  ParseFromBytes = Index(index.postings, index.docs, index.total)
<1> DEFINE header == ReadHeader
           entries == ReadRecords("entry", header.at, header.got[3])
           lists == [i \in DOMAIN entries.got |-> ReadPostings(entries.got[i][2])]
           stored == ReadRecords("document", header.got[7], header.got[4])
           list(t) == CHOOSE i \in DOMAIN entries.got : entries.got[i][1] = t
           terms == index.terms
           postings == index.postings
           n == Len(terms)
           found == {e[1] : e \in ToSet(entries.got)}
           read == [t \in found |-> lists[list(t)].got]
<1>1. header = [ok |-> TRUE, at |-> HeaderSize, got |-> HeaderGot]
  BY WholeHeaderIs
<1>2. /\ header.ok /\ header.at = HeaderSize /\ header.got[1] = MAGIC
      /\ header.got[2] = FORMAT_VERSION /\ header.got[3] = n
      /\ header.got[4] = Len(index.docs) /\ header.got[5] = index.total
      /\ header.got[7] = DocsStart
  BY <1>1 DEF HeaderGot
<1>3. entries.ok /\ entries.got = EntriesGot
  BY <1>2, EntriesAreRead DEF EntriesRead
<1>4. /\ DOMAIN entries.got = 1..n
      /\ \A i \in 1..n : entries.got[i][1] = terms[i] /\ entries.got[i][2] = Offset(i)
  BY <1>3 DEF EntriesGot, Read
<1>5. /\ DOMAIN lists = 1..n
      /\ \A i \in 1..n : lists[i].ok /\ lists[i].got = postings[terms[i]]
  <2>1. ASSUME NEW i \in 1..n PROVE lists[i].ok /\ lists[i].got = postings[terms[i]]
    <3>1. ListRead(postings[terms[i]], Offset(i))
      BY ListsAreRead
    <3>2. lists[i] = ReadPostings(Offset(i))
      BY <1>4
    <3>3. QED
      BY <3>1, <3>2 DEF ListRead
  <2>2. QED
    BY <1>4, <2>1
<1>6. stored.ok /\ stored.got = index.docs
  <2> DEFINE end == DocsStart + Len(Concat(DocsSection))
  <2>1. /\ DocsStart \in Nat /\ Stands(Concat(DocsSection), DocsStart, Image)
        /\ end = Len(file)
    BY OffsetsAre, ImageIs
  <2>2. ReadRecords("document", DocsStart, Len(index.docs)) = Expect(end, index.docs)
    BY <2>1, DocumentsAreRead
  <2>3. end <= Len(file)
    <3>1. Len(file) \in Nat
      BY LenProperties DEF Begins
    <3> HIDE DEF end
    <3>2. QED
      BY <2>1, <3>1
  <2> HIDE DEF end
  <2>4. stored = [ok |-> TRUE, at |-> end, got |-> index.docs]
    BY <1>2, <2>2, <2>3 DEF Expect
  <2> HIDE DEF stored
  <2>5. QED
    BY <2>4
<1>7. read = postings
  <2>0. postings \in [ToSet(terms) -> Seq(Postings)] /\ DOMAIN terms = 1..n
    BY DEF IndexOK
  <2> HIDE DEF entries, lists, terms, postings
  <2>1. found = ToSet(terms)
    <3>1. found = {entries.got[i][1] : i \in 1..n}
      BY <1>4 DEF ToSet
    <3>2. found = {terms[i] : i \in 1..n}
      BY <1>4, <3>1
    <3>3. QED
      BY <2>0, <3>2 DEF ToSet
  <2>2. ASSUME NEW t \in ToSet(terms) PROVE lists[list(t)].got = postings[t]
    <3>1. PICK i \in 1..n : t = terms[i]
      BY <2>0 DEF ToSet
    <3>2. i \in DOMAIN entries.got /\ entries.got[i][1] = t
      BY <1>4, <3>1
    <3>3. list(t) \in DOMAIN entries.got /\ entries.got[list(t)][1] = t
      BY <3>2
    <3> HIDE DEF list
    <3>4. list(t) \in 1..n /\ terms[list(t)] = t
      BY <1>4, <3>3
    <3>5. QED
      BY <1>5, <3>4
  <2>3. postings = [t \in ToSet(terms) |-> postings[t]]
    BY <2>0
  <2> HIDE DEF list
  <2>4. QED
    BY <2>1, <2>2, <2>3
<1>8. ParseFromBytes =
        IF /\ header.ok /\ header.got[1] = MAGIC /\ header.got[2] = FORMAT_VERSION
           /\ entries.ok /\ (\A i \in DOMAIN lists : lists[i].ok) /\ stored.ok
          THEN Index(read, stored.got, header.got[5]) ELSE Unreadable
  BY DEF ParseFromBytes
<1> HIDE DEF header, entries, lists, stored, read, postings
<1>9. QED
  BY <1>2, <1>3, <1>5, <1>6, <1>7, <1>8 DEF postings

----------------------------------------------------------------------------
(* The invariant.                                                            *)

(* A file and what is to follow it.                                          *)
LEMMA FileIs ==
  ASSUME SegmentInv, pc = "writing"
  PROVE  /\ IndexOK /\ index.docs # <<>> /\ Begins(Image)
         /\ unwritten = <<>> => Len(file) = Len(Image)
         /\ unwritten # <<>> => Len(file) < Len(Image)
<1> DEFINE image == Image
<1>1. /\ IndexOK /\ file \in Seq(Byte) /\ unwritten \in Seq(Byte)
      /\ index.docs # <<>> /\ image = file \o unwritten
  BY DEF SegmentInv, Byte
<1> HIDE DEF image
<1>2. /\ image \in Seq(Byte) /\ Len(image) = Len(file) + Len(unwritten)
      /\ \A i \in 1..Len(file) + Len(unwritten) :
           image[i] = IF i <= Len(file) THEN file[i] ELSE unwritten[i - Len(file)]
  BY <1>1, ConcatProperties
<1>3. Len(file) \in Nat /\ Len(unwritten) \in Nat
  BY <1>1, LenProperties
<1>4. \A i \in 1..Len(file) : image[i] = file[i]
  <2> TAKE i \in 1..Len(file)
  <2>1. i \in 1..Len(file) + Len(unwritten) /\ i <= Len(file)
    BY <1>3
  <2>2. QED
    BY <1>2, <2>1
<1>5. Begins(image)
  BY <1>1, <1>2, <1>3, <1>4 DEF Begins
<1>6. unwritten # <<>> => Len(unwritten) > 0
  BY <1>1, <1>3, EmptySeq
<1>7. unwritten = <<>> => Len(unwritten) = 0
  OBVIOUS
<1>8. QED
  BY <1>1, <1>2, <1>3, <1>5, <1>6, <1>7 DEF image

(* A finite set in some order: each element once.                            *)
LEMMA SetToSeqIs ==
  ASSUME NEW S, IsFiniteSet(S)
  PROVE  /\ SetToSeq(S) \in Seq(S) /\ IsInjective(SetToSeq(S)) /\ ToSet(SetToSeq(S)) = S
<1> DEFINE n == Cardinality(S)
           I == 1..n
           s == SetToSeq(S)
<1>1. n \in Nat /\ ExistsBijection(I, S)
  BY FS_CardinalityType
<1>2. \E f \in [I -> S] : IsInjective(f)
  BY <1>1 DEF ExistsBijection, Bijection, Injection
<1>3. s \in [I -> S] /\ IsInjective(s)
  BY <1>2 DEF SetToSeq
<1>4. Cardinality(I) = n
  BY <1>1, FS_Interval
<1> HIDE DEF s
<1>5. s \in Surjection(I, S)
  <2>1. s \in Injection(I, S)
    BY <1>3 DEF Injection
  <2>2. Cardinality(I) = Cardinality(S)
    BY <1>4
  <2> HIDE DEF I, n
  <2>3. QED
    BY <2>1, <2>2, FS_Injection
<1>6. s \in Seq(S)
  BY <1>1, <1>3
<1>7. ToSet(s) = S
  BY <1>3, <1>5 DEF Surjection, ToSet
<1>8. QED
  BY <1>3, <1>6, <1>7 DEF s

(* Two lists without an element in common, one after the other.              *)
LEMMA InjectiveConcat ==
  ASSUME NEW S, NEW s \in Seq(S), NEW t \in Seq(S), IsInjective(s), IsInjective(t),
         ToSet(s) \cap ToSet(t) = {}
  PROVE  /\ s \o t \in Seq(S) /\ IsInjective(s \o t)
         /\ ToSet(s \o t) = ToSet(s) \cup ToSet(t)
<1> DEFINE u == s \o t
           m == Len(s)
           n == Len(t)
<1>1. /\ m \in Nat /\ n \in Nat /\ DOMAIN s = 1..m /\ DOMAIN t = 1..n
  BY LenProperties
<1>2. /\ u \in Seq(S) /\ Len(u) = m + n
      /\ \A i \in 1..m + n : u[i] = IF i <= m THEN s[i] ELSE t[i - m]
  BY ConcatProperties
<1>3. DOMAIN u = 1..m + n
  BY <1>2
<1>4. \A i \in 1..m : i \in DOMAIN s /\ s[i] \in ToSet(s)
  BY <1>1 DEF ToSet
<1>5. \A i \in 1..n : i \in DOMAIN t /\ t[i] \in ToSet(t)
  BY <1>1 DEF ToSet
<1> HIDE DEF u, m, n
<1>6. \A i \in 1..m + n : \/ i \in 1..m /\ u[i] = s[i]
                          \/ i - m \in 1..n /\ ~(i <= m) /\ u[i] = t[i - m]
  <2> TAKE i \in 1..m + n
  <2>1. CASE i <= m
    BY <1>1, <1>2, <2>1
  <2>2. CASE ~(i <= m)
    BY <1>1, <1>2, <2>2
  <2>3. QED
    BY <2>1, <2>2
<1>7. ASSUME NEW i \in 1..m + n, NEW k \in 1..m + n, u[i] = u[k] PROVE i = k
  <2>1. CASE i \in 1..m /\ u[i] = s[i] /\ k \in 1..m /\ u[k] = s[k]
    BY <1>4, <1>7, <2>1 DEF IsInjective
  <2>2. CASE i \in 1..m /\ u[i] = s[i] /\ k - m \in 1..n /\ u[k] = t[k - m]
    BY <1>4, <1>5, <1>7, <2>2
  <2>3. CASE k \in 1..m /\ u[k] = s[k] /\ i - m \in 1..n /\ u[i] = t[i - m]
    BY <1>4, <1>5, <1>7, <2>3
  <2>4. CASE i - m \in 1..n /\ u[i] = t[i - m] /\ k - m \in 1..n /\ u[k] = t[k - m]
    <3>1. i - m = k - m
      BY <1>5, <1>7, <2>4 DEF IsInjective
    <3>2. QED
      BY <1>1, <3>1
  <2>5. QED
    BY <1>6, <2>1, <2>2, <2>3, <2>4
<1>8. IsInjective(u)
  BY <1>3, <1>7 DEF IsInjective
<1>9. ToSet(u) = ToSet(s) \cup ToSet(t)
  <2>1. ASSUME NEW x \in ToSet(u) PROVE x \in ToSet(s) \cup ToSet(t)
    <3>1. PICK i \in 1..m + n : x = u[i]
      BY <1>3 DEF ToSet
    <3>2. QED
      BY <1>4, <1>5, <1>6, <3>1
  <2>2. ASSUME NEW x \in ToSet(s) PROVE x \in ToSet(u)
    <3>1. PICK i \in 1..m : x = s[i]
      BY <1>1 DEF ToSet
    <3>2. i \in 1..m + n /\ i <= m
      BY <1>1
    <3>3. u[i] = x
      BY <1>2, <3>1, <3>2
    <3>4. QED
      BY <1>3, <3>2, <3>3 DEF ToSet
  <2>3. ASSUME NEW x \in ToSet(t) PROVE x \in ToSet(u)
    <3>1. PICK i \in 1..n : x = t[i]
      BY <1>1 DEF ToSet
    <3>2. i + m \in 1..m + n /\ ~(i + m <= m) /\ (i + m) - m = i
      BY <1>1
    <3>3. u[i + m] = x
      BY <1>2, <3>1, <3>2
    <3>4. QED
      BY <1>3, <3>2, <3>3 DEF ToSet
  <2>4. QED
    BY <2>1, <2>2, <2>3
<1>10. QED
  BY <1>2, <1>8, <1>9 DEF u

(* A byte that moves from the buffer to the file.                            *)
LEMMA MovedIs ==
  ASSUME NEW S, NEW s \in Seq(S), NEW t \in Seq(S), t # <<>>
  PROVE  /\ Append(s, Head(t)) \in Seq(S) /\ Tail(t) \in Seq(S)
         /\ Append(s, Head(t)) \o Tail(t) = s \o t
<1> DEFINE h == Head(t)
           a == Append(s, h)
           b == Tail(t)
           u == a \o b
           v == s \o t
           m == Len(s)
           n == Len(t)
<1>1. m \in Nat /\ n \in Nat /\ n # 0
  BY LenProperties, EmptySeq
<1>2. h \in S /\ h = t[1] /\ b \in Seq(S) /\ Len(b) = n - 1 /\ \A i \in 1..n - 1 : b[i] = t[i + 1]
  BY <1>1, HeadTailProperties
<1> HIDE DEF h
<1>3. /\ a \in Seq(S) /\ Len(a) = m + 1 /\ a[m + 1] = h
      /\ \A i \in 1..m : a[i] = s[i]
  BY <1>2, AppendProperties
<1> HIDE DEF a, b
<1>4. /\ u \in Seq(S) /\ Len(u) = Len(a) + Len(b)
      /\ \A i \in 1..Len(a) + Len(b) : u[i] = IF i <= Len(a) THEN a[i] ELSE b[i - Len(a)]
  BY <1>2, <1>3, ConcatProperties
<1>5. /\ v \in Seq(S) /\ Len(v) = m + n
      /\ \A i \in 1..m + n : v[i] = IF i <= m THEN s[i] ELSE t[i - m]
  BY ConcatProperties
<1> HIDE DEF u, v, m, n
<1>6. Len(u) = Len(v) /\ Len(a) + Len(b) = m + n
  BY <1>1, <1>2, <1>3, <1>4, <1>5
<1>7. \A i \in 1..Len(u) : u[i] = v[i]
  <2> TAKE i \in 1..Len(u)
  <2>0. i \in 1..m + n /\ i \in 1..Len(a) + Len(b)
    BY <1>5, <1>6
  <2>1. CASE i \in 1..m
    <3>1. u[i] = a[i] /\ v[i] = s[i]
      BY <1>1, <1>3, <1>4, <1>5, <2>0, <2>1
    <3>2. QED
      BY <1>3, <2>1, <3>1
  <2>2. CASE i = m + 1
    <3>1. u[i] = a[m + 1] /\ v[i] = t[1]
      BY <1>1, <1>3, <1>4, <1>5, <2>0, <2>2
    <3>2. QED
      BY <1>2, <1>3, <3>1
  <2>3. CASE ~(i <= m + 1)
    <3>1. u[i] = b[i - (m + 1)] /\ v[i] = t[i - m]
      BY <1>1, <1>3, <1>4, <1>5, <2>0, <2>3
    <3>2. i - (m + 1) \in 1..n - 1 /\ (i - (m + 1)) + 1 = i - m
      BY <1>1, <2>0, <2>3
    <3>3. QED
      BY <1>2, <3>1, <3>2
  <2>4. QED
    BY <1>1, <2>0, <2>1, <2>2, <2>3
<1>8. u = v
  BY <1>4, <1>5, <1>6, <1>7, SeqEqual
<1>9. QED
  BY <1>2, <1>3, <1>8 DEF a, b, u, v, h

(* Indexing a document keeps the index well formed.                          *)
LEMMA AddedIndexIsOK ==
  ASSUME IndexOK, NEW d \in Documents, index' = WithDocument(d)
  PROVE  IndexOK'
<1> DEFINE pos == Analyzed[d].positions
           terms == index.terms
           postings == index.postings
           T == DOMAIN pos
           new == T \ DOMAIN postings
           more == SetToSeq(new)
           P == Seq(Postings)
           with == WithPostings(postings, d)
<1>1. /\ terms \in Seq(Texts) /\ IsInjective(terms)
      /\ postings \in [ToSet(terms) -> P] /\ DOMAIN postings = ToSet(terms)
      /\ index.docs \in Seq(StoredDocs) /\ index.total \in Nat
  BY DEF IndexOK
<1>2. /\ d.id \in Texts /\ d.title \in Texts /\ d.body \in Texts
      /\ Analyzed[d].length \in Nat /\ IsFiniteSet(T)
      /\ \A t \in T : t \in Texts /\ pos[t] \in Seq(Nat)
  BY DocumentsAssumption
<1>3. /\ index'.terms = terms \o more /\ index'.postings = with
      /\ index'.docs = Append(index.docs, Stored(d))
      /\ index'.total = index.total + Analyzed[d].length
  BY DEF WithDocument
<1>4. new \subseteq Texts /\ IsFiniteSet(new) /\ new \cap ToSet(terms) = {}
  BY <1>1, <1>2, FS_Subset
<1>5. more \in Seq(Texts) /\ IsInjective(more) /\ ToSet(more) = new
  <2> HIDE DEF new
  <2>1. more \in Seq(new) /\ IsInjective(more) /\ ToSet(more) = new
    BY <1>4, SetToSeqIs
  <2>2. QED
    BY <1>4, <2>1
<1> HIDE DEF terms, more
<1>6. /\ terms \o more \in Seq(Texts) /\ IsInjective(terms \o more)
      /\ ToSet(terms \o more) = ToSet(terms) \cup new
  <2>1. ToSet(terms) \cap ToSet(more) = {}
    BY <1>4, <1>5
  <2> HIDE DEF new
  <2>2. QED
    BY <1>1, <1>5, <2>1, InjectiveConcat
<1>7. ToSet(terms \o more) = ToSet(terms) \cup T
  BY <1>1, <1>6
<1>8. \A t \in T : Posting(d, t) \in Postings
  <2> TAKE t \in T
  <2>1. pos[t] \in Seq(Nat) /\ Len(pos[t]) \in Nat
    BY <1>2, LenProperties
  <2>2. QED
    BY <1>2, <2>1 DEF Posting, Postings
<1>9. \A t \in T : Append(Get(postings, t), Posting(d, t)) \in P
  <2> TAKE t \in T
  <2>1. Get(postings, t) \in P
    BY <1>1 DEF Get
  <2>2. QED
    BY <1>8, <2>1, AppendProperties
<1>10. with \in [ToSet(terms) \cup T -> P]
  <2>1. with = [t \in DOMAIN postings \cup T |->
                  IF t \in T THEN Append(Get(postings, t), Posting(d, t)) ELSE postings[t]]
    BY DEF WithPostings
  <2> HIDE DEF with, T, postings, P
  <2>2. \A t \in ToSet(terms) \cup T :
          (IF t \in T THEN Append(Get(postings, t), Posting(d, t)) ELSE postings[t]) \in P
    BY <1>1, <1>9
  <2>3. QED
    BY <1>1, <2>1, <2>2
<1>11. Append(index.docs, Stored(d)) \in Seq(StoredDocs)
  <2>1. Stored(d) \in StoredDocs
    BY <1>2 DEF Stored, StoredDocs
  <2>2. QED
    BY <1>1, <2>1, AppendProperties
<1>12. index.total + Analyzed[d].length \in Nat
  BY <1>1, <1>2
<1> HIDE DEF with, new, T, pos
<1>13. /\ index'.terms \in Seq(Texts) /\ IsInjective(index'.terms)
       /\ index'.postings \in [ToSet(index'.terms) -> P]
       /\ index'.docs \in Seq(StoredDocs) /\ index'.total \in Nat
  BY <1>3, <1>6, <1>7, <1>10, <1>11, <1>12
<1>14. QED
  BY <1>13 DEF IndexOK

(* The empty index is.                                                       *)
LEMMA EmptyIsOK ==
  /\ index = Empty => IndexOK
  /\ index' = Empty => IndexOK'
<1> DEFINE none == <<>>
<1>1. /\ none \in Seq(Texts) /\ none \in Seq(StoredDocs) /\ DOMAIN none = {}
      /\ 0 \in Nat
  OBVIOUS
<1>2. IsInjective(none) /\ ToSet(none) = {}
  BY <1>1 DEF IsInjective, ToSet
<1>3. none \in [{} -> Seq(Postings)]
  OBVIOUS
<1>4. Empty = [terms |-> none, postings |-> none, docs |-> none, total |-> 0]
  BY DEF Empty
<1> HIDE DEF none
<1>5. ASSUME index = Empty PROVE IndexOK
  BY <1>1, <1>2, <1>3, <1>4, <1>5 DEF IndexOK
<1>6. ASSUME index' = Empty PROVE IndexOK'
  BY <1>1, <1>2, <1>3, <1>4, <1>6 DEF IndexOK
<1>7. QED
  BY <1>5, <1>6

LEMMA SegmentInvInit == Init => SegmentInv
<1> SUFFICES ASSUME Init PROVE SegmentInv
  OBVIOUS
<1>1. index = Empty /\ unwritten = <<>> /\ file = <<>> /\ pc = "buffering"
  BY DEF Init
<1>2. IndexOK
  BY <1>1, EmptyIsOK
<1>3. <<>> \in Seq(0..Base - 1)
  OBVIOUS
<1>4. QED
  BY <1>1, <1>2, <1>3 DEF SegmentInv

(* What a flush computes depends on the index alone.                         *)
LEMMA ImageStays ==
  ASSUME index' = index
  PROVE  Image' = Image /\ (IndexOK => IndexOK')
<1>1. PostingsSection' = PostingsSection /\ DocsSection' = DocsSection
  BY DEF PostingsSection, DocsSection
<1>2. EntriesEnd' = EntriesEnd
  BY DEF EntriesEnd
<1>3. PostingsStart' = PostingsStart
  BY <1>2 DEF PostingsStart
<1>4. DocsStart' = DocsStart
  BY <1>1, <1>3 DEF DocsStart
<1>5. Header' = Header
  BY <1>3, <1>4 DEF Header
<1>6. Dictionary' = Dictionary
  BY <1>1, <1>3 DEF Dictionary, EntryBytes, Offset
<1>7. Image' = Image
  BY <1>1, <1>5, <1>6 DEF Image
<1>8. IndexOK => IndexOK'
  BY DEF IndexOK
<1>9. QED
  BY <1>7, <1>8

LEMMA SegmentInvNext == SegmentInv /\ [Next]_vars => SegmentInv'
<1> SUFFICES ASSUME SegmentInv, [Next]_vars PROVE SegmentInv'
  OBVIOUS
<1>1. IndexOK /\ file \in Seq(Byte) /\ unwritten \in Seq(Byte)
  BY DEF SegmentInv, Byte
<1>2. <<>> \in Seq(Byte)
  OBVIOUS
<1>3. ASSUME NEW d \in Documents, AddDocument(d) PROVE SegmentInv'
  <2>1. /\ pc = "buffering" /\ index' = WithDocument(d)
        /\ unwritten' = unwritten /\ file' = file /\ pc' = pc
    BY <1>3 DEF AddDocument
  <2>2. IndexOK'
    BY <1>1, <2>1, AddedIndexIsOK
  <2>3. file = <<>> /\ unwritten = <<>>
    BY <2>1 DEF SegmentInv
  <2>4. QED
    BY <1>1, <2>1, <2>2, <2>3 DEF SegmentInv, Byte
<1>4. CASE Create
  <2>1. /\ index.docs # <<>> /\ unwritten' = Image /\ file' = <<>> /\ pc' = "writing"
        /\ index' = index
    BY <1>4 DEF Create
  <2>2. Image' = Image /\ IndexOK'
    BY <1>1, <2>1, ImageStays
  <2> DEFINE image == Image
  <2>3. image \in Seq(Byte)
    BY <1>1, ImageIs
  <2>4. unwritten' = image /\ Image' = image
    BY <2>1, <2>2
  <2> HIDE DEF image
  <2>5. <<>> \o image = image
    BY <2>3, ConcatEmptySeq
  <2>6. file' \o unwritten' = Image'
    BY <2>1, <2>4, <2>5
  <2>7. QED
    BY <1>2, <2>1, <2>2, <2>3, <2>4, <2>6 DEF SegmentInv, Byte
<1>5. CASE WriteMore
  <2>1. /\ pc = "writing" /\ unwritten # <<>> /\ file' = Append(file, Head(unwritten))
        /\ unwritten' = Tail(unwritten) /\ index' = index /\ pc' = pc
    BY <1>5 DEF WriteMore
  <2>2. Image' = Image /\ IndexOK'
    BY <1>1, <2>1, ImageStays
  <2>3. index.docs # <<>> /\ file \o unwritten = Image
    BY <2>1 DEF SegmentInv
  <2>4. /\ Append(file, Head(unwritten)) \in Seq(Byte) /\ Tail(unwritten) \in Seq(Byte)
        /\ Append(file, Head(unwritten)) \o Tail(unwritten) = file \o unwritten
    BY <1>1, <2>1, MovedIs
  <2>5. QED
    BY <2>1, <2>2, <2>3, <2>4 DEF SegmentInv, Byte
<1>6. CASE Finish
  <2>1. /\ unwritten = <<>> /\ pc' = "buffering" /\ index' = Empty /\ file' = <<>>
        /\ unwritten' = unwritten
    BY <1>6 DEF Finish
  <2>2. IndexOK'
    BY <2>1, EmptyIsOK
  <2>3. QED
    BY <1>2, <2>1, <2>2 DEF SegmentInv, Byte
<1>7. CASE UNCHANGED vars
  <2>1. index' = index /\ unwritten' = unwritten /\ file' = file /\ pc' = pc
    BY <1>7 DEF vars
  <2>2. Image' = Image /\ IndexOK'
    BY <1>1, <2>1, ImageStays
  <2>3. QED
    BY <2>1, <2>2 DEF SegmentInv
<1>8. QED
  BY <1>3, <1>4, <1>5, <1>6, <1>7 DEF Next

----------------------------------------------------------------------------
(* What memory and the file hold is always what the flush computed, and each *)
(* term has one entry and one list of postings (segment.rs:81-107,           *)
(* engine.rs:231-245).                                                       *)
THEOREM SegmentsAreTyped == Spec => []SegmentInv
<1>1. QED
  BY SegmentInvInit, SegmentInvNext, PTL DEF Spec

(* A segment that was not written to its end is refused, for every width of  *)
(* the fields, every index and wherever the writing stopped                  *)
(* (segment.rs:81-108, 129-290).                                             *)
THEOREM TornSegmentsAreRefused == Spec => []TornIsRefused
<1>1. SegmentInv => TornIsRefused
  <2> SUFFICES ASSUME SegmentInv, pc = "writing", unwritten # <<>>, AllFit
               PROVE  ParseFromBytes = Unreadable
    BY DEF TornIsRefused
  <2>1. QED
    BY FileIs, TornIs
<1>2. QED
  BY <1>1, SegmentsAreTyped, PTL

(* A whole segment is read back as the index that was written, for every     *)
(* width of the fields and every index whose numbers fit them                *)
(* (segment.rs:37, 57-60, 74-97).                                            *)
THEOREM WholeSegmentsAreReadBack == Spec => []WholeIsReadBack
<1>1. SegmentInv => WholeIsReadBack
  <2> SUFFICES ASSUME SegmentInv, pc = "writing", unwritten = <<>>, AllFit
               PROVE  ParseFromBytes = Index(index.postings, index.docs, index.total)
    BY DEF WholeIsReadBack
  <2>1. QED
    BY FileIs, WholeIs
<1>2. QED
  BY <1>1, SegmentsAreTyped, PTL

=============================================================================
