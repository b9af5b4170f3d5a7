--------------------------- MODULE SQLShellProofs ---------------------------
(***************************************************************************)
(* Theorems about SQLShell: splitSQL cuts every script of pieces that are  *)
(* self-contained into the statements it consists of, in one piece and     *)
(* where the shell cuts it, and the shell runs these in order, for any     *)
(* pieces, any number of them in a statement and of statements in a        *)
(* script, any failures, a person or a pipe.                               *)
(***************************************************************************)
EXTENDS SQLShell, FiniteSetTheorems, SequenceTheorems, TLAPS

-----------------------------------------------------------------------------
(* Numbers and lists.  Induction over the numbers up to n needs no more    *)
(* than their highest one, and recursion over them no more than induction. *)

(* A finite set of numbers has a highest one: otherwise the sets of those  *)
(* above each would have no smallest.                                      *)
LEMMA Highest ==
  ASSUME NEW S \in SUBSET Nat, IsFiniteSet(S), S # {}
  PROVE  \E n \in S : \A m \in S : m <= n
  <1> DEFINE Above(n) == {m \in S : n < m}
             Aboves == {Above(n) : n \in S}
  <1>1. Aboves \subseteq FiniteSubsetsOf(S) /\ Aboves # {}
    <2>1. Aboves \subseteq SUBSET S /\ Aboves # {}
      OBVIOUS
    <2>2. QED
      BY <2>1, FS_FiniteSubsetsOfFinite
  <1>2. PICK T \in Aboves : \A U \in Aboves : <<U, T>> \notin StrictSubsetOrdering(S)
    <2> HIDE DEF Aboves
    <2>1. QED
      BY <1>1, WFMin, FS_StrictSubsetOrderingWellFounded
  <1>3. PICK n \in S : T = Above(n)
    BY <1>2
  <1>4. ASSUME NEW m \in Above(n) PROVE FALSE
    <2>1. m \in S /\ n < m /\ m \in Int /\ n \in Int /\ S \subseteq Int
      OBVIOUS
    <2>2. \A k \in S : m < k => n < k
      BY <2>1
    <2>3. Above(m) \subseteq Above(n)
      BY <2>2
    <2>4. m \in Above(n) /\ m \notin Above(m)
      BY <2>1
    <2>5. <<Above(m), Above(n)>> \in StrictSubsetOrdering(S)
      BY <2>3, <2>4 DEF StrictSubsetOrdering
    <2>6. QED
      BY <1>2, <1>3, <2>1, <2>5
  <1>5. QED
    BY <1>4

(* Induction over the numbers up to n, for a set of them.                  *)
LEMMA Counting ==
  ASSUME NEW n \in Nat, NEW S, 0 \in S, \A i \in 1..n : i - 1 \in S => i \in S
  PROVE  0..n \subseteq S
  <1> DEFINE left == {i \in 0..n : n - i \notin S}
  <1>1. SUFFICES ASSUME left # {} PROVE FALSE
    <2>1. ASSUME NEW k \in 0..n PROVE n - k \in 0..n /\ n - (n - k) = k
      OBVIOUS
    <2>2. QED
      BY <2>1
  <1>2. left \in SUBSET Nat /\ IsFiniteSet(left)
    <2>1. left \subseteq 0..n /\ IsFiniteSet(0..n) /\ 0..n \subseteq Nat
      BY FS_Interval
    <2>2. QED
      BY <2>1, FS_Subset
  <1>3. PICK k \in left : \A m \in left : m <= k
    <2> HIDE DEF left
    <2>1. QED
      BY <1>1, <1>2, Highest
  <1>4. k \in 0..n /\ n - k \notin S
    BY <1>3
  <1>5. n - k # 0
    BY <1>4
  <1>6. n - k \in 1..n /\ (n - k) - 1 = n - (k + 1) /\ k + 1 \in 0..n
    BY <1>4, <1>5
  <1>7. n - (k + 1) \in S
    BY <1>3, <1>4, <1>6
  <1>8. QED
    BY <1>4, <1>6, <1>7

(* What a recursive definition over them has to do with its first value    *)
(* and its steps.                                                          *)
Follows(f, first, step, m) == f[0] = first /\ \A i \in 1..m : f[i] = step[<<i, f[i - 1]>>]

LEMMA Recursion ==
  ASSUME NEW n \in Nat, NEW X, NEW first \in X, NEW step \in [(1..n) \X X -> X]
  PROVE  \E f \in [0..n -> X] : Follows(f, first, step, n)
  <1> DEFINE S == {m \in 0..n : \E f \in [0..m -> X] : Follows(f, first, step, m)}
  <1>1. 0 \in S
    <2> DEFINE g == [i \in 0..0 |-> first]
    <2>1. g \in [0..0 -> X] /\ Follows(g, first, step, 0)
      BY DEF Follows
    <2> HIDE DEF g
    <2>2. QED
      BY <2>1
  <1>2. ASSUME NEW m \in 1..n, m - 1 \in S PROVE m \in S
    <2>1. PICK f \in [0..m - 1 -> X] : Follows(f, first, step, m - 1)
      BY <1>2
    <2> DEFINE g == [i \in 0..m |-> IF i = m THEN step[<<m, f[m - 1]>>] ELSE f[i]]
    <2>2. f[m - 1] \in X /\ <<m, f[m - 1]>> \in (1..n) \X X
      OBVIOUS
    <2>3. g \in [0..m -> X]
      <3>1. \A i \in 0..m : i # m => i \in 0..m - 1
        OBVIOUS
      <3>2. QED
        BY <2>2, <3>1
    <2>4. ASSUME NEW i \in 1..m PROVE g[i] = step[<<i, g[i - 1]>>]
      <3>1. i - 1 \in 0..m - 1 /\ g[i - 1] = f[i - 1]
        OBVIOUS
      <3>2. CASE i = m
        <4>1. g[m] = step[<<m, f[m - 1]>>]
          OBVIOUS
        <4> HIDE DEF g
        <4>2. QED
          BY <3>1, <3>2, <4>1
      <3>3. CASE i # m
        <4>1. i \in 1..m - 1 /\ g[i] = f[i]
          BY <3>3
        <4>2. QED
          BY <2>1, <3>1, <4>1 DEF Follows
      <3>4. QED
        BY <3>2, <3>3
    <2>5. g[0] = first
      BY <2>1 DEF Follows
    <2> HIDE DEF g
    <2>6. Follows(g, first, step, m) /\ m \in 0..n
      BY <2>4, <2>5 DEF Follows
    <2>7. QED
      BY <2>3, <2>6
  <1>3. n \in S
    <2> HIDE DEF S
    <2>1. 0..n \subseteq S /\ n \in 0..n
      BY <1>1, <1>2, Counting
    <2>2. QED
      BY <2>1
  <1>4. QED
    BY <1>3

(* A set of places has a first one and a last one.                         *)
LEMMA LowestHighest ==
  ASSUME NEW n \in Nat, NEW S \in SUBSET (1..n), S # {}
  PROVE  /\ Min(S) \in S /\ \A x \in S : Min(S) <= x
         /\ Max(S) \in S /\ \A x \in S : x <= Max(S)
  <1> DEFINE T == {n - x : x \in S}
  <1>1. IsFiniteSet(0..n)
    BY FS_Interval
  <1>2. S \in SUBSET Nat /\ IsFiniteSet(S) /\ T \in SUBSET Nat /\ IsFiniteSet(T) /\ T # {}
    <2>1. S \subseteq 0..n /\ 0..n \subseteq Nat
      OBVIOUS
    <2>2. \A x \in S : n - x \in 0..n
      BY <2>1
    <2>3. T \subseteq 0..n /\ T # {}
      BY <2>2, Zenon
    <2>4. QED
      BY <1>1, <2>1, <2>3, FS_Subset
  <1>3. PICK h \in S : \A x \in S : x <= h
    BY <1>2, Highest
  <1>4. PICK l \in T : \A x \in T : x <= l
    <2> HIDE DEF T
    <2>1. QED
      BY <1>2, Highest
  <1>5. PICK m \in S : l = n - m
    OBVIOUS
  <1>6. \A x \in S : m <= x
    BY <1>4, <1>5
  <1>7. QED
    BY <1>3, <1>6 DEF Min, Max

(* A list of sequences joined, one after the other.                        *)
LEMMA Flattened ==
  ASSUME NEW E, NEW seqs \in Seq(Seq(E))
  PROVE  \E f \in [0..Len(seqs) -> Seq(E)] :
            /\ f[0] = <<>> /\ f[Len(seqs)] = FlattenSeq(seqs)
            /\ \A i \in 1..Len(seqs) : f[i] = f[i - 1] \o seqs[i]
  <1> DEFINE n == Len(seqs)
             step == [p \in (1..n) \X Seq(E) |-> p[2] \o seqs[p[1]]]
  <1>1. n \in Nat /\ <<>> \in Seq(E) /\ \A i \in 1..n : seqs[i] \in Seq(E)
    BY LenProperties, ElementOfSeq, EmptySeq
  <1>2. step \in [(1..n) \X Seq(E) -> Seq(E)]
    BY <1>1, ConcatProperties
  <1>3. PICK f \in [0..n -> Seq(E)] : Follows(f, <<>>, step, n)
    <2> HIDE DEF n, step
    <2>1. QED
      BY <1>1, <1>2, Recursion
  <1>4. ASSUME NEW i \in 1..n PROVE f[i] = f[i - 1] \o seqs[i]
    <2> HIDE DEF n
    <2>0. i - 1 \in 0..n
      BY <1>1
    <2>1. f[i - 1] \in Seq(E)
      BY <2>0
    <2>2. step[<<i, f[i - 1]>>] = f[i - 1] \o seqs[i]
      BY <2>1
    <2>3. f[i] = step[<<i, f[i - 1]>>]
      BY <1>3 DEF Follows
    <2>4. QED
      BY <2>2, <2>3
  <1>5. f[0] = <<>>
    BY <1>3 DEF Follows
  <1>6. n # 0 => f[1] = seqs[1] /\ 1 \in 1..n
    <2> SUFFICES ASSUME n # 0 PROVE f[1] = seqs[1] /\ 1 \in 1..n
      OBVIOUS
    <2>1. 1 \in 1..n /\ 1 - 1 = 0
      BY <1>1
    <2>2. f[1] = <<>> \o seqs[1] /\ seqs[1] \in Seq(E)
      BY <1>1, <1>4, <1>5, <2>1
    <2>3. QED
      BY <2>1, <2>2, ConcatEmptySeq
  <1>7. CASE n = 0
    <2>1. FlattenSeq(seqs) = seqs /\ seqs = <<>>
      BY <1>7, EmptySeq DEF FlattenSeq
    <2>2. QED
      BY <1>4, <1>5, <1>7, <2>1
  <1>8. CASE n # 0
    <2> DEFINE Joined(g) == g = [i \in 1..n |-> IF i = 1 THEN seqs[i] ELSE g[i - 1] \o seqs[i]]
               flat == CHOOSE g : Joined(g)
               S == {i \in 0..n : i = 0 \/ flat[i] = f[i]}
    <2>1. Joined([i \in 1..n |-> f[i]])
      <3>1. ASSUME NEW i \in 1..n
            PROVE  f[i] = IF i = 1 THEN seqs[i] ELSE [k \in 1..n |-> f[k]][i - 1] \o seqs[i]
        <4>1. CASE i = 1
          BY <1>6, <1>8, <4>1
        <4>2. CASE i # 1
          <5>1. i - 1 \in 1..n
            BY <1>1, <4>2
          <5>2. [k \in 1..n |-> f[k]][i - 1] = f[i - 1]
            BY <5>1
          <5>3. QED
            BY <1>4, <4>2, <5>2
        <4>3. QED
          BY <4>1, <4>2
      <3>2. QED
        BY <3>1
    <2>2. Joined(flat)
      BY <2>1, Zenon
    <2>3. FlattenSeq(seqs) = flat[n]
      BY <1>8 DEF FlattenSeq
    <2>4. \A i \in 1..n : flat[i] = IF i = 1 THEN seqs[i] ELSE flat[i - 1] \o seqs[i]
      <3> DEFINE g == flat
      <3>1. g = [i \in 1..n |-> IF i = 1 THEN seqs[i] ELSE g[i - 1] \o seqs[i]]
        BY <2>2
      <3> HIDE DEF g, flat
      <3>2. \A i \in 1..n : g[i] = IF i = 1 THEN seqs[i] ELSE g[i - 1] \o seqs[i]
        BY <3>1, Zenon
      <3>3. QED
        BY <3>2 DEF g
    <2> HIDE DEF flat
    <2>5. 0 \in S
      BY <1>1
    <2>6. ASSUME NEW i \in 1..n, i - 1 \in S PROVE i \in S
      <3>1. CASE i = 1
        <4>1. 1 \in 0..n /\ flat[1] = seqs[1]
          BY <1>1, <1>6, <1>8, <2>4
        <4>2. QED
          BY <1>6, <1>8, <3>1, <4>1
      <3>2. CASE i # 1
        <4>1. i \in 0..n /\ i - 1 # 0
          BY <1>1, <3>2
        <4>2. flat[i - 1] = f[i - 1]
          BY <2>6, <4>1
        <4>3. flat[i] = f[i]
          BY <1>4, <2>4, <3>2, <4>2
        <4>4. QED
          BY <4>1, <4>3
      <3>3. QED
        BY <3>1, <3>2
    <2>7. 0..n \subseteq S
      <3> HIDE DEF S
      <3>1. QED
        BY <1>1, <2>5, <2>6, Counting
    <2>8. flat[n] = f[n]
      BY <1>1, <1>8, <2>7
    <2>9. QED
      BY <1>4, <1>5, <2>3, <2>8
  <1>9. QED
    BY <1>7, <1>8

(* At most n elements of X are a sequence over X.                          *)
LEMMA SomeOf ==
  ASSUME NEW X, NEW n \in Nat, NEW s \in SeqOf(X, n)
  PROVE  s \in Seq(X)
  <1>1. PICK m \in 0..n : s \in [1..m -> X]
    BY DEF SeqOf
  <1>2. m \in Nat /\ s = [i \in 1..m |-> s[i]] /\ \A k \in 1..m : s[k] \in X
    BY <1>1
  <1>3. QED
    BY <1>1, <1>2, SeqDef

-----------------------------------------------------------------------------
(* Text.                                                                   *)

(* Texts with the same symbols are the same.                               *)
LEMMA Same ==
  ASSUME NEW s \in Texts, NEW t \in Texts, Len(s) = Len(t), \A k \in 1..Len(s) : s[k] = t[k]
  PROVE  s = t
  BY SeqEqual DEF Texts

(* Concatenation, of texts and of lists of them, is associative.           *)
LEMMA Regrouped ==
  /\ \A s, t, u \in Texts : s \o (t \o u) = (s \o t) \o u
  /\ \A s, t, u \in Seq(Texts) : s \o (t \o u) = (s \o t) \o u
  <1>1. \A s, t, u \in Seq(Symbols) : s \o (t \o u) = (s \o t) \o u
    BY ConcatAssociative
  <1>2. \A s, t, u \in Seq(Texts) : s \o (t \o u) = (s \o t) \o u
    BY ConcatAssociative
  <1>3. QED
    BY <1>1, <1>2 DEF Texts

LEMMA Joined ==
  ASSUME NEW s \in Texts, NEW t \in Texts, NEW u \in Texts
  PROVE  s \o (t \o u) = (s \o t) \o u
  BY Regrouped, Zenon

(* The part of a text behind i, up to j.                                   *)
LEMMA PieceOf ==
  ASSUME NEW t \in Texts, NEW i \in 0..Len(t), NEW j \in i..Len(t)
  PROVE  /\ SubSeq(t, i + 1, j) \in Texts
         /\ Len(SubSeq(t, i + 1, j)) = j - i
         /\ \A k \in 1..j - i : SubSeq(t, i + 1, j)[k] = t[i + k]
  <1>1. Len(t) \in Nat /\ i + 1 \in Int /\ j \in Int
    BY LenProperties DEF Texts
  <1>2. \A k \in i + 1..j : t[k] \in Symbols
    BY <1>1, ElementOfSeq DEF Texts
  <1>3. /\ SubSeq(t, i + 1, j) \in Seq(Symbols)
        /\ Len(SubSeq(t, i + 1, j)) = IF i + 1 <= j THEN j - (i + 1) + 1 ELSE 0
        /\ \A k \in 1..j - (i + 1) + 1 : SubSeq(t, i + 1, j)[k] = t[i + 1 + k - 1]
    BY <1>1, <1>2, SubSeqProperties
  <1>4. QED
    BY <1>1, <1>3 DEF Texts

(* The symbols of two texts joined.                                        *)
LEMMA JoinIs ==
  ASSUME NEW a \in Texts, NEW u \in Texts
  PROVE  /\ a \o u \in Texts /\ Len(a) \in Nat /\ Len(u) \in Nat /\ Len(a \o u) = Len(a) + Len(u)
         /\ \A i \in 1..Len(a) : (a \o u)[i] = a[i]
         /\ \A i \in 1..Len(u) : (a \o u)[Len(a) + i] = u[i]
  <1>1. a \o u \in Seq(Symbols) /\ Len(a \o u) = Len(a) + Len(u)
        /\ \A i \in 1..Len(a) + Len(u) : (a \o u)[i] = IF i <= Len(a) THEN a[i] ELSE u[i - Len(a)]
    BY ConcatProperties DEF Texts
  <1>2. Len(a) \in Nat /\ Len(u) \in Nat
    BY LenProperties DEF Texts
  <1>3. QED
    BY <1>1, <1>2 DEF Texts

LEMMA Collecting ==
  ASSUME NEW t \in Texts, NEW i \in 0..Len(t), NEW j \in i..Len(t), NEW k \in j..Len(t)
  PROVE  SubSeq(t, i + 1, j) \o SubSeq(t, j + 1, k) = SubSeq(t, i + 1, k)
  <1>1. Len(t) \in Nat
    BY LenProperties DEF Texts
  <1>2. i + 1 \in 1..Len(t) + 1 /\ j \in i + 1 - 1..Len(t)
    BY <1>1
  <1>3. QED
    BY <1>2, ConcatAdjacentSubSeq DEF Texts

(* The beginning of a text, and of one text behind another.                *)
LEMMA StartOf ==
  ASSUME NEW t \in Texts, NEW j \in 0..Len(t)
  PROVE  /\ SubSeq(t, 1, j) \in Texts /\ Len(SubSeq(t, 1, j)) = j
         /\ \A k \in 1..j : SubSeq(t, 1, j)[k] = t[k]
         /\ t = SubSeq(t, 1, j) \o From(t, j) /\ From(t, j) \in Texts
         /\ SubSeq(t, 1, Len(t)) = t
  <1>1. Len(t) \in Nat /\ 0 \in 0..Len(t) /\ j \in 0..Len(t) /\ 0 + 1 = 1 /\ j - 0 = j
        /\ Len(t) \in j..Len(t)
    BY LenProperties DEF Texts
  <1>2. /\ SubSeq(t, 0 + 1, j) \in Texts /\ Len(SubSeq(t, 0 + 1, j)) = j - 0
        /\ \A k \in 1..j - 0 : SubSeq(t, 0 + 1, j)[k] = t[0 + k]
    BY <1>1, PieceOf
  <1>3. /\ SubSeq(t, 1, j) \in Texts /\ Len(SubSeq(t, 1, j)) = j
        /\ \A k \in 1..j : SubSeq(t, 1, j)[k] = t[k]
    BY <1>1, <1>2
  <1>4. SubSeq(t, 1, Len(t)) = t
    BY SubSeqFull DEF Texts
  <1>5. SubSeq(t, 0 + 1, j) \o SubSeq(t, j + 1, Len(t)) = SubSeq(t, 0 + 1, Len(t))
    BY <1>1, Collecting
  <1>6. From(t, j) \in Texts
    BY <1>1, PieceOf DEF From
  <1>7. QED
    BY <1>1, <1>3, <1>4, <1>5, <1>6 DEF From

(* The start of two texts joined.                                          *)
LEMMA StartOfJoin ==
  ASSUME NEW a \in Texts, NEW u \in Texts
  PROVE  /\ \A j \in 0..Len(a) : SubSeq(a \o u, 1, j) = SubSeq(a, 1, j)
         /\ \A m \in 0..Len(u) : SubSeq(a \o u, 1, Len(a) + m) = a \o SubSeq(u, 1, m)
  <1> DEFINE w == a \o u  d == Len(a)
  <1>1. /\ w \in Texts /\ d \in Nat /\ Len(u) \in Nat /\ Len(w) = d + Len(u)
        /\ \A i \in 1..d : w[i] = a[i]
        /\ \A i \in 1..Len(u) : w[d + i] = u[i]
    BY JoinIs
  <1> HIDE DEF w
  <1>2. ASSUME NEW j \in 0..d PROVE SubSeq(w, 1, j) = SubSeq(a, 1, j)
    <2>1. j \in 0..Len(w)
      BY <1>1
    <2>2. /\ SubSeq(w, 1, j) \in Texts /\ Len(SubSeq(w, 1, j)) = j
          /\ \A k \in 1..j : SubSeq(w, 1, j)[k] = w[k]
      BY <1>1, <2>1, StartOf
    <2>3. /\ SubSeq(a, 1, j) \in Texts /\ Len(SubSeq(a, 1, j)) = j
          /\ \A k \in 1..j : SubSeq(a, 1, j)[k] = a[k]
      BY StartOf
    <2>4. \A k \in 1..j : w[k] = a[k]
      BY <1>1
    <2>5. QED
      BY <2>2, <2>3, <2>4, Same
  <1>3. ASSUME NEW m \in 0..Len(u) PROVE SubSeq(w, 1, d + m) = a \o SubSeq(u, 1, m)
    <2> DEFINE b == SubSeq(u, 1, m)  n == d + m
    <2>1. n \in 0..Len(w) /\ n \in Nat
      BY <1>1
    <2>2. /\ SubSeq(w, 1, n) \in Texts /\ Len(SubSeq(w, 1, n)) = n
          /\ \A k \in 1..n : SubSeq(w, 1, n)[k] = w[k]
      <3> HIDE DEF n
      <3>1. QED
        BY <1>1, <2>1, StartOf
    <2>3. b \in Texts /\ Len(b) = m /\ \A k \in 1..m : b[k] = u[k]
      BY StartOf
    <2> HIDE DEF b
    <2>4. /\ a \o b \in Texts /\ Len(a \o b) = d + m /\ \A k \in 1..d : (a \o b)[k] = a[k]
          /\ \A k \in 1..m : (a \o b)[d + k] = b[k]
      BY <2>3, JoinIs
    <2>5. ASSUME NEW k \in 1..n PROVE w[k] = (a \o b)[k]
      <3>1. CASE k <= d
        BY <1>1, <2>4, <3>1
      <3>2. CASE k > d
        <4>1. k - d \in 1..m /\ k - d \in 1..Len(u) /\ k = d + (k - d)
          BY <1>1, <3>2
        <4>2. QED
          BY <1>1, <2>3, <2>4, <4>1
      <3>3. k <= d \/ k > d
        BY <1>1, <2>1
      <3>4. QED
        BY <3>1, <3>2, <3>3
    <2>6. SubSeq(w, 1, n) = a \o b
      <3> DEFINE p == SubSeq(w, 1, n)  q == a \o b
      <3>1. p \in Texts /\ q \in Texts /\ Len(p) = n /\ Len(q) = n /\ \A k \in 1..n : p[k] = q[k]
        BY <2>2, <2>4, <2>5
      <3> HIDE DEF p, q, n
      <3>2. p = q
        BY <3>1, Same
      <3>3. QED
        BY <3>2 DEF p, q
    <2>7. QED
      BY <2>6 DEF b
  <1>4. QED
    BY <1>2, <1>3 DEF w

(* What TrimSpace leaves ends in the last symbol that is no white space.   *)
LEMMA Trimmed ==
  ASSUME NEW s \in Texts
  PROVE  /\ TrimSpace(s) = <<>> <=> \A k \in 1..Len(s) : s[k] \in Space
         /\ TrimSpace(s) # <<>> =>
              \E k \in 1..Len(s) : /\ Last(TrimSpace(s)) = s[k]
                                   /\ \A l \in (k + 1)..Len(s) : s[l] \in Space
  <1> DEFINE kept == {i \in DOMAIN s : s[i] \notin Space}
  <1>1. DOMAIN s = 1..Len(s) /\ Len(s) \in Nat
    BY LenProperties DEF Texts
  <1>2. CASE kept = {}
    BY <1>1, <1>2 DEF TrimSpace
  <1>3. CASE kept # {}
    <2> DEFINE a == Min(kept)  b == Max(kept)
    <2>1. a \in kept /\ b \in kept /\ a <= b /\ \A x \in kept : x <= b
      BY <1>1, <1>3, LowestHighest
    <2>2. TrimSpace(s) = SubSeq(s, a, b)
      BY <1>3 DEF TrimSpace
    <2> HIDE DEF a, b
    <2>3. /\ a \in 1..Len(s) /\ b \in 1..Len(s) /\ s[b] \notin Space
          /\ \A l \in 1..Len(s) : l > b => s[l] \in Space
      BY <1>1, <2>1
    <2>4. Len(SubSeq(s, a, b)) = b - a + 1 /\ SubSeq(s, a, b)[b - a + 1] = s[b]
      <3>1. \A i \in a..b : s[i] \in Symbols
        BY <2>3, ElementOfSeq DEF Texts
      <3>2. a \in Int /\ b \in Int
        BY <2>3
      <3>3. /\ Len(SubSeq(s, a, b)) = IF a <= b THEN b - a + 1 ELSE 0
            /\ \A i \in 1..b - a + 1 : SubSeq(s, a, b)[i] = s[a + i - 1]
        BY <3>1, <3>2, SubSeqProperties
      <3>4. b - a + 1 \in 1..b - a + 1 /\ a + (b - a + 1) - 1 = b
        BY <2>1, <3>2
      <3>5. QED
        BY <2>1, <3>3, <3>4
    <2>5. TrimSpace(s) # <<>>
      BY <2>1, <2>2, <2>3, <2>4
    <2>6. Last(TrimSpace(s)) = s[b]
      BY <2>2, <2>4 DEF Last
    <2>7. QED
      BY <1>1, <2>3, <2>5, <2>6
  <1>4. QED
    BY <1>2, <1>3

(* TrimSpace gives a text.                                                 *)
LEMMA TrimType ==
  ASSUME NEW s \in Texts
  PROVE  TrimSpace(s) \in Texts
  <1> DEFINE kept == {i \in DOMAIN s : s[i] \notin Space}
  <1>1. DOMAIN s = 1..Len(s) /\ Len(s) \in Nat
    BY LenProperties DEF Texts
  <1>2. CASE kept = {}
    BY <1>2, EmptySeq DEF TrimSpace, Texts
  <1>3. CASE kept # {}
    <2>1. Min(kept) \in 1..Len(s) /\ Max(kept) \in 1..Len(s)
      BY <1>1, <1>3, LowestHighest
    <2>2. \A i \in Min(kept)..Max(kept) : s[i] \in Symbols
      BY <2>1, ElementOfSeq DEF Texts
    <2>3. SubSeq(s, Min(kept), Max(kept)) \in Texts
      BY <2>1, <2>2, SubSeqProperties DEF Texts
    <2>4. QED
      BY <1>3, <2>3 DEF TrimSpace
  <1>4. QED
    BY <1>2, <1>3

(* White space only.                                                       *)
Blank(s) == TrimSpace(s) = <<>>

(* Each symbol of it is white space.                                       *)
LEMMA BlankIs ==
  ASSUME NEW s \in Texts
  PROVE  Blank(s) <=> \A k \in 1..Len(s) : s[k] \in Space
  BY Trimmed DEF Blank

(* The empty text.                                                         *)
LEMMA NoText == <<>> \in Texts /\ Len(<<>>) = 0 /\ Blank(<<>>) /\ \A s \in Texts : s \o <<>> = s /\ <<>> \o s = s
  <1>1. <<>> \in Texts /\ Len(<<>>) = 0
    BY EmptySeq DEF Texts
  <1>2. Blank(<<>>)
    BY <1>1, BlankIs
  <1>3. \A s \in Texts : s \o <<>> = s /\ <<>> \o s = s
    BY ConcatEmptySeq DEF Texts
  <1>4. QED
    BY <1>1, <1>2, <1>3

(* Joined texts are blank if both are.                                     *)
LEMMA BlankJoin ==
  ASSUME NEW a \in Texts, NEW u \in Texts
  PROVE  Blank(a \o u) <=> Blank(a) /\ Blank(u)
  <1> DEFINE w == a \o u
  <1>1. /\ w \in Texts /\ Len(a) \in Nat /\ Len(u) \in Nat /\ Len(w) = Len(a) + Len(u)
        /\ \A i \in 1..Len(a) : w[i] = a[i]
        /\ \A i \in 1..Len(u) : w[Len(a) + i] = u[i]
    BY JoinIs
  <1> HIDE DEF w
  <1>2. ASSUME Blank(w) PROVE Blank(a) /\ Blank(u)
    <2>1. \A k \in 1..Len(w) : w[k] \in Space
      BY <1>1, <1>2, BlankIs
    <2>2. \A k \in 1..Len(a) : a[k] \in Space
      BY <1>1, <2>1
    <2>3. \A k \in 1..Len(u) : u[k] \in Space
      BY <1>1, <2>1
    <2>4. QED
      BY <2>2, <2>3, BlankIs
  <1>3. ASSUME Blank(a), Blank(u) PROVE Blank(w)
    <2>1. SUFFICES ASSUME NEW k \in 1..Len(w) PROVE w[k] \in Space
      BY <1>1, BlankIs
    <2>2. k \in 1..Len(a) \/ (k - Len(a) \in 1..Len(u) /\ k = Len(a) + (k - Len(a)))
      BY <1>1
    <2>3. QED
      BY <1>1, <1>3, <2>2, BlankIs
  <1>4. QED
    BY <1>2, <1>3 DEF w

(* A text of one symbol.                                                   *)
LEMMA OneSymbol ==
  ASSUME NEW c \in Symbols
  PROVE  /\ <<c>> \in Texts /\ Len(<<c>>) = 1 /\ <<c>>[1] = c
         /\ \A s \in Texts : Append(s, c) = s \o <<c>> /\ Append(s, c) \in Texts
         /\ c \in Space => Blank(<<c>>)
  <1> DEFINE u == <<c>>
  <1>1. u \in Texts /\ Len(u) = 1 /\ u[1] = c
    BY DEF Texts
  <1>2. \A s \in Texts : Append(s, c) = s \o u /\ Append(s, c) \in Texts
    BY AppendIsConcat, AppendProperties DEF Texts
  <1> HIDE DEF u
  <1>3. c \in Space => Blank(u)
    BY <1>1, BlankIs
  <1>4. QED
    BY <1>1, <1>2, <1>3 DEF u

(* What is kept of a text that is not blank lies between two places.       *)
Keeps(s, lo, hi) ==
    /\ lo \in 1..Len(s) /\ hi \in lo..Len(s) /\ s[lo] \notin Space /\ s[hi] \notin Space
    /\ \A k \in 1..Len(s) : k < lo \/ k > hi => s[k] \in Space

(* There are such places, and TrimSpace keeps what is between them.        *)
LEMMA KeepsIs ==
  ASSUME NEW s \in Texts
  PROVE  /\ Blank(s) \/ \E lo, hi \in 1..Len(s) : Keeps(s, lo, hi)
         /\ \A lo, hi \in 1..Len(s) : Keeps(s, lo, hi) => TrimSpace(s) = SubSeq(s, lo, hi)
  <1> DEFINE kept == {i \in DOMAIN s : s[i] \notin Space}
  <1>1. DOMAIN s = 1..Len(s) /\ Len(s) \in Nat
    BY LenProperties DEF Texts
  <1>2. CASE kept = {}
    <2>1. Blank(s)
      BY <1>2 DEF Blank, TrimSpace
    <2>2. \A lo, hi \in 1..Len(s) : ~Keeps(s, lo, hi)
      BY <1>1, <1>2 DEF Keeps
    <2>3. QED
      BY <2>1, <2>2
  <1>3. CASE kept # {}
    <2> DEFINE a == Min(kept)  b == Max(kept)
    <2>1. a \in kept /\ b \in kept /\ \A x \in kept : a <= x /\ x <= b
      BY <1>1, <1>3, LowestHighest
    <2>2. TrimSpace(s) = SubSeq(s, a, b)
      BY <1>3 DEF TrimSpace
    <2> HIDE DEF a, b
    <2>3. a \in 1..Len(s) /\ b \in 1..Len(s) /\ Keeps(s, a, b)
      BY <1>1, <2>1 DEF Keeps
    <2>4. ASSUME NEW lo \in 1..Len(s), NEW hi \in 1..Len(s), Keeps(s, lo, hi)
          PROVE  lo = a /\ hi = b
      <3>1. lo \in kept /\ hi \in kept
        BY <1>1, <2>4 DEF Keeps
      <3>2. ~(a < lo) /\ ~(a > hi) /\ ~(b < lo) /\ ~(b > hi)
        BY <2>1, <2>3, <2>4 DEF Keeps
      <3>3. QED
        BY <1>1, <2>1, <3>1, <3>2
    <2>5. QED
      BY <2>2, <2>3, <2>4
  <1>4. QED
    BY <1>2, <1>3

(* White space around a text does not change what is kept of it.           *)
LEMMA TrimAround ==
  ASSUME NEW b \in Texts, NEW c \in Texts, Blank(b)
  PROVE  TrimSpace(b \o c) = TrimSpace(c) /\ TrimSpace(c \o b) = TrimSpace(c)
  <1>1. CASE Blank(c)
    BY <1>1, BlankJoin DEF Blank
  <1>2. CASE ~Blank(c)
    <2>1. PICK lo \in 1..Len(c), hi \in 1..Len(c) : Keeps(c, lo, hi)
      BY <1>2, KeepsIs
    <2>2. TrimSpace(c) = SubSeq(c, lo, hi) /\ Len(c) \in Nat /\ Len(b) \in Nat
      BY <2>1, KeepsIs, JoinIs
    <2>3. lo \in 1..Len(c) /\ hi \in lo..Len(c) /\ lo - 1 \in 0..Len(c) /\ hi \in lo - 1..Len(c)
      BY <2>1 DEF Keeps
    <2>4. /\ SubSeq(c, lo - 1 + 1, hi) \in Texts
          /\ Len(SubSeq(c, lo - 1 + 1, hi)) = hi - (lo - 1)
          /\ \A k \in 1..hi - (lo - 1) : SubSeq(c, lo - 1 + 1, hi)[k] = c[lo - 1 + k]
      BY <2>3, PieceOf
    <2> DEFINE n == hi - (lo - 1)
               kept == SubSeq(c, lo, hi)
    <2>5. /\ lo - 1 + 1 = lo /\ n \in Nat
      BY <2>3
    <2>6. kept \in Texts /\ Len(kept) = n /\ \A k \in 1..n : kept[k] = c[lo - 1 + k]
      BY <2>4, <2>5
    <2>7. TrimSpace(b \o c) = kept
      <3> DEFINE w == b \o c  d == Len(b)
      <3>1. /\ w \in Texts /\ d \in Nat /\ Len(w) = d + Len(c)
            /\ \A i \in 1..d : w[i] = b[i]
            /\ \A i \in 1..Len(c) : w[d + i] = c[i]
        BY JoinIs
      <3>2. \A i \in 1..d : b[i] \in Space
        BY BlankIs
      <3> HIDE DEF w, d
      <3>3. d + lo \in 1..Len(w) /\ d + hi \in d + lo..Len(w)
        BY <2>2, <2>3, <3>1
      <3>4. w[d + lo] \notin Space /\ w[d + hi] \notin Space
        BY <2>1, <2>3, <3>1 DEF Keeps
      <3>5. ASSUME NEW k \in 1..Len(w), k < d + lo \/ k > d + hi PROVE w[k] \in Space
        <4>1. CASE k <= d
          BY <3>1, <3>2, <3>5, <4>1
        <4>2. CASE k > d
          <5>1. k - d \in 1..Len(c) /\ k = d + (k - d) /\ (k - d < lo \/ k - d > hi)
            BY <2>2, <2>3, <3>1, <3>5, <4>2
          <5>2. QED
            BY <2>1, <3>1, <5>1 DEF Keeps
        <4>3. QED
          BY <3>1, <4>1, <4>2
      <3>6. Keeps(w, d + lo, d + hi) /\ d + hi \in 1..Len(w)
        BY <2>3, <3>1, <3>3, <3>4, <3>5 DEF Keeps
      <3>7. TrimSpace(w) = SubSeq(w, d + lo, d + hi)
        BY <3>1, <3>3, <3>6, KeepsIs
      <3> DEFINE e == d + (lo - 1)  f == d + hi
      <3>8. e \in 0..Len(w) /\ f \in e..Len(w) /\ e + 1 = d + lo /\ f - e = n
        BY <2>2, <2>3, <3>1
      <3> HIDE DEF n, kept
      <3>9. /\ SubSeq(w, d + lo, d + hi) \in Texts /\ Len(SubSeq(w, d + lo, d + hi)) = n
            /\ \A k \in 1..n : SubSeq(w, d + lo, d + hi)[k] = w[d + (lo - 1) + k]
        <4> HIDE DEF e, f
        <4>1. /\ SubSeq(w, e + 1, f) \in Texts /\ Len(SubSeq(w, e + 1, f)) = f - e
              /\ \A k \in 1..f - e : SubSeq(w, e + 1, f)[k] = w[e + k]
          BY <3>1, <3>8, PieceOf
        <4>2. QED
          BY <3>8, <4>1 DEF e, f
      <3>10. ASSUME NEW k \in 1..n PROVE w[d + (lo - 1) + k] = c[lo - 1 + k]
        <4>1. lo - 1 + k \in 1..Len(c) /\ d + (lo - 1) + k = d + (lo - 1 + k)
          BY <2>2, <2>3, <3>1 DEF n
        <4>2. QED
          BY <3>1, <4>1
      <3>11. SubSeq(w, d + lo, d + hi) = kept
        BY <2>6, <3>9, <3>10, Same
      <3>12. QED
        BY <3>7, <3>11 DEF w
    <2>8. TrimSpace(c \o b) = kept
      <3> DEFINE w == c \o b
      <3>1. /\ w \in Texts /\ Len(b) \in Nat /\ Len(w) = Len(c) + Len(b)
            /\ \A i \in 1..Len(c) : w[i] = c[i]
            /\ \A i \in 1..Len(b) : w[Len(c) + i] = b[i]
        BY JoinIs
      <3>2. \A i \in 1..Len(b) : b[i] \in Space
        BY BlankIs
      <3> HIDE DEF w
      <3>3. lo \in 1..Len(w) /\ hi \in lo..Len(w) /\ hi \in 1..Len(w)
        BY <2>2, <2>3, <3>1
      <3>4. ASSUME NEW k \in 1..Len(w), k < lo \/ k > hi PROVE w[k] \in Space
        <4>1. CASE k <= Len(c)
          BY <2>1, <2>2, <3>1, <3>4, <4>1 DEF Keeps
        <4>2. CASE k > Len(c)
          <5>1. k - Len(c) \in 1..Len(b) /\ k = Len(c) + (k - Len(c))
            BY <2>2, <3>1, <3>4, <4>2
          <5>2. QED
            BY <3>1, <3>2, <5>1
        <4>3. QED
          BY <2>2, <4>1, <4>2
      <3>5. Keeps(w, lo, hi)
        BY <2>1, <2>3, <3>1, <3>3, <3>4 DEF Keeps
      <3>6. TrimSpace(w) = SubSeq(w, lo, hi)
        BY <3>1, <3>3, <3>5, KeepsIs
      <3>7. lo - 1 \in 0..Len(w) /\ hi \in lo - 1..Len(w)
        BY <3>3, <3>1, <2>2
      <3> HIDE DEF n, kept
      <3>8. /\ SubSeq(w, lo, hi) \in Texts /\ Len(SubSeq(w, lo, hi)) = n
            /\ \A k \in 1..n : SubSeq(w, lo, hi)[k] = w[lo - 1 + k]
        <4>1. /\ SubSeq(w, lo - 1 + 1, hi) \in Texts
              /\ Len(SubSeq(w, lo - 1 + 1, hi)) = hi - (lo - 1)
              /\ \A k \in 1..hi - (lo - 1) : SubSeq(w, lo - 1 + 1, hi)[k] = w[lo - 1 + k]
          BY <3>1, <3>7, PieceOf
        <4>2. QED
          BY <2>5, <4>1 DEF n
      <3>9. ASSUME NEW k \in 1..n PROVE w[lo - 1 + k] = c[lo - 1 + k]
        <4>1. lo - 1 + k \in 1..Len(c)
          BY <2>2, <2>3 DEF n
        <4>2. QED
          BY <3>1, <4>1
      <3>10. SubSeq(w, lo, hi) = kept
        BY <2>6, <3>8, <3>9, Same
      <3>11. QED
        BY <3>6, <3>10 DEF w
    <2>9. QED
      BY <2>2, <2>7, <2>8
  <1>3. QED
    BY <1>1, <1>2

-----------------------------------------------------------------------------
(* splitSQL, one step after the other.                                     *)

(* The states of the loop.                                                 *)
ScanStates ==
    [from : Nat, quote : ({"none"} \union Quotes), depth : Nat, buf : Texts, stmts : Seq(Texts)]

(* Put changes nothing but the buffer.                                     *)
LEMMA PutType ==
  ASSUME NEW s \in ScanStates, NEW cs \in Texts
  PROVE  /\ Put(s, cs) \in ScanStates
         /\ Put(s, cs).buf = s.buf \o cs /\ Put(s, cs).stmts = s.stmts
         /\ Put(s, cs).quote = s.quote /\ Put(s, cs).depth = s.depth /\ Put(s, cs).from = s.from
  <1>1. s.buf \in Texts /\ s.buf \o cs \in Texts
    BY ConcatProperties DEF ScanStates, Texts
  <1>2. QED
    BY <1>1 DEF ScanStates, Put

(* Flush empties the buffer and keeps what it held unless that is blank.   *)
LEMMA FlushType ==
  ASSUME NEW s \in ScanStates
  PROVE  /\ Flush(s) \in ScanStates
         /\ Flush(s).buf = <<>>
         /\ Flush(s).stmts = IF TrimSpace(s.buf) = <<>> THEN s.stmts ELSE Append(s.stmts, TrimSpace(s.buf))
         /\ Flush(s).quote = s.quote /\ Flush(s).depth = s.depth /\ Flush(s).from = s.from
  <1>1. s.buf \in Texts /\ TrimSpace(s.buf) \in Texts /\ s.stmts \in Seq(Texts)
    BY TrimType DEF ScanStates
  <1>2. Append(s.stmts, TrimSpace(s.buf)) \in Seq(Texts)
    BY <1>1, AppendProperties
  <1>3. <<>> \in Texts
    BY EmptySeq DEF Texts
  <1>4. QED
    BY <1>1, <1>2, <1>3 DEF ScanStates, Flush

(* The first line break from i on, or the end.                             *)
LEMMA LineEndIs ==
  ASSUME NEW t \in Texts, NEW i \in 1..Len(t)
  PROVE  /\ LineEnd(t, i) \in i..Len(t)
         /\ t[LineEnd(t, i)] = "newline" \/ LineEnd(t, i) = Len(t)
         /\ \A j \in i..(LineEnd(t, i) - 1) : t[j] # "newline"
  <1> DEFINE ends == {j \in i..Len(t) : t[j] = "newline"}
  <1>1. Len(t) \in Nat
    BY LenProperties DEF Texts
  <1>2. CASE ends = {}
    BY <1>1, <1>2 DEF LineEnd
  <1>3. CASE ends # {}
    <2>1. ends \in SUBSET (1..Len(t))
      BY <1>1
    <2>2. Min(ends) \in ends /\ \A x \in ends : Min(ends) <= x
      <3> HIDE DEF ends
      <3>1. QED
        BY <1>1, <1>3, <2>1, LowestHighest
    <2>3. LineEnd(t, i) = Min(ends)
      BY <1>3 DEF LineEnd
    <2> DEFINE m == Min(ends)
    <2> HIDE DEF m
    <2>4. m \in i..Len(t) /\ t[m] = "newline" /\ \A j \in i..Len(t) : t[j] = "newline" => m <= j
      BY <2>2 DEF m
    <2>5. QED
      BY <1>1, <2>3, <2>4 DEF m
  <1>4. QED
    BY <1>2, <1>3

(* A step of the loop gives a state of it.                                 *)
LEMMA ScanType ==
  ASSUME NEW raw \in Texts, NEW i \in 1..Len(raw), NEW s \in ScanStates
  PROVE  Scan(raw, s, i) \in ScanStates
  <1>1. raw[i] \in Symbols /\ Len(raw) \in Nat /\ "newline" \in Symbols
    BY ElementOfSeq, LenProperties DEF Texts, Symbols, Space
  <1>2. <<raw[i]>> \in Texts /\ <<raw[i], raw[i]>> \in Texts /\ <<"newline">> \in Texts
    BY <1>1 DEF Texts
  <1>3. LineEnd(raw, i) + 1 \in Nat /\ i + 2 \in Nat
    BY <1>1, LineEndIs
  <1>4. ASSUME NEW p \in ScanStates, NEW n \in Nat, NEW q \in ({"none"} \union Quotes)
        PROVE  /\ [p EXCEPT !.from = n] \in ScanStates /\ [p EXCEPT !.quote = q] \in ScanStates
               /\ [p EXCEPT !.depth = n] \in ScanStates
    BY DEF ScanStates
  <1>5. InString(raw, s, i) \in ScanStates
    <2>1. Put(s, <<raw[i]>>) \in ScanStates /\ Put(s, <<raw[i], raw[i]>>) \in ScanStates
      BY <1>2, PutType
    <2>2. QED
      BY <1>3, <1>4, <2>1 DEF InString
  <1>6. Outside(raw, s, i) \in ScanStates
    <2>1. Depth(raw, s, i) \in Nat
      BY DEF Depth, ScanStates
    <2>2. /\ Put(s, <<raw[i]>>) \in ScanStates /\ Put(s, <<"newline">>) \in ScanStates
          /\ Flush(s) \in ScanStates
      BY <1>2, PutType, FlushType
    <2>3. QED
      BY <1>3, <1>4, <2>1, <2>2 DEF Outside
  <1>7. s.from \in Nat /\ i \in Nat
    BY <1>1 DEF ScanStates
  <1>8. QED
    BY <1>5, <1>6, <1>7 DEF Scan

(* The loop does one step after the other.                                 *)
LEMMA ScannedIs ==
  ASSUME NEW raw \in Texts
  PROVE  /\ Len(raw) \in Nat
         /\ Scanned(raw) \in [0..Len(raw) -> ScanStates]
         /\ Scanned(raw)[0] = Unscanned
         /\ \A i \in 1..Len(raw) : Scanned(raw)[i] = Scan(raw, Scanned(raw)[i - 1], i)
  <1> DEFINE n == Len(raw)
             step == [p \in (1..n) \X ScanStates |-> Scan(raw, p[2], p[1])]
  <1>1. n \in Nat
    BY LenProperties DEF Texts
  <1>2. Unscanned \in ScanStates
    BY EmptySeq DEF Unscanned, ScanStates, Texts
  <1>3. step \in [(1..n) \X ScanStates -> ScanStates]
    BY ScanType
  <1>4. PICK f \in [0..n -> ScanStates] : Follows(f, Unscanned, step, n)
    <2> HIDE DEF n, step
    <2>1. QED
      BY <1>1, <1>2, <1>3, Recursion
  <1>5. ASSUME NEW i \in 1..n PROVE f[i] = Scan(raw, f[i - 1], i)
    <2>1. i - 1 \in 0..n /\ f[i - 1] \in ScanStates
      BY <1>1
    <2>2. step[<<i, f[i - 1]>>] = Scan(raw, f[i - 1], i)
      BY <2>1
    <2>3. QED
      BY <1>4, <2>2 DEF Follows
  <1>6. f = [i \in 0..n |-> IF i = 0 THEN Unscanned ELSE Scan(raw, f[i - 1], i)]
    BY <1>1, <1>4, <1>5 DEF Follows
  <1>7. Scanned(raw) = CHOOSE g : g = [i \in 0..n |-> IF i = 0 THEN Unscanned ELSE Scan(raw, g[i - 1], i)]
    BY DEF Scanned
  <1>8. Scanned(raw) = [i \in 0..n |-> IF i = 0 THEN Unscanned ELSE Scan(raw, Scanned(raw)[i - 1], i)]
    BY <1>6, <1>7, Zenon
  <1>9. QED
    OBVIOUS

(* The state the loop ends in.                                             *)
LEMMA FinalIs ==
  ASSUME NEW u \in Texts
  PROVE  /\ Final(u) \in ScanStates /\ Final(u).buf \in Texts /\ Final(u).stmts \in Seq(Texts)
         /\ Final(u).from \in Nat
  <1>1. Final(u) \in ScanStates
    <2>1. Len(u) \in Nat /\ Scanned(u) \in [0..Len(u) -> ScanStates]
      BY ScannedIs
    <2>2. QED
      BY <2>1 DEF Final
  <1>2. QED
    BY <1>1 DEF ScanStates

(* A blank text is no statement.                                           *)
LEMMA FilledIs ==
  ASSUME NEW s \in Texts
  PROVE  Filled(TrimSpace(s)) \in Seq(Texts) /\ (Blank(s) => Filled(TrimSpace(s)) = <<>>)
  <1>1. TrimSpace(s) \in Texts
    BY TrimType
  <1>2. QED
    BY <1>1, EmptySeq DEF Filled, Blank

(* What splitSQL finds is what it found before and what is left then.      *)
LEMMA SplitIs ==
  ASSUME NEW u \in Texts
  PROVE  /\ splitSQL(u) = Final(u).stmts \o Filled(TrimSpace(Final(u).buf))
         /\ splitSQL(u) \in Seq(Texts)
  <1> DEFINE f == Final(u)  e == TrimSpace(f.buf)
  <1>1. f \in ScanStates /\ f.stmts \in Seq(Texts) /\ f.buf \in Texts /\ e \in Texts
    BY FinalIs, TrimType
  <1>2. splitSQL(u) = Flush(f).stmts
    BY DEF splitSQL
  <1> HIDE DEF f
  <1>3. Flush(f).stmts = IF e = <<>> THEN f.stmts ELSE Append(f.stmts, e)
    BY <1>1, FlushType
  <1> HIDE DEF e
  <1>4. CASE e = <<>>
    BY <1>1, <1>2, <1>3, <1>4, ConcatEmptySeq DEF Filled, f, e
  <1>5. CASE e # <<>>
    <2>1. Append(f.stmts, e) = f.stmts \o <<e>> /\ Append(f.stmts, e) \in Seq(Texts)
      BY <1>1, AppendIsConcat, AppendProperties
    <2>2. Filled(e) = <<e>>
      BY <1>5 DEF Filled
    <2>3. splitSQL(u) = f.stmts \o Filled(e) /\ splitSQL(u) \in Seq(Texts)
      BY <1>2, <1>3, <1>5, <2>1, <2>2
    <2>4. QED
      BY <2>3 DEF f, e
  <1>6. QED
    BY <1>4, <1>5

-----------------------------------------------------------------------------
(* One text behind another.                                                *)

(* The scans of a text alone and behind d symbols of another one.          *)
Behind(u, w, d) == Len(w) = d + Len(u) /\ \A k \in 1..Len(u) : w[d + k] = u[k]

Alike(x, y, d) ==
    /\ x.quote = y.quote /\ x.depth = y.depth
    /\ y.from = d + x.from \/ (x.from = 1 /\ y.from <= d + 1)

(* A text behind another shows each step the same symbols.                 *)
LEMMA SameView ==
  ASSUME NEW u \in Texts, NEW w \in Texts, NEW d \in Nat, Behind(u, w, d), NEW i \in 1..Len(u)
  PROVE  /\ d + i \in 1..Len(w) /\ w[d + i] = u[i] /\ After(w, d + i) = After(u, i)
         /\ LineEnd(w, d + i) = d + LineEnd(u, i)
  <1>1. /\ Len(u) \in Nat /\ Len(w) = d + Len(u) /\ d + i \in 1..Len(w)
        /\ \A k \in 1..Len(u) : w[d + k] = u[k]
    BY LenProperties DEF Texts, Behind
  <1>2. After(w, d + i) = After(u, i)
    <2>1. CASE i < Len(u)
      <3>1. i + 1 \in 1..Len(u) /\ d + (i + 1) = d + i + 1 /\ d + i < Len(w)
        BY <1>1, <2>1
      <3>2. w[d + i + 1] = u[i + 1]
        BY <1>1, <3>1
      <3>3. QED
        BY <2>1, <3>1, <3>2 DEF After
    <2>2. CASE ~(i < Len(u))
      BY <1>1, <2>2 DEF After
    <2>3. QED
      BY <2>1, <2>2
  <1>3. LineEnd(w, d + i) = d + LineEnd(u, i)
    <2> DEFINE m == LineEnd(u, i)  n == LineEnd(w, d + i)
    <2>1. /\ m \in i..Len(u) /\ (u[m] = "newline" \/ m = Len(u))
          /\ \A j \in i..(m - 1) : u[j] # "newline"
      BY LineEndIs
    <2>2. /\ n \in d + i..Len(w) /\ (w[n] = "newline" \/ n = Len(w))
          /\ \A j \in d + i..(n - 1) : w[j] # "newline"
      BY <1>1, LineEndIs
    <2> HIDE DEF m, n
    <2>3. ASSUME n < d + m PROVE FALSE
      <3>1. n - d \in i..(m - 1) /\ n - d \in 1..Len(u) /\ n = d + (n - d)
        BY <1>1, <2>1, <2>2, <2>3
      <3>2. w[n] = u[n - d] /\ u[n - d] # "newline" /\ n # Len(w)
        BY <1>1, <2>1, <2>3, <3>1
      <3>3. QED
        BY <2>2, <3>2
    <2>4. ASSUME n > d + m PROVE FALSE
      <3>1. d + m \in d + i..(n - 1) /\ m \in 1..Len(u)
        BY <1>1, <2>1, <2>2, <2>4
      <3>2. w[d + m] = u[m] /\ w[d + m] # "newline" /\ m # Len(u)
        BY <1>1, <2>2, <2>4, <3>1
      <3>3. QED
        BY <2>1, <3>2
    <2>5. n = d + m
      BY <1>1, <2>1, <2>2, <2>3, <2>4
    <2>6. QED
      BY <2>5 DEF m, n
  <1>4. QED
    BY <1>1, <1>2, <1>3

(* Both put the same, or both end a statement.                             *)
InStep(u, d, i, x, y, x2, y2) ==
    /\ Alike(x2, y2, d)
    /\ \/ Ends(u, x, i) /\ x2 = Flush(x) /\ y2 = Flush(y)
       \/ \E cs \in Texts : /\ x2.buf = x.buf \o cs /\ x2.stmts = x.stmts
                            /\ y2.buf = y.buf \o cs /\ y2.stmts = y.stmts

(* So each step does the same to both.                                     *)
LEMMA StepAlike ==
  ASSUME NEW u \in Texts, NEW w \in Texts, NEW d \in Nat, Behind(u, w, d), NEW i \in 1..Len(u),
         NEW x \in ScanStates, NEW y \in ScanStates, Alike(x, y, d)
  PROVE  InStep(u, d, i, x, y, Scan(u, x, i), Scan(w, y, d + i))
  <1> USE DEF InStep
  <1> DEFINE x2 == Scan(u, x, i)
             y2 == Scan(w, y, d + i)
             Both(cs) == /\ x2.buf = x.buf \o cs /\ x2.stmts = x.stmts
                         /\ y2.buf = y.buf \o cs /\ y2.stmts = y.stmts
  <1>1. /\ d + i \in 1..Len(w) /\ w[d + i] = u[i] /\ After(w, d + i) = After(u, i)
        /\ LineEnd(w, d + i) = d + LineEnd(u, i)
    BY SameView
  <1>2. x.from \in Nat /\ y.from \in Nat /\ x.quote = y.quote /\ x.depth = y.depth
        /\ x.buf \in Texts /\ y.buf \in Texts
    BY DEF Alike, ScanStates
  <1>3. i \in Nat /\ (i < x.from <=> d + i < y.from)
    <2>1. i >= 1 /\ i \in Nat
      BY LenProperties DEF Texts
    <2>2. QED
      BY <1>2, <2>1 DEF Alike
  <1>4. u[i] \in Symbols /\ <<u[i]>> \in Texts /\ <<u[i], u[i]>> \in Texts /\ <<"newline">> \in Texts
        /\ LineEnd(u, i) \in Nat
    <2>1. u[i] \in Symbols /\ "newline" \in Symbols /\ Len(u) \in Nat
      BY ElementOfSeq, LenProperties DEF Texts, Symbols, Space
    <2>2. LineEnd(u, i) \in Nat
      BY <2>1, LineEndIs
    <2>3. QED
      BY <2>1, <2>2 DEF Texts
  <1>5. CASE i < x.from
    <2>1. x2 = x /\ y2 = y
      BY <1>1, <1>2, <1>3, <1>5 DEF Scan
    <2>2. Both(<<>>) /\ <<>> \in Texts
      BY <1>2, <2>1, NoText
    <2>3. QED
      BY <2>1, <2>2
  <1>6. CASE i >= x.from /\ x.quote # "none"
    <2>1. ~(i < x.from) /\ ~(d + i < y.from) /\ d + i >= y.from /\ y.quote # "none"
      BY <1>1, <1>2, <1>3, <1>6
    <2>2. x2 = InString(u, x, i) /\ y2 = InString(w, y, d + i)
      BY <1>2, <1>6, <2>1 DEF Scan
    <2> HIDE DEF x2, y2
    <2>3. CASE u[i] # x.quote
      <3>1. x2 = Put(x, <<u[i]>>) /\ y2 = Put(y, <<u[i]>>)
        BY <1>1, <1>2, <2>2, <2>3 DEF InString
      <3>2. Both(<<u[i]>>) /\ Alike(x2, y2, d)
        BY <1>4, <3>1, PutType DEF Alike
      <3>3. QED
        BY <1>4, <3>2 DEF x2, y2
    <2>4. CASE u[i] = x.quote /\ After(u, i) = x.quote
      <3>1. /\ x2 = [Put(x, <<u[i], u[i]>>) EXCEPT !.from = i + 2]
            /\ y2 = [Put(y, <<u[i], u[i]>>) EXCEPT !.from = d + i + 2]
        BY <1>1, <1>2, <2>2, <2>4 DEF InString
      <3>2. /\ Both(<<u[i], u[i]>>) /\ x2.quote = x.quote /\ y2.quote = y.quote
            /\ x2.depth = x.depth /\ y2.depth = y.depth /\ x2.from = i + 2 /\ y2.from = d + i + 2
        BY <1>4, <3>1, PutType DEF ScanStates
      <3>3. Alike(x2, y2, d)
        BY <1>2, <1>3, <3>2 DEF Alike
      <3>4. QED
        BY <1>4, <3>2, <3>3 DEF x2, y2
    <2>5. CASE u[i] = x.quote /\ After(u, i) # x.quote
      <3>1. /\ x2 = [Put(x, <<u[i]>>) EXCEPT !.quote = "none"]
            /\ y2 = [Put(y, <<u[i]>>) EXCEPT !.quote = "none"]
        BY <1>1, <1>2, <2>2, <2>5 DEF InString
      <3>2. /\ Both(<<u[i]>>) /\ x2.quote = "none" /\ y2.quote = "none"
            /\ x2.depth = x.depth /\ y2.depth = y.depth /\ x2.from = x.from /\ y2.from = y.from
        BY <1>4, <3>1, PutType DEF ScanStates
      <3>3. Alike(x2, y2, d)
        BY <1>2, <3>2 DEF Alike
      <3>4. QED
        BY <1>4, <3>2, <3>3 DEF x2, y2
    <2>6. QED
      BY <2>3, <2>4, <2>5
  <1>7. CASE i >= x.from /\ x.quote = "none"
    <2>1. ~(i < x.from) /\ ~(d + i < y.from) /\ d + i >= y.from /\ y.quote = "none"
      BY <1>1, <1>2, <1>3, <1>7
    <2>2. x2 = Outside(u, x, i) /\ y2 = Outside(w, y, d + i)
      BY <1>2, <1>7, <2>1 DEF Scan
    <2>3. /\ StartsComment(w, d + i) <=> StartsComment(u, i)
          /\ EndsHere(w, y, d + i) <=> EndsHere(u, x, i)
          /\ Depth(w, y, d + i) = Depth(u, x, i)
      BY <1>1, <1>2 DEF StartsComment, EndsHere, Depth
    <2> HIDE DEF x2, y2
    <2>4. CASE u[i] \in Quotes
      <3>1. /\ x2 = [Put(x, <<u[i]>>) EXCEPT !.quote = u[i]]
            /\ y2 = [Put(y, <<u[i]>>) EXCEPT !.quote = u[i]]
        BY <1>1, <2>2, <2>4 DEF Outside, Quotes, StartsComment, EndsHere
      <3>2. /\ Both(<<u[i]>>) /\ x2.quote = u[i] /\ y2.quote = u[i]
            /\ x2.depth = x.depth /\ y2.depth = y.depth /\ x2.from = x.from /\ y2.from = y.from
        BY <1>4, <3>1, PutType DEF ScanStates
      <3>3. Alike(x2, y2, d)
        BY <1>2, <3>2 DEF Alike
      <3>4. QED
        BY <1>4, <3>2, <3>3 DEF x2, y2
    <2>5. CASE u[i] \notin Quotes /\ StartsComment(u, i)
      <3>1. /\ x2 = [Put(x, <<"newline">>) EXCEPT !.from = LineEnd(u, i) + 1]
            /\ y2 = [Put(y, <<"newline">>) EXCEPT !.from = d + LineEnd(u, i) + 1]
        BY <1>1, <2>2, <2>3, <2>5 DEF Outside, Quotes, StartsComment, EndsHere
      <3>2. /\ Both(<<"newline">>) /\ x2.quote = x.quote /\ y2.quote = y.quote
            /\ x2.depth = x.depth /\ y2.depth = y.depth
            /\ x2.from = LineEnd(u, i) + 1 /\ y2.from = d + LineEnd(u, i) + 1
        BY <1>4, <3>1, PutType DEF ScanStates
      <3>3. Alike(x2, y2, d)
        BY <1>2, <1>4, <3>2 DEF Alike
      <3>4. QED
        BY <1>4, <3>2, <3>3 DEF x2, y2
    <2>6. CASE u[i] \notin Quotes /\ ~StartsComment(u, i) /\ EndsHere(u, x, i)
      <3>1. x2 = Flush(x) /\ y2 = Flush(y)
        BY <1>1, <2>2, <2>3, <2>6 DEF Outside
      <3>2. Alike(x2, y2, d)
        BY <3>1, FlushType DEF Alike
      <3>3. Ends(u, x, i)
        BY <1>7, <2>6 DEF Ends
      <3>4. QED
        BY <3>1, <3>2, <3>3 DEF x2, y2
    <2>7. CASE u[i] \notin Quotes /\ ~StartsComment(u, i) /\ ~EndsHere(u, x, i)
      <3>1. /\ x2 = [Put(x, <<u[i]>>) EXCEPT !.depth = Depth(u, x, i)]
            /\ y2 = [Put(y, <<u[i]>>) EXCEPT !.depth = Depth(u, x, i)]
        BY <1>1, <2>2, <2>3, <2>7 DEF Outside
      <3>2. /\ Both(<<u[i]>>) /\ x2.quote = x.quote /\ y2.quote = y.quote
            /\ x2.depth = Depth(u, x, i) /\ y2.depth = Depth(u, x, i)
            /\ x2.from = x.from /\ y2.from = y.from
        BY <1>4, <3>1, PutType DEF ScanStates
      <3>3. Alike(x2, y2, d)
        BY <1>2, <3>2 DEF Alike
      <3>4. QED
        BY <1>4, <3>2, <3>3 DEF x2, y2
    <2>8. QED
      BY <2>4, <2>5, <2>6, <2>7
  <1>8. i < x.from \/ i >= x.from
    BY <1>2, <1>3
  <1>9. QED
    BY <1>5, <1>6, <1>7, <1>8

(* Two buffers that mean the same, whatever is put behind them.            *)
Means(b, o) == \A z \in Texts : TrimSpace(b \o z) = TrimSpace(o \o z)

(* A buffer means itself, white space in front of it means nothing, and    *)
(* buffers that mean the same go on doing so.                              *)
LEMMA MeansIs ==
  ASSUME NEW b \in Texts, NEW o \in Texts, NEW v \in Texts
  PROVE  /\ Blank(b) /\ Blank(o) => Means(b, o)
         /\ Means(b, o) => TrimSpace(b) = TrimSpace(o) /\ (Blank(b) <=> Blank(o))
         /\ Means(b, o) => Means(b \o v, o \o v)
         /\ Blank(v) => Means(v \o o, o)
  <1>1. ASSUME Blank(b), Blank(o) PROVE Means(b, o)
    BY <1>1, TrimAround DEF Means
  <1>2. ASSUME Means(b, o) PROVE TrimSpace(b) = TrimSpace(o)
    <2>1. TrimSpace(b \o <<>>) = TrimSpace(o \o <<>>)
      BY <1>2, NoText DEF Means
    <2>2. QED
      BY <2>1, NoText
  <1>3. ASSUME Means(b, o) PROVE Means(b \o v, o \o v)
    <2>1. SUFFICES ASSUME NEW z \in Texts PROVE TrimSpace((b \o v) \o z) = TrimSpace((o \o v) \o z)
      BY DEF Means
    <2>2. (b \o v) \o z = b \o (v \o z) /\ (o \o v) \o z = o \o (v \o z)
      BY Regrouped, Zenon
    <2>3. v \o z \in Texts
      BY JoinIs
    <2>4. QED
      BY <1>3, <2>2, <2>3 DEF Means
  <1>4. ASSUME Blank(v) PROVE Means(v \o o, o)
    <2>1. SUFFICES ASSUME NEW z \in Texts PROVE TrimSpace((v \o o) \o z) = TrimSpace(o \o z)
      BY DEF Means
    <2>2. (v \o o) \o z = v \o (o \o z)
      BY Regrouped, Zenon
    <2>3. o \o z \in Texts
      BY JoinIs
    <2>4. QED
      BY <1>4, <2>2, <2>3, TrimAround
  <1>5. QED
    BY <1>1, <1>2, <1>3, <1>4 DEF Blank

(* By induction over the text behind the other one, the loop ends in like  *)
(* states.  A statement that ends in it takes what the buffer meant along, *)
(* so there is none, or the buffer is blank.                               *)
LEMMA Simulated ==
  ASSUME NEW u \in Texts, NEW w \in Texts, NEW d \in Nat, Behind(u, w, d), NEW o \in Texts,
         Scanned(w)[d].quote = "none", Scanned(w)[d].depth = 0, Scanned(w)[d].from <= d + 1,
         Means(Scanned(w)[d].buf, o), Blank(o) \/ Unended(u)
  PROVE  LET x == Scanned(u)[Len(u)]
             y == Scanned(w)[Len(w)]
         IN  /\ Alike(x, y, d) /\ y.stmts = Scanned(w)[d].stmts \o x.stmts
             /\ Means(y.buf, o \o x.buf)
  <1> DEFINE X(k) == Scanned(u)[k]
             Y(k) == Scanned(w)[d + k]
             st == Scanned(w)[d].stmts
             Same2(k) == /\ Alike(X(k), Y(k), d) /\ Y(k).stmts = st \o X(k).stmts
                         /\ Means(Y(k).buf, o \o X(k).buf)
             S == {k \in 0..Len(u) : Same2(k)}
  <1>1. /\ Len(u) \in Nat /\ Len(w) = d + Len(u)
        /\ Scanned(u)[0] = Unscanned
        /\ \A k \in 0..Len(u) : X(k) \in ScanStates /\ Y(k) \in ScanStates
        /\ \A k \in 1..Len(u) : X(k) = Scan(u, X(k - 1), k) /\ Y(k) = Scan(w, Y(k - 1), d + k)
    <2>1. /\ Len(u) \in Nat /\ Scanned(u) \in [0..Len(u) -> ScanStates] /\ Scanned(u)[0] = Unscanned
          /\ \A i \in 1..Len(u) : Scanned(u)[i] = Scan(u, Scanned(u)[i - 1], i)
      BY ScannedIs
    <2>2. /\ Len(w) \in Nat /\ Scanned(w) \in [0..Len(w) -> ScanStates]
          /\ \A i \in 1..Len(w) : Scanned(w)[i] = Scan(w, Scanned(w)[i - 1], i)
      BY ScannedIs
    <2>3. Len(w) = d + Len(u)
      BY DEF Behind
    <2>4. \A k \in 0..Len(u) : d + k \in 0..Len(w)
      BY <2>1, <2>3
    <2>5. \A k \in 1..Len(u) : d + k \in 1..Len(w) /\ (d + k) - 1 = d + (k - 1)
      BY <2>1, <2>3
    <2>6. QED
      BY <2>1, <2>2, <2>3, <2>4, <2>5
  <1>2. 0 \in S
    <2>1. d + 0 = d /\ 0 \in 0..Len(u)
      BY <1>1
    <2>2. /\ X(0) = Unscanned /\ Y(0) = Scanned(w)[d] /\ Y(0) \in ScanStates
      BY <1>1, <2>1
    <2>3. st \in Seq(Texts) /\ st \o <<>> = st /\ o \o <<>> = o
      BY <2>2, ConcatEmptySeq, NoText DEF ScanStates
    <2>4. Same2(0)
      BY <2>2, <2>3 DEF Alike, Unscanned
    <2>5. QED
      BY <2>1, <2>4
  <1>3. ASSUME NEW i \in 1..Len(u), i - 1 \in S PROVE i \in S
    <2> DEFINE x == X(i - 1)  y == Y(i - 1)  x2 == X(i)  y2 == Y(i)
    <2>1. /\ x \in ScanStates /\ y \in ScanStates /\ x2 \in ScanStates /\ y2 \in ScanStates
          /\ x2 = Scan(u, x, i) /\ y2 = Scan(w, y, d + i) /\ i \in 0..Len(u)
      <3>1. i - 1 \in 0..Len(u) /\ i \in 0..Len(u)
        BY <1>1
      <3>2. QED
        BY <1>1, <3>1
    <2>2. Alike(x, y, d) /\ y.stmts = st \o x.stmts /\ Means(y.buf, o \o x.buf)
      BY <1>3
    <2>3. st \in Seq(Texts)
      <3>1. Y(0) \in ScanStates /\ d + 0 = d
        BY <1>1
      <3>2. QED
        BY <3>1 DEF ScanStates
    <2>4. x.buf \in Texts /\ y.buf \in Texts /\ x.stmts \in Seq(Texts) /\ y.stmts \in Seq(Texts)
      BY <2>1 DEF ScanStates
    <2>5. Unended(u) => ~Ends(u, x, i)
      BY DEF Unended
    <2> HIDE DEF X, Y, st, x, y, x2, y2, Same2, S
    <2>6. /\ Alike(x2, y2, d)
          /\ \/ Ends(u, x, i) /\ x2 = Flush(x) /\ y2 = Flush(y)
             \/ \E cs \in Texts : /\ x2.buf = x.buf \o cs /\ x2.stmts = x.stmts
                                  /\ y2.buf = y.buf \o cs /\ y2.stmts = y.stmts
      <3>1. x \in ScanStates /\ y \in ScanStates /\ Alike(x, y, d)
        BY <2>1, <2>2
      <3>2. InStep(u, d, i, x, y, Scan(u, x, i), Scan(w, y, d + i))
        BY <3>1, StepAlike, Zenon
      <3>3. QED
        BY <2>1, <3>2 DEF InStep
    <2>7. CASE Ends(u, x, i) /\ x2 = Flush(x) /\ y2 = Flush(y)
      <3>1. Blank(o)
        BY <2>5, <2>7
      <3>2. TrimSpace(y.buf) = TrimSpace(x.buf)
        <4>1. o \o x.buf \in Texts
          BY <2>4, JoinIs
        <4>2. QED
          BY <2>2, <2>4, <3>1, <4>1, MeansIs, TrimAround
      <3>3. /\ x2.buf = <<>> /\ y2.buf = <<>>
            /\ x2.stmts = IF TrimSpace(x.buf) = <<>> THEN x.stmts ELSE Append(x.stmts, TrimSpace(x.buf))
            /\ y2.stmts = IF TrimSpace(y.buf) = <<>> THEN y.stmts ELSE Append(y.stmts, TrimSpace(y.buf))
        BY <2>1, <2>7, FlushType
      <3>4. Means(y2.buf, o \o x2.buf)
        BY <3>1, <3>3, NoText, MeansIs
      <3>5. y2.stmts = st \o x2.stmts
        <4>1. CASE TrimSpace(x.buf) = <<>>
          BY <2>2, <3>2, <3>3, <4>1
        <4>2. CASE TrimSpace(x.buf) # <<>>
          <5> DEFINE e == TrimSpace(x.buf)
          <5>1. e \in Texts /\ <<e>> \in Seq(Texts)
            BY <2>4, TrimType
          <5> HIDE DEF e
          <5>2. y2.stmts = y.stmts \o <<e>> /\ x2.stmts = x.stmts \o <<e>>
            <6>1. y2.stmts = Append(y.stmts, e) /\ x2.stmts = Append(x.stmts, e)
              BY <3>2, <3>3, <4>2 DEF e
            <6>2. Append(y.stmts, e) = y.stmts \o <<e>> /\ Append(x.stmts, e) = x.stmts \o <<e>>
              BY <2>4, <5>1, AppendIsConcat
            <6>3. QED
              BY <6>1, <6>2
          <5>3. (st \o x.stmts) \o <<e>> = st \o (x.stmts \o <<e>>)
            BY <2>3, <2>4, <5>1, Regrouped, Zenon
          <5>4. QED
            BY <2>2, <5>2, <5>3
        <4>3. QED
          BY <4>1, <4>2
      <3>6. QED
        BY <2>1, <2>6, <3>4, <3>5 DEF x2, y2, S, Same2
    <2>8. CASE \E cs \in Texts : /\ x2.buf = x.buf \o cs /\ x2.stmts = x.stmts
                                 /\ y2.buf = y.buf \o cs /\ y2.stmts = y.stmts
      <3>1. PICK cs \in Texts : /\ x2.buf = x.buf \o cs /\ x2.stmts = x.stmts
                                /\ y2.buf = y.buf \o cs /\ y2.stmts = y.stmts
        BY <2>8
      <3>2. o \o x.buf \in Texts
        BY <2>4, JoinIs
      <3>3. Means(y.buf \o cs, (o \o x.buf) \o cs)
        <4> DEFINE q == o \o x.buf
        <4>1. q \in Texts /\ Means(y.buf, q)
          BY <2>2, <3>2
        <4> HIDE DEF q
        <4>2. Means(y.buf \o cs, q \o cs)
          BY <2>4, <4>1, MeansIs
        <4>3. QED
          BY <4>2 DEF q
      <3>4. (o \o x.buf) \o cs = o \o (x.buf \o cs)
        BY <2>4, Regrouped, Zenon
      <3>5. Means(y2.buf, o \o x2.buf)
        BY <3>1, <3>3, <3>4
      <3>6. QED
        BY <2>1, <2>2, <2>6, <3>1, <3>5 DEF x2, y2, S, Same2
    <2>9. QED
      BY <2>6, <2>7, <2>8
  <1>4. Len(u) \in S
    <2> HIDE DEF S
    <2>1. 0..Len(u) \subseteq S
      BY <1>1, <1>2, <1>3, Counting
    <2>2. QED
      BY <1>1, <2>1
  <1>5. QED
    BY <1>1, <1>4

(* A text that leaves splitSQL outside strings, comments and bodies, and   *)
(* behind white space.                                                     *)
Ready(u) ==
    /\ u \in Texts /\ Final(u).quote = "none" /\ Final(u).depth = 0
    /\ u = <<>> \/ (u[Len(u)] \in Space /\ Final(u).from <= Len(u))

(* One that leaves it with these statements and a buffer that means o.     *)
Settled(a, o, st) ==
    /\ Ready(a) /\ o \in Texts /\ st \in Seq(Texts)
    /\ Final(a).stmts = st /\ Means(Final(a).buf, o)

(* What follows such a text does not change how it is read.                *)
LEMMA SettledBefore ==
  ASSUME NEW a, Ready(a), NEW u \in Texts
  PROVE  /\ Scanned(a \o u)[Len(a)] = Scanned(a)[Len(a)]
         /\ Scanned(a \o u)[Len(a)].from <= Len(a) + 1
  <1> DEFINE w == a \o u
             d == Len(a)
             S == {k \in 0..d : Scanned(w)[k] = Scanned(a)[k] \/ Scanned(a)[k].from = d + 1}
  <1>1. /\ a \in Texts /\ w \in Texts /\ d \in Nat /\ Len(u) \in Nat /\ Len(w) = d + Len(u)
        /\ \A i \in 1..d : w[i] = a[i]
    BY JoinIs DEF Ready
  <1>2. /\ Scanned(a) \in [0..d -> ScanStates] /\ Scanned(a)[0] = Unscanned
        /\ \A i \in 1..d : Scanned(a)[i] = Scan(a, Scanned(a)[i - 1], i)
    BY <1>1, ScannedIs
  <1>3. /\ Scanned(w)[0] = Unscanned
        /\ \A i \in 1..Len(w) : Scanned(w)[i] = Scan(w, Scanned(w)[i - 1], i)
    BY <1>1, ScannedIs
  <1>4. a = <<>> => d = 0
    BY NoText
  <1> HIDE DEF w, d
  <1>5. 0 \in S
    BY <1>1, <1>2, <1>3
  <1>6. ASSUME NEW i \in 1..d, i - 1 \in S PROVE i \in S
    <2> DEFINE s == Scanned(a)[i - 1]
    <2>1. /\ i \in 1..Len(w) /\ i - 1 \in 0..d /\ i \in 0..d /\ s \in ScanStates
          /\ Scanned(a)[i] = Scan(a, s, i)
      BY <1>1, <1>2
    <2>2. CASE s.from = d + 1
      <3>1. i < s.from /\ ~(i >= s.from)
        BY <1>1, <2>2
      <3>2. Scan(a, s, i) = s
        BY <3>1 DEF Scan
      <3>3. QED
        BY <2>1, <2>2, <3>2
    <2>3. CASE s.from # d + 1
      <3>1. Scanned(w)[i] = Scan(w, s, i)
        BY <1>3, <1>6, <2>1, <2>3
      <3>2. w[i] = a[i] /\ (a[i] \in Space \/ After(w, i) = After(a, i))
        <4>1. CASE i < d
          <5>1. i + 1 \in 1..d /\ i < Len(w) /\ i < Len(a)
            BY <1>1, <4>1 DEF d
          <5>2. QED
            BY <1>1, <5>1 DEF After
        <4>2. CASE i = d
          <5>1. a = <<>> \/ a[d] \in Space
            BY DEF Ready, d
          <5>2. QED
            BY <1>1, <1>4, <4>2, <5>1
        <4>3. QED
          BY <1>1, <4>1, <4>2
      <3>3. StartsComment(a, i) => LineEnd(a, i) = d \/ LineEnd(w, i) = LineEnd(a, i)
        <4> DEFINE m == LineEnd(a, i)  n == LineEnd(w, i)
        <4>1. m \in i..d /\ (a[m] = "newline" \/ m = d) /\ \A j \in i..(m - 1) : a[j] # "newline"
          BY <1>1, LineEndIs DEF d
        <4>2. n \in i..Len(w) /\ (w[n] = "newline" \/ n = Len(w))
              /\ \A j \in i..(n - 1) : w[j] # "newline"
          BY <1>1, <2>1, LineEndIs
        <4> HIDE DEF m, n
        <4>3. SUFFICES ASSUME m # d PROVE n = m
          BY DEF m, n
        <4>4. m \in 1..d /\ m < d /\ w[m] = "newline"
          BY <1>1, <4>1, <4>3
        <4>5. ~(m < n)
          BY <1>1, <4>1, <4>2, <4>4
        <4>6. ASSUME n < m PROVE FALSE
          <5>1. n \in i..(m - 1) /\ n \in 1..d /\ n # Len(w)
            BY <1>1, <4>1, <4>2, <4>4, <4>6
          <5>2. QED
            BY <1>1, <4>1, <4>2, <5>1
        <4>7. QED
          BY <1>1, <4>1, <4>2, <4>5, <4>6
      <3>4. s.from \in Nat /\ s.quote \in {"none"} \union Quotes /\ i \in Nat
        BY <1>1, <2>1 DEF ScanStates
      <3>5. a[i] \in Space => a[i] \notin Quotes /\ a[i] \notin {"begin", "end", "dash", "semicolon"}
        BY DEF Space, Quotes
      <3>6. CASE i < s.from
        BY <2>1, <3>1, <3>4, <3>6 DEF Scan
      <3>7. CASE i >= s.from /\ s.quote # "none"
        <4>1. InString(w, s, i) = InString(a, s, i)
          <5>1. CASE a[i] \in Space
            <6>1. a[i] # s.quote
              BY <3>4, <3>5, <3>7, <5>1
            <6>2. QED
              BY <3>2, <6>1 DEF InString
          <5>2. CASE After(w, i) = After(a, i)
            BY <3>2, <5>2 DEF InString
          <5>3. QED
            BY <3>2, <5>1, <5>2
        <4>2. Scan(a, s, i) = InString(a, s, i) /\ Scan(w, s, i) = InString(w, s, i)
          BY <3>4, <3>7 DEF Scan
        <4>3. QED
          BY <2>1, <3>1, <4>1, <4>2
      <3>8. CASE i >= s.from /\ s.quote = "none"
        <4>1. Scan(a, s, i) = Outside(a, s, i) /\ Scan(w, s, i) = Outside(w, s, i)
          BY <3>4, <3>8 DEF Scan
        <4>2. /\ StartsComment(w, i) <=> StartsComment(a, i)
              /\ EndsHere(w, s, i) <=> EndsHere(a, s, i)
              /\ Depth(w, s, i) = Depth(a, s, i)
          <5>1. CASE a[i] \in Space
            <6>1. a[i] # "begin" /\ a[i] # "end" /\ a[i] # "dash" /\ w[i] = a[i]
              BY <3>2, <3>5, <5>1
            <6>2. QED
              BY <6>1 DEF StartsComment, EndsHere, Depth
          <5>2. CASE After(w, i) = After(a, i)
            BY <3>2, <5>2 DEF StartsComment, EndsHere, Depth
          <5>3. QED
            BY <3>2, <5>1, <5>2
        <4>3. CASE StartsComment(a, i) /\ LineEnd(a, i) = d
          <5>1. Outside(a, s, i) = [Put(s, <<"newline">>) EXCEPT !.from = d + 1]
            BY <4>3 DEF Outside, StartsComment, EndsHere, Quotes
          <5>2. <<"newline">> \in Texts
            BY DEF Texts, Symbols, Space
          <5>3. Outside(a, s, i).from = d + 1
            BY <2>1, <5>1, <5>2, PutType DEF ScanStates
          <5>4. QED
            BY <2>1, <4>1, <5>3
        <4>4. CASE StartsComment(a, i) => LineEnd(w, i) = LineEnd(a, i)
          <5>1. Outside(w, s, i) = Outside(a, s, i)
            BY <3>2, <4>2, <4>4 DEF Outside, EndsHere, StartsComment, Quotes
          <5>2. QED
            BY <2>1, <3>1, <4>1, <5>1
        <4>5. QED
          BY <3>3, <4>3, <4>4
      <3>9. i < s.from \/ i >= s.from
        BY <3>4
      <3>10. QED
        BY <3>6, <3>7, <3>8, <3>9
    <2>4. QED
      BY <2>2, <2>3
  <1>7. d \in S
    <2> HIDE DEF S
    <2>1. 0..d \subseteq S
      BY <1>1, <1>5, <1>6, Counting
    <2>2. QED
      BY <1>1, <2>1
  <1>8. Scanned(a)[d].from <= d + 1 /\ Scanned(w)[d] = Scanned(a)[d]
    <2>1. CASE a = <<>>
      BY <1>2, <1>3, <1>4, <2>1 DEF Unscanned
    <2>2. CASE a # <<>>
      <3>1. Scanned(a)[d].from <= d
        BY <2>2 DEF Ready, Final, d
      <3>2. Scanned(a)[d] \in ScanStates
        BY <1>1, <1>2
      <3>3. Scanned(a)[d].from \in Nat
        BY <3>2 DEF ScanStates
      <3>4. QED
        BY <1>1, <1>7, <3>1, <3>3
    <2>3. QED
      BY <2>1, <2>2
  <1>9. QED
    BY <1>8 DEF w, d

(* White space alone.                                                      *)
LEMMA BlankReady ==
  ASSUME NEW u \in Texts, Blank(u)
  PROVE  /\ Ready(u) /\ Unended(u) /\ Final(u).stmts = <<>> /\ Blank(Final(u).buf)
         /\ splitSQL(u) = <<>>
  <1> DEFINE Only(s) == /\ s \in ScanStates /\ s.from = 1 /\ s.quote = "none" /\ s.depth = 0
                        /\ s.stmts = <<>> /\ Blank(s.buf)
             S == {k \in 0..Len(u) : Only(Scanned(u)[k])}
  <1>1. /\ Len(u) \in Nat /\ Scanned(u)[0] = Unscanned
        /\ \A k \in 0..Len(u) : Scanned(u)[k] \in ScanStates
        /\ \A i \in 1..Len(u) : Scanned(u)[i] = Scan(u, Scanned(u)[i - 1], i)
    BY ScannedIs
  <1>2. \A k \in 1..Len(u) : u[k] \in Space
    BY BlankIs
  <1>3. 0 \in S
    <2>1. 0 \in 0..Len(u) /\ Unscanned.buf = <<>> /\ Unscanned.from = 1 /\ Unscanned.quote = "none"
          /\ Unscanned.depth = 0 /\ Unscanned.stmts = <<>>
      BY <1>1 DEF Unscanned
    <2>2. QED
      BY <1>1, <2>1, NoText
  <1>4. ASSUME NEW i \in 1..Len(u), i - 1 \in S PROVE i \in S /\ ~Ends(u, Scanned(u)[i - 1], i)
    <2> DEFINE s == Scanned(u)[i - 1]
               cs == <<u[i]>>
    <2>1. Only(s)
      BY <1>4
    <2>2. /\ s \in ScanStates /\ s.buf \in Texts /\ Blank(s.buf) /\ s.stmts = <<>>
          /\ s.quote = "none" /\ s.depth = 0 /\ s.from = 1 /\ i >= s.from /\ ~(i < s.from)
      BY <1>1, <2>1 DEF ScanStates
    <2>3. u[i] \notin Quotes /\ u[i] \notin {"begin", "end", "dash", "semicolon"} /\ u[i] \in Symbols
      BY <1>2 DEF Quotes, Space, Symbols
    <2>4. cs \in Texts /\ Blank(cs)
      <3>1. cs \in Texts /\ Len(cs) = 1 /\ cs[1] \in Space
        BY <1>2, <2>3 DEF Texts
      <3> HIDE DEF cs
      <3>2. QED
        BY <3>1, BlankIs
    <2>5. Scanned(u)[i] = Scan(u, s, i)
      BY <1>1
    <2> HIDE DEF s, cs
    <2>6. Scan(u, s, i) = Outside(u, s, i)
      BY <2>2 DEF Scan
    <2>7. Outside(u, s, i) = [Put(s, cs) EXCEPT !.depth = 0]
      BY <2>2, <2>3 DEF Outside, StartsComment, EndsHere, Depth, cs
    <2>8. Blank(s.buf \o cs)
      BY <2>2, <2>4, BlankJoin
    <2>9. Only([Put(s, cs) EXCEPT !.depth = 0])
      <3> DEFINE p == Put(s, cs)
      <3>1. /\ p \in ScanStates /\ p.buf = s.buf \o cs /\ p.stmts = <<>> /\ p.quote = "none"
            /\ p.from = 1
        BY <2>2, <2>4, PutType
      <3> HIDE DEF p
      <3>2. QED
        BY <2>8, <3>1 DEF ScanStates, p
    <2>10. i \in 0..Len(u) /\ ~Ends(u, s, i)
      BY <1>1, <2>3 DEF Ends, EndsHere
    <2>11. QED
      BY <2>5, <2>6, <2>7, <2>9, <2>10 DEF s
  <1>5. 0..Len(u) \subseteq S
    <2> HIDE DEF S
    <2>1. QED
      BY <1>1, <1>3, <1>4, Counting
  <1>6. Unended(u)
    <2>1. \A i \in 1..Len(u) : i - 1 \in 0..Len(u)
      BY <1>1
    <2> HIDE DEF S
    <2>2. QED
      BY <1>4, <1>5, <2>1 DEF Unended
  <1>7. Only(Final(u))
    BY <1>1, <1>5 DEF Final
  <1> DEFINE b == Final(u).buf
  <1>8. /\ Final(u).quote = "none" /\ Final(u).depth = 0 /\ Final(u).from = 1
        /\ Final(u).stmts = <<>> /\ b \in Texts /\ Blank(b)
    BY <1>7, FinalIs
  <1>9. Ready(u)
    <2>1. u = <<>> \/ Len(u) \in 1..Len(u)
      <3>1. Len(u) = 0 => u = <<>>
        BY EmptySeq DEF Texts
      <3>2. QED
        BY <1>1, <3>1
    <2>2. QED
      BY <1>2, <1>8, <2>1 DEF Ready
  <1>10. splitSQL(u) = <<>>
    <2>1. splitSQL(u) = <<>> \o Filled(TrimSpace(b)) /\ Filled(TrimSpace(b)) = <<>>
      BY <1>8, SplitIs, FilledIs
    <2>2. QED
      BY <2>1, EmptySeq, ConcatEmptySeq
  <1>11. QED
    BY <1>6, <1>8, <1>9, <1>10

(* So a text is read behind a settled one as it is read alone.             *)
LEMMA Follow ==
  ASSUME NEW a, NEW o, NEW st, Settled(a, o, st), NEW u \in Texts, Blank(o) \/ Unended(u)
  PROVE  /\ Alike(Final(u), Final(a \o u), Len(a))
         /\ Final(a \o u).stmts = st \o Final(u).stmts
         /\ Means(Final(a \o u).buf, o \o Final(u).buf)
  <1> DEFINE w == a \o u  d == Len(a)
  <1>1. Ready(a) /\ a \in Texts /\ o \in Texts
    BY DEF Settled, Ready
  <1>2. w \in Texts /\ d \in Nat /\ Behind(u, w, d)
    BY <1>1, JoinIs DEF Behind
  <1>3. Scanned(w)[d] = Final(a) /\ Scanned(w)[d].from <= d + 1
    BY <1>1, SettledBefore DEF Final
  <1>4. Final(a).quote = "none" /\ Final(a).depth = 0 /\ Final(a).stmts = st /\ Means(Final(a).buf, o)
    BY DEF Settled, Ready
  <1> HIDE DEF w, d
  <1>5. /\ Scanned(w)[d].quote = "none" /\ Scanned(w)[d].depth = 0 /\ Scanned(w)[d].stmts = st
        /\ Means(Scanned(w)[d].buf, o)
    BY <1>3, <1>4
  <1>6. /\ Alike(Scanned(u)[Len(u)], Scanned(w)[Len(w)], d)
        /\ Scanned(w)[Len(w)].stmts = Scanned(w)[d].stmts \o Scanned(u)[Len(u)].stmts
        /\ Means(Scanned(w)[Len(w)].buf, o \o Scanned(u)[Len(u)].buf)
    BY <1>1, <1>2, <1>3, <1>5, Simulated
  <1>7. QED
    BY <1>5, <1>6 DEF Final, w, d

(* Settled texts joined are settled.                                       *)
LEMMA SettledJoin ==
  ASSUME NEW a, NEW o, NEW st, Settled(a, o, st), NEW u, Ready(u), Blank(o) \/ Unended(u)
  PROVE  Settled(a \o u, o \o Final(u).buf, st \o Final(u).stmts)
  <1> DEFINE w == a \o u
  <1>1. a \in Texts /\ u \in Texts /\ o \in Texts /\ st \in Seq(Texts) /\ Ready(a)
    BY DEF Settled, Ready
  <1>2. /\ w \in Texts /\ Len(a) \in Nat /\ Len(u) \in Nat /\ Len(w) = Len(a) + Len(u)
        /\ \A i \in 1..Len(u) : w[Len(a) + i] = u[i]
    BY <1>1, JoinIs
  <1>3. /\ Alike(Final(u), Final(w), Len(a)) /\ Final(w).stmts = st \o Final(u).stmts
        /\ Means(Final(w).buf, o \o Final(u).buf)
    BY <1>1, Follow
  <1>4. o \o Final(u).buf \in Texts /\ st \o Final(u).stmts \in Seq(Texts)
    BY <1>1, FinalIs, JoinIs, ConcatProperties
  <1>5. Final(w).quote = "none" /\ Final(w).depth = 0
    BY <1>3 DEF Alike, Ready
  <1>6. w = <<>> \/ (w[Len(w)] \in Space /\ Final(w).from <= Len(w))
    <2>1. CASE u = <<>>
      <3>1. w = a
        BY <1>1, <2>1, NoText
      <3>2. QED
        BY <3>1, <1>1 DEF Ready
    <2>2. CASE u # <<>>
      <3>1. u[Len(u)] \in Space /\ Final(u).from <= Len(u) /\ Len(u) # 0
        BY <1>1, <2>2, EmptySeq DEF Ready, Texts
      <3>2. Len(u) \in 1..Len(u)
        BY <1>2, <3>1
      <3>3. w[Len(w)] \in Space
        BY <1>2, <3>1, <3>2
      <3>4. Final(w).from \in Nat /\ Final(u).from \in Nat
        BY <1>1, <1>2, FinalIs
      <3>5. Final(w).from <= Len(w)
        BY <1>2, <1>3, <3>1, <3>2, <3>4 DEF Alike
      <3>6. QED
        BY <3>3, <3>5
    <2>3. QED
      BY <2>1, <2>2
  <1> HIDE DEF w
  <1>7. Ready(w)
    BY <1>2, <1>5, <1>6 DEF Ready
  <1>8. QED
    BY <1>3, <1>4, <1>7 DEF Settled, w

(* The statements of a settled text.                                       *)
LEMMA SettledSplit ==
  ASSUME NEW a, NEW o, NEW st, Settled(a, o, st)
  PROVE  splitSQL(a) = st \o Filled(TrimSpace(o)) /\ (Blank(o) => splitSQL(a) = st)
  <1>1. a \in Texts /\ o \in Texts /\ st \in Seq(Texts) /\ Final(a).stmts = st /\ Means(Final(a).buf, o)
    BY DEF Settled, Ready
  <1>2. TrimSpace(Final(a).buf) = TrimSpace(o)
    BY <1>1, FinalIs, MeansIs
  <1>3. splitSQL(a) = st \o Filled(TrimSpace(o))
    BY <1>1, <1>2, SplitIs
  <1>4. Blank(o) => Filled(TrimSpace(o)) = <<>>
    BY <1>1, FilledIs
  <1>5. QED
    BY <1>1, <1>3, <1>4, ConcatEmptySeq

(* Where nothing is left in the buffer the text may be cut.                *)
LEMMA SplitJoin ==
  ASSUME NEW a, NEW o, NEW st, Settled(a, o, st), Blank(o), NEW u \in Texts
  PROVE  /\ splitSQL(a) = st /\ splitSQL(a \o u) = st \o splitSQL(u)
         /\ Ready(a \o u) => Ready(u)
  <1> DEFINE w == a \o u
  <1>1. a \in Texts /\ o \in Texts /\ st \in Seq(Texts)
    BY DEF Settled, Ready
  <1>2. /\ w \in Texts /\ Len(a) \in Nat /\ Len(u) \in Nat /\ Len(w) = Len(a) + Len(u)
        /\ \A i \in 1..Len(u) : w[Len(a) + i] = u[i]
    BY <1>1, JoinIs
  <1>3. /\ Alike(Final(u), Final(w), Len(a)) /\ Final(w).stmts = st \o Final(u).stmts
        /\ Means(Final(w).buf, o \o Final(u).buf)
    BY Follow
  <1> DEFINE b == Final(u).buf
  <1>4. b \in Texts /\ Final(u).stmts \in Seq(Texts) /\ o \o b \in Texts /\ Final(w).buf \in Texts
    BY <1>1, <1>2, FinalIs, JoinIs
  <1> HIDE DEF w
  <1>5. TrimSpace(Final(w).buf) = TrimSpace(b)
    <2>1. TrimSpace(Final(w).buf) = TrimSpace(o \o b)
      <3> DEFINE q == o \o b
      <3>1. q \in Texts /\ Means(Final(w).buf, q)
        BY <1>3, <1>4
      <3> HIDE DEF q
      <3>2. TrimSpace(Final(w).buf) = TrimSpace(q)
        BY <1>4, <3>1, MeansIs
      <3>3. QED
        BY <3>2 DEF q
    <2>2. TrimSpace(o \o b) = TrimSpace(b)
      BY <1>1, <1>4, TrimAround
    <2>3. QED
      BY <2>1, <2>2
  <1>6. splitSQL(w) = st \o splitSQL(u)
    <2> DEFINE e == Filled(TrimSpace(b))
    <2>1. splitSQL(w) = (st \o Final(u).stmts) \o e
      BY <1>2, <1>3, <1>5, SplitIs
    <2>2. splitSQL(u) = Final(u).stmts \o e /\ e \in Seq(Texts)
      BY <1>4, SplitIs, FilledIs
    <2> HIDE DEF e
    <2>3. (st \o Final(u).stmts) \o e = st \o (Final(u).stmts \o e)
      BY <1>1, <1>4, <2>2, Regrouped, Zenon
    <2>4. QED
      BY <2>1, <2>2, <2>3
  <1>7. ASSUME Ready(w) PROVE Ready(u)
    <2>1. Final(u).quote = "none" /\ Final(u).depth = 0
      BY <1>3, <1>7 DEF Alike, Ready
    <2>2. ASSUME u # <<>> PROVE u[Len(u)] \in Space /\ Final(u).from <= Len(u)
      <3>1. Len(u) # 0 /\ Len(u) \in 1..Len(u)
        BY <1>2, <2>2, EmptySeq DEF Texts
      <3>2. Len(w) # 0
        BY <1>2, <3>1
      <3>3. w[Len(w)] \in Space /\ Final(w).from <= Len(w)
        BY <1>2, <1>7, <3>2, NoText DEF Ready
      <3>4. Final(w).from \in Nat /\ Final(u).from \in Nat
        BY <1>2, FinalIs
      <3>5. QED
        BY <1>2, <1>3, <3>1, <3>3, <3>4 DEF Alike
    <2>3. QED
      BY <2>1, <2>2 DEF Ready
  <1>8. QED
    BY <1>6, <1>7, SettledSplit DEF w

(* The end of a line behind white space adds no statement.                 *)
LEMMA LineEndAdds ==
  ASSUME NEW u, Ready(u)
  PROVE  splitSQL(Append(u, "newline")) = splitSQL(u)
  <1> DEFINE nl == <<"newline">>  o == Final(u).buf  st == Final(u).stmts  p == Final(nl).buf
  <1>1. u \in Texts /\ "newline" \in Symbols /\ "newline" \in Space
    BY DEF Ready, Symbols, Space
  <1>2. Append(u, "newline") = u \o nl /\ nl \in Texts /\ Len(nl) = 1 /\ nl[1] = "newline"
    BY <1>1, AppendIsConcat DEF Texts
  <1> HIDE DEF nl
  <1>3. Blank(nl)
    BY <1>1, <1>2, BlankIs
  <1>4. Ready(nl) /\ Unended(nl) /\ Final(nl).stmts = <<>> /\ Blank(p) /\ p \in Texts
    BY <1>2, <1>3, BlankReady, FinalIs
  <1>5. Settled(u, o, st) /\ o \in Texts /\ st \in Seq(Texts)
    BY <1>1, FinalIs DEF Settled, Means
  <1>6. Settled(u \o nl, o \o p, st \o <<>>)
    BY <1>4, <1>5, SettledJoin
  <1>7. splitSQL(u \o nl) = (st \o <<>>) \o Filled(TrimSpace(o \o p))
    BY <1>6, SettledSplit
  <1>8. TrimSpace(o \o p) = TrimSpace(o) /\ st \o <<>> = st
    BY <1>4, <1>5, TrimAround, ConcatEmptySeq
  <1>9. splitSQL(u) = st \o Filled(TrimSpace(o))
    BY <1>5, SettledSplit
  <1>10. QED
    BY <1>2, <1>7, <1>8, <1>9

-----------------------------------------------------------------------------
(* Pieces make statements and statements a script.                         *)

LEMMA ClosedEnds ==
  ASSUME NEW t \in Texts, NEW i \in 0..Len(t), NEW j \in i..Len(t), Closed(SubSeq(t, i + 1, j))
  PROVE  EndsStatement(t, j)
  <1> DEFINE p == SubSeq(t, i + 1, j)
  <1>1. p \in Texts /\ Len(p) = j - i /\ \A k \in 1..j - i : p[k] = t[i + k]
    BY PieceOf
  <1>2. TrimSpace(p) # <<>> /\ Last(TrimSpace(p)) = "semicolon"
    BY DEF Closed
  <1> HIDE DEF p
  <1>3. PICK k \in 1..Len(p) : p[k] = "semicolon" /\ \A l \in (k + 1)..Len(p) : p[l] \in Space
    BY <1>1, <1>2, Trimmed
  <1>4. Len(t) \in Nat
    BY LenProperties DEF Texts
  <1>5. i + k \in 1..j /\ t[i + k] = "semicolon"
    <2>1. k \in 1..j - i
      BY <1>1
    <2>2. p[k] = t[i + k]
      BY <1>1, <2>1
    <2>3. i + k \in 1..j
      BY <1>4, <2>1
    <2>4. QED
      BY <1>3, <2>2, <2>3
  <1>6. ASSUME NEW l \in (i + k + 1)..j PROVE t[l] \in Space
    <2>1. l - i \in (k + 1)..Len(p) /\ l - i \in 1..j - i /\ i + (l - i) = l
      BY <1>1, <1>4
    <2>2. QED
      BY <1>1, <1>3, <2>1
  <1>7. QED
    BY <1>5, <1>6 DEF EndsStatement

(* Where a statement ends in one text behind another.                      *)
LEMMA EndsInJoin ==
  ASSUME NEW a \in Texts, NEW u \in Texts
  PROVE  /\ \A j \in 0..Len(a) : EndsStatement(a \o u, j) <=> EndsStatement(a, j)
         /\ \A m \in 0..Len(u) : EndsStatement(a \o u, Len(a) + m) =>
              \/ EndsStatement(u, m)
              \/ EndsStatement(a, Len(a)) /\ \A l \in 1..m : u[l] \in Space
  <1> DEFINE w == a \o u  d == Len(a)
  <1>1. /\ d \in Nat /\ Len(u) \in Nat /\ Len(w) = d + Len(u)
        /\ \A i \in 1..d : w[i] = a[i]
        /\ \A i \in 1..Len(u) : w[d + i] = u[i]
    BY JoinIs
  <1> HIDE DEF w, d
  <1>2. ASSUME NEW j \in 0..d PROVE EndsStatement(w, j) <=> EndsStatement(a, j)
    <2>1. \A k \in 1..j : w[k] = a[k] /\ \A l \in (k + 1)..j : w[l] = a[l]
      BY <1>1
    <2>2. QED
      BY <2>1 DEF EndsStatement
  <1>3. ASSUME NEW m \in 0..Len(u), EndsStatement(w, d + m)
        PROVE  EndsStatement(u, m) \/ (EndsStatement(a, d) /\ \A l \in 1..m : u[l] \in Space)
    <2>1. PICK k \in 1..d + m : w[k] = "semicolon" /\ \A l \in (k + 1)..(d + m) : w[l] \in Space
      BY <1>3 DEF EndsStatement
    <2>2. CASE k > d
      <3>1. k - d \in 1..m /\ k - d \in 1..Len(u) /\ k = d + (k - d)
        BY <1>1, <2>2
      <3>2. u[k - d] = "semicolon"
        BY <1>1, <2>1, <3>1
      <3>3. ASSUME NEW l \in (k - d + 1)..m PROVE u[l] \in Space
        <4>1. l \in 1..Len(u) /\ d + l \in (k + 1)..(d + m)
          BY <1>1, <3>1
        <4>2. QED
          BY <1>1, <2>1, <4>1
      <3>4. QED
        BY <3>1, <3>2, <3>3 DEF EndsStatement
    <2>3. CASE k <= d
      <3>1. k \in 1..d /\ a[k] = "semicolon"
        BY <1>1, <2>1, <2>3
      <3>2. \A l \in (k + 1)..d : a[l] \in Space
        <4>1. \A l \in (k + 1)..d : l \in 1..d /\ l \in (k + 1)..(d + m)
          BY <1>1, <3>1
        <4>2. QED
          BY <1>1, <2>1, <4>1
      <3>3. ASSUME NEW l \in 1..m PROVE u[l] \in Space
        <4>1. l \in 1..Len(u) /\ d + l \in (k + 1)..(d + m)
          BY <1>1, <3>1
        <4>2. QED
          BY <1>1, <2>1, <4>1
      <3>4. QED
        BY <3>1, <3>2, <3>3 DEF EndsStatement
    <2>4. QED
      BY <1>1, <2>2, <2>3
  <1>4. QED
    BY <1>2, <1>3 DEF w, d

(* Where nothing is left in the buffer, and texts that are so where a line *)
(* closes a statement.                                                     *)
Clean(a) == \E o \in Texts : \E st \in Seq(Texts) : Settled(a, o, st) /\ Blank(o)

Built(a, o, st) ==
    /\ Settled(a, o, st)
    /\ \A j \in LineEnds(a) : EndsStatement(a, j) => Clean(SubSeq(a, 1, j))
    /\ EndsStatement(a, Len(a)) => Blank(o)

(* Nothing is built before the first statement.                            *)
LEMMA Nothing == Settled(<<>>, <<>>, <<>>) /\ Clean(<<>>) /\ Built(<<>>, <<>>, <<>>)
  <1>1. <<>> \in Texts /\ Blank(<<>>) /\ Len(<<>>) = 0 /\ <<>> \in Seq(Texts)
    BY NoText, EmptySeq
  <1>2. /\ Ready(<<>>) /\ Final(<<>>).stmts = <<>> /\ Blank(Final(<<>>).buf)
    BY <1>1, BlankReady
  <1>3. Settled(<<>>, <<>>, <<>>)
    BY <1>1, <1>2, FinalIs, MeansIs DEF Settled
  <1>4. ~EndsStatement(<<>>, 0) /\ LineEnds(<<>>) = {}
    BY DEF EndsStatement, LineEnds
  <1>5. QED
    BY <1>1, <1>3, <1>4 DEF Clean, Built

(* Such a text may be cut where the shell cuts it.                         *)
LEMMA BuiltCuts ==
  ASSUME NEW t, NEW o, NEW st, Built(t, o, st)
  PROVE  splitSQL(t) = st \o Filled(TrimSpace(o)) /\ CutsRight(t)
  <1>1. t \in Texts /\ Ready(t) /\ Len(t) \in Nat /\ DOMAIN t = 1..Len(t)
    BY LenProperties DEF Built, Settled, Ready, Texts
  <1>2. ASSUME NEW j \in LineEnds(t), EndsStatement(t, j)
        PROVE  j \in 1..Len(t) /\ Clean(SubSeq(t, 1, j))
    BY <1>1, <1>2 DEF Built, LineEnds
  <1>3. ASSUME NEW i \in 0..Len(t), Clean(SubSeq(t, 1, i)) \/ i = Len(t)
        PROVE  LET f == From(t, i) IN
               /\ splitSQL(f) \in Seq(Texts) /\ (TrimSpace(f) = <<>> => splitSQL(f) = <<>>)
               /\ splitSQL(Append(f, "newline")) = splitSQL(f)
    <2> DEFINE f == From(t, i)
    <2>1. f \in Texts /\ t = SubSeq(t, 1, i) \o f
      BY <1>1, StartOf
    <2> HIDE DEF f
    <2>2. splitSQL(f) \in Seq(Texts) /\ (TrimSpace(f) = <<>> => splitSQL(f) = <<>>)
      BY <2>1, SplitIs, BlankReady DEF Blank
    <2>3. Ready(f)
      <3>1. CASE Clean(SubSeq(t, 1, i))
        <4>1. PICK p \in Texts, rt \in Seq(Texts) : Settled(SubSeq(t, 1, i), p, rt) /\ Blank(p)
          BY <3>1 DEF Clean
        <4>2. Ready(SubSeq(t, 1, i) \o f)
          BY <1>1, <2>1
        <4>3. QED
          BY <2>1, <4>1, <4>2, SplitJoin
      <3>2. CASE i = Len(t)
        <4>1. f = <<>>
          <5>1. Len(t) + 1 \in Int /\ Len(t) \in Int /\ Len(t) < Len(t) + 1
            BY <1>1
          <5>2. QED
            BY <3>2, <5>1, SubSeqEmpty DEF From, f
        <4>2. QED
          BY <4>1, NoText, BlankReady
      <3>3. QED
        BY <1>3, <3>1, <3>2
    <2>4. splitSQL(Append(f, "newline")) = splitSQL(f)
      BY <2>3, LineEndAdds
    <2>5. QED
      BY <2>2, <2>4 DEF f
  <1>4. ASSUME NEW i \in 0..Len(t), Clean(SubSeq(t, 1, i)), NEW j \in i..Len(t), Clean(SubSeq(t, 1, j))
        PROVE  LET piece == SubSeq(t, i + 1, j) IN
               /\ splitSQL(piece) \in Seq(Texts)
               /\ splitSQL(From(t, i)) = splitSQL(piece) \o splitSQL(From(t, j))
    <2> DEFINE a == SubSeq(t, 1, i)  c == SubSeq(t, 1, j)  piece == SubSeq(t, i + 1, j)
               f == From(t, i)  g == From(t, j)
    <2>1. i \in 0..Len(t) /\ j \in 0..Len(t) /\ 0 \in 0..Len(t) /\ i \in 0..Len(t) /\ 0 + 1 = 1
      BY <1>1
    <2>2. /\ a \in Texts /\ c \in Texts /\ piece \in Texts /\ f \in Texts /\ g \in Texts
          /\ t = a \o f /\ t = c \o g
      BY <1>1, <2>1, StartOf, PieceOf
    <2>3. c = a \o piece
      <3>1. SubSeq(t, 0 + 1, i) \o SubSeq(t, i + 1, j) = SubSeq(t, 0 + 1, j)
        BY <1>1, <2>1, Collecting
      <3>2. QED
        BY <2>1, <3>1
    <2>4. PICK p \in Texts, rt \in Seq(Texts) : Settled(a, p, rt) /\ Blank(p)
      BY <1>4 DEF Clean
    <2>5. PICK q \in Texts, qt \in Seq(Texts) : Settled(c, q, qt) /\ Blank(q)
      BY <1>4 DEF Clean
    <2> HIDE DEF a, c, piece, f, g
    <2>6. /\ splitSQL(a) = rt /\ splitSQL(t) = rt \o splitSQL(f)
          /\ splitSQL(c) = rt \o splitSQL(piece) /\ splitSQL(t) = splitSQL(c) \o splitSQL(g)
      <3>1. splitSQL(a \o f) = rt \o splitSQL(f) /\ splitSQL(a \o piece) = rt \o splitSQL(piece)
            /\ splitSQL(a) = rt
        BY <2>2, <2>4, SplitJoin
      <3>2. splitSQL(c) = qt /\ splitSQL(c \o g) = qt \o splitSQL(g)
        BY <2>2, <2>5, SplitJoin
      <3>3. QED
        BY <2>2, <2>3, <3>1, <3>2
    <2>7. splitSQL(f) \in Seq(Texts) /\ splitSQL(piece) \in Seq(Texts) /\ splitSQL(g) \in Seq(Texts)
      BY <2>2, SplitIs
    <2>8. rt \o splitSQL(f) = rt \o (splitSQL(piece) \o splitSQL(g))
      <3>1. (rt \o splitSQL(piece)) \o splitSQL(g) = rt \o (splitSQL(piece) \o splitSQL(g))
        BY <2>7, Regrouped, Zenon
      <3>2. QED
        BY <2>6, <3>1
    <2>9. splitSQL(f) = splitSQL(piece) \o splitSQL(g)
      <3>1. splitSQL(piece) \o splitSQL(g) \in Seq(Texts)
        BY <2>7, ConcatProperties
      <3>2. QED
        BY <2>7, <2>8, <3>1, ConcatSimplifications
    <2>10. QED
      BY <2>7, <2>9 DEF piece, f, g
  <1>5. ASSUME NEW i \in Cuts(t)
        PROVE  i \in 0..Len(t) /\ (Clean(SubSeq(t, 1, i)) \/ i = Len(t))
    <2>1. CASE i = 0
      <3>1. SubSeq(t, 1, 0) = <<>> /\ 0 \in 0..Len(t)
        BY <1>1, SubSeqEmpty
      <3>2. QED
        BY <2>1, <3>1, Nothing
    <2>2. CASE i = Len(t)
      BY <1>1, <2>2
    <2>3. CASE i \in LineEnds(t) /\ EndsStatement(t, i)
      BY <1>1, <1>2, <2>3
    <2>4. QED
      BY <2>1, <2>2, <2>3 DEF Cuts
  <1>6. ASSUME NEW i \in Cuts(t), NEW j \in LineEnds(t), i < j, Closed(SubSeq(t, i + 1, j))
        PROVE  /\ splitSQL(SubSeq(t, i + 1, j)) \in Seq(Texts)
               /\ splitSQL(From(t, i)) = splitSQL(SubSeq(t, i + 1, j)) \o splitSQL(From(t, j))
    <2>1. i \in 0..Len(t) /\ j \in 1..Len(t) /\ j \in i..Len(t) /\ i # Len(t)
      BY <1>1, <1>5, <1>6 DEF LineEnds
    <2>2. Clean(SubSeq(t, 1, i))
      BY <1>5, <2>1
    <2>3. EndsStatement(t, j)
      BY <1>1, <1>6, <2>1, ClosedEnds
    <2>4. Clean(SubSeq(t, 1, j))
      BY <1>2, <2>3
    <2>5. QED
      BY <1>4, <2>1, <2>2, <2>4
  <1>7. CutsRight(t)
    <2>1. ASSUME NEW i \in Cuts(t)
          PROVE  /\ splitSQL(From(t, i)) \in Seq(Texts)
                 /\ TrimSpace(From(t, i)) = <<>> => splitSQL(From(t, i)) = <<>>
                 /\ splitSQL(Append(From(t, i), "newline")) = splitSQL(From(t, i))
      BY <1>3, <1>5
    <2>2. QED
      BY <1>1, <1>6, <2>1, Zenon DEF CutsRight
  <1>8. QED
    BY <1>7, SettledSplit DEF Built

(* A piece that fits leaves what was built built.                          *)
LEMMA BuiltPiece ==
  ASSUME NEW a, NEW o, NEW st, Built(a, o, st), NEW p, SelfContained(p)
  PROVE  Built(a \o (p.src \o <<"blank">>), o \o (p.out \o <<"blank">>), st)
  <1> DEFINE e == <<"blank">>  src == p.src  u == src \o e  v == p.out \o e
             w == a \o u  d == Len(a)  n == Len(src)
  <1>1. a \in Texts /\ o \in Texts /\ st \in Seq(Texts) /\ src \in Texts /\ p.out \in Texts
    BY DEF Built, Settled, Ready, SelfContained
  <1>2. /\ e \in Texts /\ Len(e) = 1 /\ e[1] = "blank" /\ Blank(e) /\ "blank" \in Space
        /\ Append(src, "blank") = u /\ Append(p.out, "blank") = v
    <2>1. "blank" \in Symbols /\ "blank" \in Space
      BY DEF Symbols, Space
    <2>2. QED
      BY <1>1, <2>1, OneSymbol
  <1>3. /\ Unended(u) /\ Final(u).quote = "none" /\ Final(u).depth = 0 /\ Final(u).from <= Len(u)
        /\ Final(u).stmts = <<>> /\ Final(u).buf = v
        /\ \A i \in LineEnds(src) \union {n} : ~EndsStatement(src, i)
    BY <1>2 DEF SelfContained
  <1> HIDE DEF e, src
  <1>4. /\ u \in Texts /\ v \in Texts /\ n \in Nat /\ Len(u) = n + 1 /\ u[n + 1] = "blank"
        /\ \A i \in 1..n : u[i] = src[i]
    <2>1. /\ u \in Texts /\ v \in Texts /\ n \in Nat /\ Len(u) = n + Len(e)
          /\ \A i \in 1..n : u[i] = src[i]
          /\ \A i \in 1..Len(e) : u[n + i] = e[i]
      BY <1>1, <1>2, JoinIs
    <2>2. QED
      BY <1>2, <2>1
  <1>5. /\ w \in Texts /\ d \in Nat /\ Len(w) = d + Len(u)
        /\ \A i \in 1..d : w[i] = a[i]
        /\ \A i \in 1..Len(u) : w[d + i] = u[i]
    BY <1>1, <1>4, JoinIs
  <1>6. ASSUME NEW m \in 0..Len(u), m \in LineEnds(src) \/ m = Len(u) PROVE ~EndsStatement(u, m)
    <2>1. n \in 0..n /\ Len(e) = 1 /\ 1 \in 0..Len(e) /\ Len(u) = n + 1
      BY <1>2, <1>4
    <2>2. /\ \A j \in 0..n : EndsStatement(u, j) <=> EndsStatement(src, j)
          /\ EndsStatement(u, n + 1) => EndsStatement(e, 1) \/ EndsStatement(src, n)
      <3>1. /\ \A j \in 0..n : EndsStatement(u, j) <=> EndsStatement(src, j)
            /\ \A k \in 0..Len(e) : EndsStatement(u, n + k) =>
                 \/ EndsStatement(e, k)
                 \/ EndsStatement(src, n) /\ \A l \in 1..k : e[l] \in Space
        BY <1>1, <1>2, EndsInJoin
      <3>2. QED
        BY <2>1, <3>1
    <2>3. ~EndsStatement(e, 1)
      BY <1>2 DEF EndsStatement
    <2>4. CASE m \in LineEnds(src)
      <3>1. m \in 0..n
        BY <1>1, <2>4, LenProperties DEF LineEnds, Texts
      <3>2. QED
        BY <1>3, <2>2, <2>4, <3>1
    <2>5. CASE m = Len(u)
      BY <1>3, <2>1, <2>2, <2>3, <2>5
    <2>6. QED
      BY <1>6, <2>4, <2>5
  <1>7. /\ Settled(a, o, st) /\ (EndsStatement(a, d) => Blank(o))
        /\ \A j \in LineEnds(a) : EndsStatement(a, j) => Clean(SubSeq(a, 1, j))
    BY DEF Built
  <1> HIDE DEF u, v, w, d, n
  <1>8. Ready(u)
    BY <1>2, <1>3, <1>4 DEF Ready
  <1>9. Settled(w, o \o v, st)
    <2>1. Settled(a \o u, o \o Final(u).buf, st \o Final(u).stmts)
      BY <1>3, <1>7, <1>8, SettledJoin
    <2>2. st \o Final(u).stmts = st
      BY <1>1, <1>3, ConcatEmptySeq
    <2>3. QED
      BY <1>3, <2>1, <2>2 DEF w
  <1>10. ASSUME NEW m \in 0..Len(u), m \in LineEnds(src) \/ m = Len(u), EndsStatement(w, d + m)
         PROVE  Blank(o) /\ SubSeq(u, 1, m) \in Texts /\ Blank(SubSeq(u, 1, m))
    <2>1. EndsStatement(a, d) /\ \A l \in 1..m : u[l] \in Space
      BY <1>1, <1>4, <1>6, <1>10, EndsInJoin DEF w, d
    <2> DEFINE b == SubSeq(u, 1, m)
    <2>2. b \in Texts /\ Len(b) = m /\ \A l \in 1..m : b[l] = u[l]
      BY <1>4, StartOf
    <2> HIDE DEF b
    <2>3. Blank(b)
      BY <2>1, <2>2, BlankIs
    <2>4. QED
      BY <1>7, <2>1, <2>2, <2>3 DEF b
  <1>11. EndsStatement(w, Len(w)) => Blank(o \o v)
    <2> SUFFICES ASSUME EndsStatement(w, Len(w)) PROVE Blank(o \o v)
      OBVIOUS
    <2>1. Len(u) \in 0..Len(u) /\ Len(w) = d + Len(u) /\ SubSeq(u, 1, Len(u)) = u
      BY <1>4, <1>5, StartOf
    <2>2. Blank(o) /\ Blank(u)
      BY <1>10, <2>1
    <2>3. Blank(v)
      BY <1>3, <1>4, <2>2, BlankReady
    <2>4. QED
      BY <1>1, <1>4, <2>2, <2>3, BlankJoin
  <1>12. ASSUME NEW j \in LineEnds(w), EndsStatement(w, j) PROVE Clean(SubSeq(w, 1, j))
    <2>1. j \in 1..Len(w) /\ w[j] = "newline"
      BY <1>5, LenProperties DEF LineEnds, Texts
    <2>2. CASE j <= d
      <3>1. j \in 0..d /\ j \in 1..d /\ j \in LineEnds(a)
        BY <1>1, <1>5, <2>1, <2>2, LenProperties DEF LineEnds, Texts, d
      <3>2. EndsStatement(a, j)
        BY <1>1, <1>4, <1>12, <3>1, EndsInJoin DEF w, d
      <3>3. SubSeq(w, 1, j) = SubSeq(a, 1, j)
        BY <1>1, <1>4, <3>1, StartOfJoin DEF w, d
      <3>4. QED
        BY <1>7, <3>1, <3>2, <3>3
    <2>3. CASE j > d
      <3> DEFINE m == j - d
      <3>1. m \in 1..Len(u) /\ m \in 0..Len(u) /\ j = d + m
        BY <1>4, <1>5, <2>1, <2>3
      <3> HIDE DEF m
      <3>2. m \in LineEnds(src)
        <4>1. u[m] = "newline" /\ m # n + 1
          BY <1>4, <1>5, <2>1, <3>1
        <4>2. m \in 1..n /\ src[m] = "newline" /\ DOMAIN src = 1..n
          BY <1>1, <1>4, <3>1, <4>1, LenProperties DEF Texts, n
        <4>3. QED
          BY <4>2 DEF LineEnds
      <3> DEFINE b == SubSeq(u, 1, m)
      <3>3. Blank(o) /\ b \in Texts /\ Blank(b)
        BY <1>10, <1>12, <3>1, <3>2
      <3>4. SubSeq(w, 1, j) = a \o b
        BY <1>1, <1>4, <3>1, StartOfJoin DEF w, d
      <3> HIDE DEF b
      <3> DEFINE q == o \o Final(b).buf
      <3>5. Ready(b) /\ Final(b).stmts = <<>> /\ Blank(Final(b).buf) /\ Final(b).buf \in Texts
        BY <3>3, BlankReady, FinalIs
      <3>6. q \in Texts /\ Blank(q)
        BY <1>1, <3>3, <3>5, JoinIs, BlankJoin
      <3>7. Settled(a \o b, q, st)
        <4>1. Settled(a \o b, o \o Final(b).buf, st \o Final(b).stmts)
          BY <1>7, <3>3, <3>5, SettledJoin
        <4>2. QED
          BY <1>1, <3>5, <4>1, ConcatEmptySeq
      <3> HIDE DEF q
      <3>8. QED
        BY <1>1, <3>4, <3>6, <3>7 DEF Clean
    <2>4. QED
      BY <1>5, <2>1, <2>2, <2>3
  <1>13. Built(w, o \o v, st)
    BY <1>9, <1>11, <1>12 DEF Built
  <1>14. QED
    BY <1>13 DEF w, u, v, src, e

(* So does the end of a statement, which leaves nothing in the buffer.     *)
LEMMA BuiltEnd ==
  ASSUME NEW a, NEW o, NEW st, Built(a, o, st)
  PROVE  /\ Built(a \o <<"semicolon", "newline">>, <<"newline">>, st \o Filled(TrimSpace(o)))
         /\ <<"newline">> \in Texts /\ Blank(<<"newline">>)
  <1> DEFINE e == <<"semicolon", "newline">>  nl == <<"newline">>
             w == a \o e  d == Len(a)  f == Final(a)  s == Flush(f)
  <1>1. a \in Texts /\ o \in Texts /\ st \in Seq(Texts) /\ Ready(a)
    BY DEF Built, Settled, Ready
  <1>2. nl \in Texts /\ Blank(nl)
    <2>1. "newline" \in Symbols /\ "newline" \in Space
      BY DEF Symbols, Space
    <2>2. QED
      BY <2>1, OneSymbol
  <1>3. e \in Texts /\ Len(e) = 2 /\ e[1] = "semicolon" /\ e[2] = "newline"
    BY DEF Texts, Symbols, Space
  <1> HIDE DEF e, nl
  <1>4. /\ w \in Texts /\ d \in Nat /\ Len(w) = d + 2
        /\ \A i \in 1..d : w[i] = a[i]
        /\ w[d + 1] = "semicolon" /\ w[d + 2] = "newline"
    <2>1. /\ w \in Texts /\ d \in Nat /\ Len(w) = d + Len(e)
          /\ \A i \in 1..d : w[i] = a[i]
          /\ \A i \in 1..Len(e) : w[d + i] = e[i]
      BY <1>1, <1>3, JoinIs
    <2>2. QED
      BY <1>3, <2>1
  <1>5. Scanned(w)[d] = f /\ f.from <= d + 1
    BY <1>1, <1>3, SettledBefore DEF Final
  <1>6. /\ f \in ScanStates /\ f.quote = "none" /\ f.depth = 0 /\ f.from \in Nat /\ f.buf \in Texts
        /\ f.stmts = st /\ Means(f.buf, o)
    BY <1>1, FinalIs DEF Built, Settled, Ready
  <1> HIDE DEF w, d, f
  <1>7. /\ s \in ScanStates /\ s.buf = <<>> /\ s.quote = "none" /\ s.depth = 0 /\ s.from = f.from
        /\ s.stmts = st \o Filled(TrimSpace(o))
    <2>1. TrimSpace(f.buf) = TrimSpace(o) /\ TrimSpace(o) \in Texts
      BY <1>1, <1>6, MeansIs, TrimType
    <2>2. /\ s \in ScanStates /\ s.buf = <<>> /\ s.quote = "none" /\ s.depth = 0 /\ s.from = f.from
          /\ s.stmts = IF TrimSpace(f.buf) = <<>> THEN st ELSE Append(st, TrimSpace(f.buf))
      BY <1>6, FlushType
    <2> DEFINE m == TrimSpace(o)
    <2>3. s.stmts = (IF m = <<>> THEN st ELSE Append(st, m)) /\ m \in Texts
      BY <2>1, <2>2
    <2> HIDE DEF m, s
    <2>4. st \o <<>> = st /\ Append(st, m) = st \o <<m>>
      BY <1>1, <2>3, ConcatEmptySeq, AppendIsConcat
    <2>5. s.stmts = st \o Filled(m)
      BY <2>3, <2>4 DEF Filled
    <2>6. QED
      BY <2>2, <2>5 DEF m
  <1> HIDE DEF s
  <1>8. Scanned(w)[d + 1] = s
    <2>1. d + 1 \in 1..Len(w) /\ (d + 1) - 1 = d
      BY <1>4
    <2>2. Scanned(w)[d + 1] = Scan(w, f, d + 1)
      BY <1>4, <1>5, <2>1, ScannedIs
    <2>3. Scan(w, f, d + 1) = Outside(w, f, d + 1)
      BY <1>4, <1>5, <1>6 DEF Scan
    <2>4. Outside(w, f, d + 1) = s
      BY <1>4, <1>6 DEF Outside, Quotes, StartsComment, EndsHere, s
    <2>5. QED
      BY <2>2, <2>3, <2>4
  <1>9. Final(w) = [Put(s, nl) EXCEPT !.depth = 0]
    <2>1. d + 2 \in 1..Len(w) /\ (d + 2) - 1 = d + 1 /\ Len(w) = d + 2
      BY <1>4
    <2>2. Final(w) = Scan(w, s, d + 2)
      BY <1>4, <1>8, <2>1, ScannedIs DEF Final
    <2>3. s.from <= d + 2 /\ s.from \in Nat
      BY <1>4, <1>5, <1>6, <1>7
    <2>4. Scan(w, s, d + 2) = Outside(w, s, d + 2)
      BY <1>4, <1>7, <2>3 DEF Scan
    <2>5. Depth(w, s, d + 2) = 0
      BY <1>4, <1>7 DEF Depth
    <2>6. Outside(w, s, d + 2) = [Put(s, nl) EXCEPT !.depth = 0]
      BY <1>4, <2>5 DEF Outside, Quotes, StartsComment, EndsHere, nl
    <2>7. QED
      BY <2>2, <2>4, <2>6
  <1>10. /\ Final(w).quote = "none" /\ Final(w).depth = 0 /\ Final(w).from <= Len(w)
         /\ Final(w).buf = nl /\ Final(w).stmts = st \o Filled(TrimSpace(o))
    <2> DEFINE p == Put(s, nl)
    <2>1. /\ p \in ScanStates /\ p.buf = <<>> \o nl /\ p.stmts = s.stmts /\ p.quote = s.quote
          /\ p.from = s.from
      BY <1>2, <1>7, PutType
    <2>2. <<>> \o nl = nl
      BY <1>2, NoText
    <2> HIDE DEF p
    <2>3. /\ Final(w).quote = p.quote /\ Final(w).depth = 0 /\ Final(w).from = p.from
          /\ Final(w).buf = p.buf /\ Final(w).stmts = p.stmts
      BY <1>9, <2>1 DEF p, ScanStates
    <2>4. QED
      BY <1>4, <1>5, <1>6, <1>7, <2>1, <2>2, <2>3
  <1>11. Settled(w, nl, st \o Filled(TrimSpace(o)))
    <2>1. Ready(w)
      BY <1>4, <1>10 DEF Ready, Space
    <2>2. Means(nl, nl)
      BY DEF Means
    <2>3. st \o Filled(TrimSpace(o)) \in Seq(Texts)
      BY <1>1, FilledIs, ConcatProperties
    <2>4. QED
      BY <1>2, <1>10, <2>1, <2>2, <2>3 DEF Settled
  <1>12. ASSUME NEW j \in LineEnds(w), EndsStatement(w, j) PROVE Clean(SubSeq(w, 1, j))
    <2>1. j \in 1..Len(w) /\ w[j] = "newline"
      BY <1>4, LenProperties DEF LineEnds, Texts
    <2>2. CASE j <= d
      <3>1. j \in 0..d /\ j \in 1..d /\ j \in LineEnds(a)
        BY <1>1, <1>4, <2>1, <2>2, LenProperties DEF LineEnds, Texts, d
      <3>2. EndsStatement(a, j)
        BY <1>1, <1>3, <1>12, <3>1, EndsInJoin DEF w, d
      <3>3. SubSeq(w, 1, j) = SubSeq(a, 1, j)
        BY <1>1, <1>3, <3>1, StartOfJoin DEF w, d
      <3>4. QED
        BY <3>1, <3>2, <3>3 DEF Built
    <2>3. CASE j > d
      <3>1. j # d + 1
        BY <1>4, <2>1
      <3>2. j = Len(w)
        BY <1>4, <2>1, <2>3, <3>1
      <3>3. SubSeq(w, 1, Len(w)) = w
        <4>1. 0 \in 0..Len(w)
          BY <1>4
        <4>2. QED
          BY <1>4, <4>1, StartOf
      <3>4. st \o Filled(TrimSpace(o)) \in Seq(Texts)
        BY <1>11 DEF Settled
      <3>5. Clean(w)
        BY <1>2, <1>11, <3>4 DEF Clean
      <3>6. QED
        BY <3>2, <3>3, <3>5
    <2>4. QED
      BY <1>4, <2>1, <2>2, <2>3
  <1>13. Built(w, nl, st \o Filled(TrimSpace(o)))
    BY <1>2, <1>11, <1>12 DEF Built
  <1>14. QED
    BY <1>2, <1>13 DEF w, e, nl

(* The pieces of a statement, one after the other.                         *)
LEMMA BuiltSource ==
  ASSUME NEW a, NEW o, NEW st, Built(a, o, st),
         \A p \in Pieces : SelfContained(p), NEW stmt \in Seq(Pieces)
  PROVE  LET out == Spaced([i \in DOMAIN stmt |-> stmt[i].out]) IN
         /\ Built(a \o Source(stmt), o \o out, st)
         /\ Source(stmt) \in Texts /\ out \in Texts
  <1> DEFINE n == Len(stmt)  e == <<"blank">>
             srcs == [i \in 1..n |-> stmt[i].src \o e]
             outs == [i \in 1..n |-> stmt[i].out \o e]
  <1>1. n \in Nat /\ DOMAIN stmt = 1..n /\ \A i \in 1..n : stmt[i] \in Pieces
    BY LenProperties, ElementOfSeq
  <1>2. e \in Texts
    BY DEF Texts, Symbols, Space
  <1>3. \A i \in 1..n : stmt[i].src \in Texts /\ stmt[i].out \in Texts
    BY <1>1 DEF SelfContained
  <1>4. /\ Source(stmt) = FlattenSeq(srcs)
        /\ Spaced([i \in DOMAIN stmt |-> stmt[i].out]) = FlattenSeq(outs)
    <2>1. /\ DOMAIN [i \in 1..n |-> stmt[i].src] = 1..n
          /\ DOMAIN [i \in 1..n |-> stmt[i].out] = 1..n
      OBVIOUS
    <2>2. /\ [i \in 1..n |-> [k \in 1..n |-> stmt[k].src][i] \o e] = srcs
          /\ [i \in 1..n |-> [k \in 1..n |-> stmt[k].out][i] \o e] = outs
      OBVIOUS
    <2>3. QED
      BY <1>1, <2>1, <2>2 DEF Source, Spaced
  <1>5. srcs \in Seq(Texts) /\ outs \in Seq(Texts) /\ Len(srcs) = n /\ Len(outs) = n
    <2> HIDE DEF e
    <2>1. \A i \in 1..n : stmt[i].src \o e \in Texts /\ stmt[i].out \o e \in Texts
      BY <1>2, <1>3, JoinIs
    <2>2. QED
      BY <1>1, <2>1, IsASeq
  <1>6. PICK f \in [0..n -> Texts] :
           /\ f[0] = <<>> /\ f[n] = FlattenSeq(srcs)
           /\ \A i \in 1..n : f[i] = f[i - 1] \o srcs[i]
    <2> HIDE DEF srcs, n
    <2>1. QED
      BY <1>5, Flattened DEF Texts
  <1>7. PICK g \in [0..n -> Texts] :
           /\ g[0] = <<>> /\ g[n] = FlattenSeq(outs)
           /\ \A i \in 1..n : g[i] = g[i - 1] \o outs[i]
    <2> HIDE DEF outs, n
    <2>1. QED
      BY <1>5, Flattened DEF Texts
  <1> DEFINE S == {i \in 0..n : Built(a \o f[i], o \o g[i], st)}
  <1>8. a \in Texts /\ o \in Texts
    BY DEF Built, Settled, Ready
  <1>9. 0 \in S
    <2>1. 0 \in 0..n /\ a \o f[0] = a /\ o \o g[0] = o
      BY <1>1, <1>6, <1>7, <1>8, NoText
    <2>2. QED
      BY <2>1
  <1>10. ASSUME NEW i \in 1..n, i - 1 \in S PROVE i \in S
    <2> DEFINE u == stmt[i].src \o e  v == stmt[i].out \o e
    <2>1. Built((a \o f[i - 1]) \o u, (o \o g[i - 1]) \o v, st)
      <3>1. Built(a \o f[i - 1], o \o g[i - 1], st) /\ SelfContained(stmt[i])
        BY <1>1, <1>10
      <3>2. QED
        BY <3>1, BuiltPiece
    <2>2. f[i] = f[i - 1] \o u /\ g[i] = g[i - 1] \o v /\ i \in 0..n /\ i - 1 \in 0..n
      <3>1. srcs[i] = u /\ outs[i] = v
        OBVIOUS
      <3>2. i \in 0..n /\ i - 1 \in 0..n
        BY <1>1
      <3> HIDE DEF srcs, outs, u, v
      <3>3. QED
        BY <1>6, <1>7, <3>1, <3>2
    <2>3. f[i - 1] \in Texts /\ g[i - 1] \in Texts /\ u \in Texts /\ v \in Texts
      BY <1>1, <1>2, <1>3, <2>2, JoinIs
    <2> HIDE DEF u, v
    <2>4. (a \o f[i - 1]) \o u = a \o (f[i - 1] \o u) /\ (o \o g[i - 1]) \o v = o \o (g[i - 1] \o v)
      <3>1. a \o (f[i - 1] \o u) = (a \o f[i - 1]) \o u
        BY <1>8, <2>3, Joined
      <3>2. o \o (g[i - 1] \o v) = (o \o g[i - 1]) \o v
        BY <1>8, <2>3, Joined
      <3>3. QED
        BY <3>1, <3>2
    <2>5. Built(a \o f[i], o \o g[i], st)
      BY <2>1, <2>2, <2>4
    <2>6. QED
      BY <2>2, <2>5
  <1>11. n \in S
    <2> HIDE DEF S, n, srcs, outs, e
    <2>1. n \in Nat /\ n \in 0..n
      BY <1>1
    <2>2. 0..n \subseteq S
      BY <1>9, <1>10, <2>1, Counting
    <2>3. QED
      BY <2>1, <2>2
  <1>12. f[n] \in Texts /\ g[n] \in Texts
    BY <1>1
  <1>13. QED
    BY <1>4, <1>6, <1>7, <1>11, <1>12

(* The statements of a script: its text means what they mean, and it may   *)
(* be cut, with the end of its last line and without.                      *)
LEMMA ScriptSplits ==
  ASSUME \A p \in Pieces : SelfContained(p),
         NEW script \in SeqOf(Statements, MaxStatements), script # <<>>,
         NEW t \in {Typed(script), Unfinished(Typed(script))}
  PROVE  splitSQL(t) = Wanted(script) /\ CutsRight(t)
  <1> DEFINE n == Len(script)  e == <<"semicolon", "newline">>
             Out(i) == Spaced([k \in DOMAIN script[i] |-> script[i][k].out])
             typed == [i \in 1..n |-> Source(script[i]) \o e]
             meant == [i \in 1..n |-> Filled(TrimSpace(Out(i)))]
  <1>1. n \in Nat /\ DOMAIN script = 1..n /\ n # 0 /\ \A i \in 1..n : script[i] \in Seq(Pieces)
    <2>1. MaxStatements \in Nat /\ MaxPieces \in Nat
      BY ShellAssumption
    <2>2. script \in Seq(Statements)
      BY <2>1, SomeOf
    <2>3. n \in Nat /\ DOMAIN script = 1..n /\ n # 0 /\ \A i \in 1..n : script[i] \in Statements
      BY <2>2, LenProperties, ElementOfSeq, EmptySeq
    <2>4. \A s \in Statements : s \in Seq(Pieces)
      BY <2>1, SomeOf DEF Statements
    <2>5. QED
      BY <2>3, <2>4
  <1>2. e \in Texts
    BY DEF Texts, Symbols, Space
  <1>3. \A i \in 1..n : Source(script[i]) \in Texts /\ Out(i) \in Texts
    BY <1>1, Nothing, BuiltSource
  <1>4. Typed(script) = FlattenSeq(typed) /\ Wanted(script) = FlattenSeq(meant)
    BY <1>1 DEF Typed, Wanted, Meaning
  <1> HIDE DEF n, e, Out
  <1>5. typed \in Seq(Texts) /\ Len(typed) = n /\ meant \in Seq(Seq(Texts)) /\ Len(meant) = n
    <2>1. \A i \in 1..n : Source(script[i]) \o e \in Texts
      BY <1>2, <1>3, JoinIs
    <2>2. \A i \in 1..n : Filled(TrimSpace(Out(i))) \in Seq(Texts)
      BY <1>3, FilledIs
    <2>3. QED
      BY <1>1, <2>1, <2>2
  <1>6. PICK f \in [0..n -> Texts] :
           /\ f[0] = <<>> /\ f[n] = Typed(script)
           /\ \A i \in 1..n : f[i] = f[i - 1] \o typed[i]
    <2> HIDE DEF typed, meant
    <2>1. typed \in Seq(Seq(Symbols)) /\ Len(typed) = n
      BY <1>5 DEF Texts
    <2>2. \E f \in [0..n -> Seq(Symbols)] :
             /\ f[0] = <<>> /\ f[n] = FlattenSeq(typed)
             /\ \A i \in 1..n : f[i] = f[i - 1] \o typed[i]
      BY <2>1, Flattened
    <2>3. QED
      BY <1>4, <2>2 DEF Texts
  <1>7. PICK g \in [0..n -> Seq(Texts)] :
           /\ g[0] = <<>> /\ g[n] = Wanted(script)
           /\ \A i \in 1..n : g[i] = g[i - 1] \o meant[i]
    <2> HIDE DEF typed, meant
    <2>1. meant \in Seq(Seq(Texts)) /\ Len(meant) = n
      BY <1>5
    <2>2. \E g \in [0..n -> Seq(Texts)] :
             /\ g[0] = <<>> /\ g[n] = FlattenSeq(meant)
             /\ \A i \in 1..n : g[i] = g[i - 1] \o meant[i]
      BY <2>1, Flattened
    <2>3. QED
      BY <1>4, <2>2
  <1> DEFINE S == {i \in 0..n : \E o \in Texts : Blank(o) /\ Built(f[i], o, g[i])}
  <1>8. 0 \in S
    <2>1. 0 \in 0..n
      BY <1>1
    <2>2. QED
      BY <1>6, <1>7, <2>1, Nothing, NoText
  (* A statement without its end, and with it.                             *)
  <1>9. ASSUME NEW i \in 1..n, i - 1 \in S
        PROVE  /\ i \in S
               /\ \E s, o \in Texts : /\ f[i] = s \o e /\ Built(s, o, g[i - 1])
                                      /\ g[i] = g[i - 1] \o Filled(TrimSpace(o))
    <2>1. PICK b \in Texts : Blank(b) /\ Built(f[i - 1], b, g[i - 1])
      BY <1>9
    <2> DEFINE src == Source(script[i])  s == f[i - 1] \o src  o == b \o Out(i)
    <2>2. i \in 0..n /\ i - 1 \in 0..n /\ src \in Texts /\ Out(i) \in Texts
      BY <1>1, <1>3
    <2>3. f[i - 1] \in Texts /\ g[i - 1] \in Seq(Texts)
      BY <2>2
    <2>4. Built(s, o, g[i - 1])
      <3>1. script[i] \in Seq(Pieces)
        BY <1>1
      <3>2. QED
        BY <2>1, <3>1, BuiltSource DEF Out
    <2>5. s \in Texts /\ o \in Texts
      BY <2>1, <2>2, <2>3, JoinIs
    <2>6. TrimSpace(o) = TrimSpace(Out(i))
      BY <2>1, <2>2, TrimAround
    <2>7. f[i] = s \o e
      <3>1. f[i] = f[i - 1] \o (src \o e)
        <4>1. typed[i] = src \o e
          OBVIOUS
        <4> HIDE DEF typed, src
        <4>2. QED
          BY <1>6, <4>1
      <3> HIDE DEF src
      <3>2. f[i - 1] \o (src \o e) = (f[i - 1] \o src) \o e
        BY <1>2, <2>2, <2>3, Regrouped, Zenon
      <3>3. QED
        BY <3>1, <3>2
    <2>8. g[i] = g[i - 1] \o Filled(TrimSpace(o))
      <3>1. meant[i] = Filled(TrimSpace(Out(i)))
        OBVIOUS
      <3> HIDE DEF meant, o
      <3>2. QED
        BY <1>7, <2>6, <3>1
    <2> HIDE DEF s, o
    <2>9. \E q \in Texts : Blank(q) /\ Built(f[i], q, g[i])
      BY <2>4, <2>7, <2>8, BuiltEnd DEF e
    <2>10. QED
      BY <2>2, <2>4, <2>5, <2>7, <2>8, <2>9
  <1>10. n \in S /\ n - 1 \in S /\ n \in 1..n
    <2> HIDE DEF S
    <2>1. n \in 0..n /\ n - 1 \in 0..n /\ n \in 1..n
      BY <1>1
    <2>2. 0..n \subseteq S
      BY <1>1, <1>8, <1>9, Counting
    <2>3. QED
      BY <2>1, <2>2
  <1>11. CASE t = Typed(script)
    <2>1. PICK o \in Texts : Blank(o) /\ Built(t, o, Wanted(script))
      BY <1>6, <1>7, <1>10, <1>11
    <2>2. Settled(t, o, Wanted(script))
      BY <2>1 DEF Built
    <2>3. splitSQL(t) = Wanted(script)
      BY <2>1, <2>2, SettledSplit
    <2>4. QED
      BY <2>1, <2>3, BuiltCuts
  <1>12. CASE t = Unfinished(Typed(script))
    <2>1. PICK s \in Texts, o \in Texts :
             /\ f[n] = s \o e /\ Built(s, o, g[n - 1])
             /\ g[n] = g[n - 1] \o Filled(TrimSpace(o))
      BY <1>9, <1>10
    <2>2. t = s
      <3> DEFINE w == s \o e
      <3>1. Len(w) = Len(s) + Len(e) /\ Len(e) = 2 /\ Len(s) \in Nat
        BY <1>2, <2>1, JoinIs DEF e
      <3>2. Len(w) - 2 = Len(s) /\ Len(s) \in 0..Len(s) /\ Unfinished(w) = SubSeq(w, 1, Len(w) - 2)
        BY <3>1 DEF Unfinished
      <3>3. SubSeq(w, 1, Len(s)) = SubSeq(s, 1, Len(s)) /\ SubSeq(s, 1, Len(s)) = s
        BY <1>2, <2>1, <3>2, StartOfJoin, StartOf
      <3>4. t = Unfinished(w)
        BY <1>6, <1>12, <2>1
      <3> HIDE DEF w
      <3>5. QED
        BY <3>2, <3>3, <3>4
    <2>3. QED
      BY <1>7, <2>1, <2>2, BuiltCuts
  <1>13. QED
    BY <1>11, <1>12

(* So the input of the shell is read as it is meant.                       *)
LEMMA InputSplits ==
  ASSUME \A p \in Pieces : SelfContained(p)
  PROVE  ShellInit => SplitsBack
  <1> SUFFICES ASSUME ShellInit PROVE SplitsBack
    OBVIOUS
  <1>1. PICK script \in SeqOf(Statements, MaxStatements) \ {<<>>} :
           wanted = Wanted(script) /\ text \in {Typed(script), Unfinished(Typed(script))}
    BY DEF ShellInit
  <1>2. QED
    BY <1>1, ScriptSplits DEF SplitsBack

(* splitSQL (migrator.go:214) finds exactly the statements its input was   *)
(* built from, with their comments dropped and their strings and bodies    *)
(* whole, and finds the same ones when the input is cut where the shell    *)
(* cuts it: for any pieces that are self-contained, any number of them in  *)
(* a statement and of statements in a script, with the last semicolon and  *)
(* without it.                                                             *)
THEOREM ShellSplitsBack ==
  ASSUME \A p \in Pieces : SelfContained(p)
  PROVE  ShellSpec => []SplitsBack
  <1>1. ShellInit => SplitsBack
    BY InputSplits
  <1>2. SplitsBack /\ [ShellNext]_shellVars => SplitsBack'
    <2> SUFFICES ASSUME SplitsBack, [ShellNext]_shellVars PROVE SplitsBack'
      OBVIOUS
    <2>1. CASE UNCHANGED shellVars
      BY <2>1 DEF SplitsBack, shellVars
    <2>2. CASE ReadLine
      BY <2>2 DEF SplitsBack, ReadLine
    <2>3. CASE EndOfInput
      BY <2>3 DEF SplitsBack, EndOfInput
    <2>4. CASE RunStatement
      BY <2>4 DEF SplitsBack, RunStatement
    <2>5. CASE StatementFails
      BY <2>5 DEF SplitsBack, StatementFails
    <2>6. CASE BufferDone
      BY <2>6 DEF SplitsBack, BufferDone
    <2>7. QED
      BY <2>1, <2>2, <2>3, <2>4, <2>5, <2>6 DEF ShellNext
  <1>3. QED
    BY <1>1, <1>2, PTL DEF ShellSpec

(* Strings are such pieces (migrator.go:224): what starts and ends with a  *)
(* quote and has none of its kind between is self-contained, whatever else *)
(* it holds, semicolons, dashes, BEGIN and END, unless a line of it ends   *)
(* in a semicolon.                                                         *)
THEOREM QuotedFits ==
  ASSUME NEW q \in Quotes, NEW src \in Texts, NEW n \in Nat, Len(src) = n + 2,
         src[1] = q, src[n + 2] = q, \A k \in 2..n + 1 : src[k] # q,
         \A i \in LineEnds(src) : ~EndsStatement(src, i)
  PROVE  SelfContained([src |-> src, out |-> src])
  <1> DEFINE u == Append(src, "blank")
             f == Scanned(u)
             e == <<"blank">>
  <1>1. "blank" \in Symbols
    BY DEF Symbols, Space
  <1>2. e \in Texts /\ Len(e) = 1 /\ e[1] = "blank"
    BY <1>1, OneSymbol
  <1>3. n \in Nat /\ src \in Texts /\ q \in Symbols
    BY DEF Symbols
  <1>4. /\ u \in Texts /\ Len(u) = n + 3 /\ u[n + 3] = "blank"
        /\ \A k \in 1..n + 2 : u[k] = src[k]
    <2>1. u = src \o e
      BY <1>1, OneSymbol
    <2> HIDE DEF u, e
    <2>2. /\ u \in Texts /\ Len(u) = Len(src) + 1
          /\ \A k \in 1..Len(src) : u[k] = src[k]
          /\ \A k \in 1..Len(e) : u[Len(src) + k] = e[k]
      <3>1. Len(src \o e) = Len(src) + Len(e)
        BY <1>2, JoinIs
      <3>2. /\ \A k \in 1..Len(src) : (src \o e)[k] = src[k]
            /\ \A k \in 1..Len(e) : (src \o e)[Len(src) + k] = e[k]
            /\ src \o e \in Texts
        BY <1>2, JoinIs
      <3>3. QED
        BY <1>2, <2>1, <3>1, <3>2
    <2>3. QED
      BY <1>2, <1>3, <2>2
  <1>5. /\ f \in [0..n + 3 -> ScanStates] /\ f[0] = Unscanned /\ Final(u) = f[n + 3]
        /\ \A i \in 1..n + 3 : f[i] = Scan(u, f[i - 1], i)
    BY <1>4, ScannedIs DEF Final
  <1> HIDE DEF u, f
  <1> DEFINE In(i) == IF i \in 1..n + 1 THEN q ELSE "none"
             Collects(i) == /\ f[i].from = 1 /\ f[i].depth = 0 /\ f[i].stmts = <<>>
                            /\ f[i].quote = In(i) /\ f[i].buf = SubSeq(u, 1, i)
  <1>6. q # "none" /\ q # "blank" /\ q # "newline" /\ q # "semicolon" /\ q # "dash" /\ q # "begin" /\ q # "end"
    BY DEF Quotes
  <1>7. Collects(0)
    BY <1>3, <1>5 DEF Unscanned
  <1>8. ASSUME NEW i \in 1..n + 3, Collects(i - 1) PROVE Collects(i) /\ ~Ends(u, f[i - 1], i)
    <2> DEFINE s == f[i - 1]  c == <<u[i]>>  p == Put(s, c)
               a == SubSeq(u, 1, i - 1)  b == SubSeq(u, 1, i)
    <2>1. /\ s \in ScanStates /\ s.from = 1 /\ s.depth = 0 /\ s.stmts = <<>> /\ s.quote = In(i - 1)
          /\ s.buf = a /\ f[i] = Scan(u, s, i)
      BY <1>3, <1>5, <1>8
    <2>2. u[i] \in Symbols /\ i \in 0..Len(u) /\ i - 1 \in 0..Len(u)
      BY <1>3, <1>4, ElementOfSeq DEF Texts
    <2>3. /\ c \in Texts /\ Len(c) = 1 /\ c[1] = u[i]
          /\ a \in Texts /\ Len(a) = i - 1 /\ \A k \in 1..i - 1 : a[k] = u[k]
          /\ b \in Texts /\ Len(b) = i /\ \A k \in 1..i : b[k] = u[k]
      BY <1>4, <2>2, OneSymbol, StartOf
    <2>4. p = Put(s, c) /\ p = Put(s, <<u[i]>>)
      OBVIOUS
    <2>5. Collects(i) <=> /\ f[i].from = 1 /\ f[i].depth = 0 /\ f[i].stmts = <<>>
                          /\ f[i].quote = In(i) /\ f[i].buf = b
      OBVIOUS
    <2> HIDE DEF s, a, b, c, p, Collects
    <2>6. b = a \o c
      <3>1. /\ a \o c \in Texts /\ Len(a \o c) = i
            /\ \A k \in 1..i - 1 : (a \o c)[k] = a[k]
            /\ \A k \in 1..1 : (a \o c)[i - 1 + k] = c[k]
        <4>1. /\ a \o c \in Texts /\ Len(a \o c) = Len(a) + Len(c)
              /\ \A k \in 1..Len(a) : (a \o c)[k] = a[k]
              /\ \A k \in 1..Len(c) : (a \o c)[Len(a) + k] = c[k]
          BY <2>3, JoinIs
        <4>2. QED
          BY <2>3, <4>1
      <3>2. (a \o c)[i - 1 + 1] = u[i] /\ i - 1 + 1 = i
        BY <1>3, <2>3, <3>1
      <3>3. \A k \in 1..i : k = i \/ k \in 1..i - 1
        BY <1>3
      <3>4. Len(b) = Len(a \o c) /\ \A k \in 1..Len(b) : b[k] = (a \o c)[k]
        BY <2>3, <3>1, <3>2, <3>3
      <3>5. QED
        BY <2>3, <3>1, <3>4, Same
    <2>7. /\ p \in ScanStates /\ p.from = 1 /\ p.depth = 0 /\ p.stmts = <<>>
          /\ p.quote = In(i - 1) /\ p.buf = b
      <3>1. /\ Put(s, c) \in ScanStates
            /\ Put(s, c).buf = s.buf \o c /\ Put(s, c).stmts = s.stmts
            /\ Put(s, c).quote = s.quote /\ Put(s, c).depth = s.depth /\ Put(s, c).from = s.from
        BY <2>1, <2>3, PutType
      <3>2. QED
        BY <2>1, <2>4, <2>6, <3>1
    <2>8. ASSUME NEW x \in {"none"} \union Quotes
          PROVE  LET r == [p EXCEPT !.quote = x] IN
                 /\ r.from = 1 /\ r.depth = 0 /\ r.stmts = <<>> /\ r.quote = x /\ r.buf = b
      BY <2>7 DEF ScanStates
    <2>9. CASE i = 1
      <3>1. u[i] = q /\ u[i] \in Quotes /\ In(i - 1) = "none" /\ In(i) = q
        BY <1>3, <1>4, <2>9
      <3>2. Outside(u, s, i) = [p EXCEPT !.quote = q]
        BY <1>6, <2>4, <3>1 DEF Outside, StartsComment, EndsHere
      <3>4. f[i] = Outside(u, s, i)
        BY <2>1, <2>9, <3>1 DEF Scan
      <3>3. QED
        BY <1>6, <2>5, <2>8, <3>1, <3>2, <3>4 DEF Ends, EndsHere
    <2>10. CASE i \in 2..n + 1
      <3>1. u[i] # q /\ In(i - 1) = q /\ In(i) = q
        BY <1>3, <1>4, <2>10
      <3>2. f[i] = p
        BY <1>6, <2>1, <2>4, <2>10, <3>1 DEF Scan, InString
      <3>3. QED
        BY <1>6, <2>1, <2>5, <2>7, <3>1, <3>2 DEF Ends, s
    <2>11. CASE i = n + 2
      <3>1. u[i] = q /\ After(u, i) = "blank" /\ In(i - 1) = q /\ In(i) = "none"
        BY <1>3, <1>4, <2>11 DEF After
      <3>2. f[i] = [p EXCEPT !.quote = "none"]
        BY <1>3, <1>6, <2>1, <2>4, <2>11, <3>1 DEF Scan, InString
      <3>3. QED
        BY <1>6, <2>1, <2>5, <2>8, <3>1, <3>2 DEF Ends, s
    <2>12. CASE i = n + 3
      <3>1. u[i] = "blank" /\ u[i] \notin Quotes /\ In(i - 1) = "none" /\ In(i) = "none"
        BY <1>3, <1>4, <2>12 DEF Quotes
      <3>2. Depth(u, s, i) = 0
        BY <2>1, <3>1 DEF Depth
      <3>3. f[i] = [p EXCEPT !.depth = 0]
        BY <1>3, <2>1, <2>4, <2>12, <3>1, <3>2 DEF Scan, Outside, StartsComment, EndsHere
      <3>4. f[i] = p
        BY <2>7, <3>3 DEF ScanStates
      <3>5. QED
        BY <2>5, <2>7, <3>1, <3>4 DEF Ends, EndsHere
    <2>13. i = 1 \/ i \in 2..n + 1 \/ i = n + 2 \/ i = n + 3
      BY <1>3
    <2>14. QED
      BY <2>9, <2>10, <2>11, <2>12, <2>13
  <1>9. \A i \in 0..n + 3 : Collects(i)
    <2> DEFINE S == {i \in 0..n + 3 : Collects(i)}
    <2> HIDE DEF Collects
    <2>1. 0 \in S /\ \A i \in 1..n + 3 : i - 1 \in S => i \in S
      BY <1>3, <1>7, <1>8
    <2> HIDE DEF S
    <2>2. 0..n + 3 \subseteq S
      <3> DEFINE m == n + 3
      <3>1. m \in Nat /\ 0 \in S /\ \A i \in 1..m : i - 1 \in S => i \in S
        BY <1>3, <2>1
      <3> HIDE DEF m
      <3>2. 0..m \subseteq S
        BY <3>1, Counting
      <3>3. QED
        BY <3>2 DEF m
    <2>3. QED
      BY <2>2 DEF S
  <1>10. \A i \in 1..n + 3 : ~Ends(u, f[i - 1], i)
    <2> HIDE DEF Collects
    <2>1. \A i \in 1..n + 3 : i - 1 \in 0..n + 3
      BY <1>3
    <2>2. QED
      BY <1>8, <1>9, <2>1
  <1>11. ~EndsStatement(src, Len(src))
    <2> SUFFICES ASSUME NEW k \in 1..n + 2, src[k] = "semicolon",
                        \A l \in (k + 1)..n + 2 : src[l] \in Space
                 PROVE  FALSE
      BY <1>3 DEF EndsStatement
    <2>1. k # n + 2
      BY <1>3, <1>6
    <2>2. n + 2 \in (k + 1)..n + 2
      BY <1>3, <2>1
    <2>3. QED
      BY <1>3, <1>6, <2>2 DEF Space
  <1>12. SubSeq(u, 1, n + 3) = u
    BY <1>3, <1>4, StartOf
  <1>13. /\ f[n + 3].quote = "none" /\ f[n + 3].depth = 0 /\ f[n + 3].from = 1
         /\ f[n + 3].stmts = <<>> /\ f[n + 3].buf = u
    <2>1. n + 3 \in 0..n + 3 /\ n + 3 \notin 1..n + 1
      BY <1>3
    <2>2. Collects(n + 3)
      BY <1>9, <2>1
    <2>3. QED
      BY <1>12, <2>1, <2>2
  <1>14. Unended(u) /\ 1 <= Len(u)
    BY <1>3, <1>4, <1>10 DEF Unended, f
  <1>15. QED
    BY <1>3, <1>4, <1>5, <1>11, <1>13, <1>14 DEF SelfContained, u

-----------------------------------------------------------------------------
(* The shell.                                                              *)

(* The next line of the rest, up to its line break, and what it leaves.    *)
LEMMA NextLine ==
  ASSUME NEW t \in Texts, NEW j \in 0..Len(t),
         LET ends == {i \in DOMAIN From(t, j) : From(t, j)[i] = "newline"} IN ends # {}
  PROVE  LET r == From(t, j)
             n == Min({i \in DOMAIN r : r[i] = "newline"})
         IN  /\ n \in 1..Len(t) - j /\ j + n \in LineEnds(t)
             /\ SubSeq(r, 1, n) = SubSeq(t, j + 1, j + n)
             /\ SubSeq(r, n + 1, Len(r)) = From(t, j + n)
  <1> DEFINE r == From(t, j)
             ends == {i \in DOMAIN r : r[i] = "newline"}
             n == Min(ends)
  <1>1. Len(t) \in Nat /\ DOMAIN t = 1..Len(t) /\ Len(t) \in j..Len(t)
    BY LenProperties DEF Texts
  <1>2. r \in Texts /\ Len(r) = Len(t) - j /\ \A k \in 1..Len(t) - j : r[k] = t[j + k]
    BY <1>1, PieceOf DEF From
  <1>3. DOMAIN r = 1..Len(r) /\ Len(r) \in Nat
    BY <1>2, LenProperties DEF Texts
  <1>4. n \in ends
    <2>1. ends \in SUBSET (1..Len(r)) /\ ends # {}
      BY <1>3
    <2> HIDE DEF ends
    <2>2. QED
      BY <1>3, <2>1, LowestHighest
  <1> HIDE DEF r, n
  <1>5. n \in 1..Len(t) - j /\ r[n] = "newline"
    BY <1>2, <1>3, <1>4
  <1>6. j + n \in 1..Len(t) /\ t[j + n] = "newline"
    <2>1. r[n] = t[j + n]
      BY <1>2, <1>5
    <2>2. QED
      BY <1>1, <1>5, <2>1
  <1>7. SubSeq(r, 1, n) = SubSeq(t, j + 1, j + n)
    <2>1. n \in 0..Len(r) /\ j + n \in j..Len(t)
      BY <1>1, <1>2, <1>5
    <2>2. /\ SubSeq(r, 0 + 1, n) \in Texts /\ Len(SubSeq(r, 0 + 1, n)) = n - 0
          /\ \A k \in 1..n - 0 : SubSeq(r, 0 + 1, n)[k] = r[0 + k]
      BY <1>2, <1>3, <2>1, PieceOf
    <2>3. /\ SubSeq(t, j + 1, j + n) \in Texts /\ Len(SubSeq(t, j + 1, j + n)) = j + n - j
          /\ \A k \in 1..j + n - j : SubSeq(t, j + 1, j + n)[k] = t[j + k]
      BY <2>1, PieceOf
    <2>4. \A k \in 1..n : r[k] = t[j + k]
      BY <1>2, <1>5
    <2>5. /\ SubSeq(r, 1, n) \in Texts /\ Len(SubSeq(r, 1, n)) = n
          /\ \A k \in 1..n : SubSeq(r, 1, n)[k] = t[j + k]
      BY <1>5, <2>2, <2>4
    <2>6. /\ Len(SubSeq(t, j + 1, j + n)) = n
          /\ \A k \in 1..n : SubSeq(t, j + 1, j + n)[k] = t[j + k]
      BY <1>5, <2>3
    <2>7. QED
      BY <2>3, <2>5, <2>6, Same
  <1>8. SubSeq(r, n + 1, Len(r)) = From(t, j + n)
    <2> DEFINE m == Len(t) - j - n
    <2>1. n \in 0..Len(r) /\ Len(r) \in n..Len(r) /\ j + n \in 0..Len(t)
          /\ Len(t) \in j + n..Len(t) /\ m \in Nat /\ Len(r) - n = m /\ Len(t) - (j + n) = m
      BY <1>1, <1>2, <1>3, <1>5
    <2>2. /\ SubSeq(r, n + 1, Len(r)) \in Texts /\ Len(SubSeq(r, n + 1, Len(r))) = m
          /\ \A k \in 1..m : SubSeq(r, n + 1, Len(r))[k] = r[n + k]
      <3> HIDE DEF m
      <3>1. /\ SubSeq(r, n + 1, Len(r)) \in Texts /\ Len(SubSeq(r, n + 1, Len(r))) = Len(r) - n
            /\ \A k \in 1..Len(r) - n : SubSeq(r, n + 1, Len(r))[k] = r[n + k]
        BY <1>2, <2>1, PieceOf
      <3>2. QED
        BY <2>1, <3>1
    <2>3. /\ From(t, j + n) \in Texts /\ Len(From(t, j + n)) = m
          /\ \A k \in 1..m : From(t, j + n)[k] = t[j + n + k]
      <3> HIDE DEF m
      <3>1. /\ From(t, j + n) \in Texts /\ Len(From(t, j + n)) = Len(t) - (j + n)
            /\ \A k \in 1..Len(t) - (j + n) : From(t, j + n)[k] = t[j + n + k]
        BY <2>1, PieceOf DEF From
      <3>2. QED
        BY <2>1, <3>1
    <2>4. \A k \in 1..m : r[n + k] = t[j + n + k]
      <3> SUFFICES ASSUME NEW k \in 1..m PROVE r[n + k] = t[j + n + k]
        OBVIOUS
      <3>1. n + k \in 1..Len(t) - j /\ j + (n + k) = j + n + k
        BY <1>5, <2>1
      <3>2. QED
        BY <1>2, <3>1
    <2> HIDE DEF m
    <2>5. QED
      BY <2>2, <2>3, <2>4, Same
  <1>9. QED
    BY <1>1, <1>5, <1>6, <1>7, <1>8 DEF r, n, LineEnds

(* The end of a line at the end of a text adds white space only.           *)
LEMMA LineEnded ==
  ASSUME NEW s \in Texts
  PROVE  /\ Append(s, "newline") = s \o <<"newline">> /\ Append(s, "newline") \in Texts
         /\ TrimSpace(Append(s, "newline")) = <<>> <=> TrimSpace(s) = <<>>
  <1>1. "newline" \in Symbols /\ "newline" \in Space
    BY DEF Symbols, Space
  <1>2. /\ Append(s, "newline") \in Texts /\ Len(Append(s, "newline")) = Len(s) + 1
        /\ \A k \in 1..Len(s) : Append(s, "newline")[k] = s[k]
        /\ Append(s, "newline")[Len(s) + 1] = "newline"
    BY <1>1, AppendProperties DEF Texts
  <1>3. Append(s, "newline") = s \o <<"newline">>
    BY <1>1, AppendIsConcat DEF Texts
  <1>4. Len(s) \in Nat /\ \A k \in 1..Len(s) + 1 : k \in 1..Len(s) \/ k = Len(s) + 1
    BY LenProperties DEF Texts
  <1>5. (\A k \in 1..Len(s) + 1 : Append(s, "newline")[k] \in Space)
           <=> \A k \in 1..Len(s) : s[k] \in Space
    BY <1>1, <1>2, <1>4
  <1>6. QED
    BY <1>2, <1>3, <1>5, Trimmed

(* What a right cut says of a place it may cut at.                         *)
LEMMA RightCut ==
  ASSUME NEW t, CutsRight(t), NEW i \in Cuts(t)
  PROVE  /\ t \in Texts /\ Len(t) \in Nat /\ i \in 0..Len(t)
         /\ splitSQL(From(t, i)) \in Seq(Texts)
         /\ TrimSpace(From(t, i)) = <<>> => splitSQL(From(t, i)) = <<>>
         /\ splitSQL(Append(From(t, i), "newline")) = splitSQL(From(t, i))
         /\ \A j \in LineEnds(t) : i < j /\ Closed(SubSeq(t, i + 1, j)) =>
              /\ j \in Cuts(t) /\ splitSQL(SubSeq(t, i + 1, j)) \in Seq(Texts)
              /\ splitSQL(From(t, i)) = splitSQL(SubSeq(t, i + 1, j)) \o splitSQL(From(t, j))
  <1>1. t \in Texts
    BY DEF CutsRight
  <1>2. Len(t) \in Nat /\ DOMAIN t = 1..Len(t)
    BY <1>1, LenProperties DEF Texts
  <1>3. i \in 0..Len(t)
    <2>1. i = 0 \/ i = Len(t) \/ i \in DOMAIN t
      BY DEF Cuts, LineEnds
    <2>2. QED
      BY <1>2, <2>1
  <1>4. ASSUME NEW j \in LineEnds(t), i < j, Closed(SubSeq(t, i + 1, j)) PROVE j \in Cuts(t)
    <2>1. j \in i..Len(t)
      BY <1>2, <1>3, <1>4 DEF LineEnds
    <2>2. EndsStatement(t, j)
      BY <1>1, <1>3, <1>4, <2>1, ClosedEnds
    <2>3. QED
      BY <2>2 DEF Cuts
  <1>5. QED
    BY <1>1, <1>2, <1>3, <1>4, Zenon DEF CutsRight

(* Behind the end of the text there is nothing to run.                     *)
LEMMA NothingBehindEnd ==
  ASSUME NEW t, CutsRight(t)
  PROVE  /\ Len(t) \in Cuts(t) /\ From(t, Len(t)) = <<>> /\ splitSQL(From(t, Len(t))) = <<>>
         /\ 0 \in Cuts(t) /\ From(t, 0) = t
  <1>1. 0 \in Cuts(t) /\ Len(t) \in Cuts(t)
    BY DEF Cuts
  <1>2. t \in Texts /\ Len(t) \in Nat
    BY <1>1, RightCut
  <1>3. From(t, Len(t)) = <<>> /\ <<>> \in Texts /\ Len(<<>>) = 0
    <2>1. Len(t) + 1 \in Int /\ Len(t) \in Int /\ Len(t) < Len(t) + 1
      BY <1>2
    <2>2. QED
      BY <2>1, SubSeqEmpty, EmptySeq DEF From, Texts
  <1>4. TrimSpace(<<>>) = <<>>
    BY <1>3, Trimmed
  <1>5. From(t, 0) = t
    BY <1>2, SubSeqFull DEF From, Texts
  <1>6. QED
    BY <1>1, <1>3, <1>4, <1>5, RightCut
(* What is collected is a piece of the text that starts at a cut, and the  *)
(* statements run so far, with those of the buffer being run, are the ones *)
(* before it.  The last line may have got an end it did not have.          *)
Collected ==
    \E i \in Cuts(text) : \E j \in i..Len(text) :
       /\ rest = From(text, j)
       /\ buf = SubSeq(text, i + 1, j) \/ (j = Len(text) /\ buf = Append(From(text, i), "newline"))
       /\ errors = 0 => Performed \o splitSQL(From(text, i)) = wanted

RunningPiece ==
    \E i \in Cuts(text) :
       /\ rest = From(text, i) /\ buf = <<>>
       /\ errors = 0 => Performed \o (queue \o splitSQL(From(text, i))) = wanted

ShellTypeOK ==
    /\ wanted \in Seq(Texts) /\ queue \in Seq(Texts)
    /\ sent \in Seq([stmt : Texts, at : {"query", "exec"}])
    /\ phase \in {"start", "reading", "running", "last", "done", "stopped"}
    /\ errors \in Nat

ShellInv ==
    /\ CutsRight(text) /\ ShellTypeOK
    /\ phase \in {"start", "reading"} => Collected
    /\ phase = "running" => RunningPiece
    /\ phase = "last" => (errors = 0 => Performed \o queue = wanted)
    /\ phase = "done" => (errors = 0 => Performed = wanted)
    /\ phase = "stopped" => errors > 0
    /\ errors > 0 /\ ~interactive => phase = "stopped" /\ IsPrefix(Performed, wanted)

LEMMA PrefixOfWhole ==
  ASSUME NEW S, NEW s \in Seq(S), NEW t \in Seq(S)
  PROVE  IsPrefix(s, s \o t)
  <1>1. /\ s \o t \in Seq(S) /\ Len(s \o t) = Len(s) + Len(t)
        /\ \A k \in 1..Len(s) + Len(t) : (s \o t)[k] = IF k <= Len(s) THEN s[k] ELSE t[k - Len(s)]
    BY ConcatProperties
  <1>2. Len(s) \in Nat /\ Len(t) \in Nat
    BY LenProperties
  <1>3. SubSeq(s, 1, Len(s)) = s
    BY SubSeqFull
  <1>4. CASE s = <<>>
    BY <1>1, <1>2, <1>4 DEF IsPrefix
  <1>5. CASE s # <<>>
    <2>1. 1 \in 1..Len(s) /\ Len(s) \in 1..Len(s)
      BY <1>2, <1>5, EmptySeq
    <2>2. SubSeq(s \o t, 1, Len(s)) = SubSeq(s, 1, Len(s))
      BY <2>1, SubSeqOfConcat1
    <2>3. QED
      BY <1>1, <1>2, <2>2 DEF IsPrefix
  <1>6. QED
    BY <1>4, <1>5

LEMMA PerformedType ==
  ASSUME ShellTypeOK
  PROVE  Performed \in Seq(Texts)
  <1> DEFINE R == [stmt : Texts, at : {"query", "exec"}]
  <1>1. Len(sent) \in Nat /\ DOMAIN sent = 1..Len(sent) /\ \A n \in 1..Len(sent) : sent[n] \in R
    BY LenProperties, ElementOfSeq DEF ShellTypeOK
  <1>2. \A n \in 1..Len(sent) : sent[n].stmt \in Texts
    BY <1>1
  <1>3. Performed \in [1..Len(sent) -> Texts]
    BY <1>1, <1>2 DEF Performed
  <1>4. QED
    BY <1>1, <1>3, SeqDef

(* A statement moves from the queue to those that have run.                *)
LEMMA RunsHead ==
  ASSUME ShellTypeOK, queue # <<>>, NEW at \in Endpoints(Head(queue)), sent' = Ran(at)
  PROVE  /\ sent' \in Seq([stmt : Texts, at : {"query", "exec"}])
         /\ Tail(queue) \in Seq(Texts) /\ Performed' \in Seq(Texts)
         /\ Performed' \o Tail(queue) = Performed \o queue
  <1>1. Head(queue) \in Texts /\ Tail(queue) \in Seq(Texts) /\ <<Head(queue)>> \in Seq(Texts)
    BY HeadTailProperties DEF ShellTypeOK
  <1>2. at \in {"query", "exec"}
    BY DEF Endpoints
  <1>3. sent' = Append(sent, [stmt |-> Head(queue), at |-> at])
    BY DEF Ran
  <1>4. [stmt |-> Head(queue), at |-> at] \in [stmt : Texts, at : {"query", "exec"}]
    BY <1>1, <1>2
  <1>5. sent' \in Seq([stmt : Texts, at : {"query", "exec"}])
    BY <1>3, <1>4, AppendProperties DEF ShellTypeOK
  <1>6. Performed' = Append(Performed, Head(queue))
    BY <1>1, <1>3, <1>4 DEF ShellTypeOK, Performed
  <1>7. Performed' = Performed \o <<Head(queue)>>
    BY <1>1, <1>6, PerformedType, AppendIsConcat
  <1>8. <<Head(queue)>> \o Tail(queue) = queue
    BY <1>1 DEF ShellTypeOK
  <1>9. QED
    BY <1>1, <1>5, <1>7, <1>8, PerformedType, ConcatAssociative, ConcatProperties

LEMMA ShellStarts == ShellInit /\ SplitsBack => ShellInv
  <1> SUFFICES ASSUME ShellInit, SplitsBack PROVE ShellInv
    OBVIOUS
  <1>1. /\ rest = text /\ buf = <<>> /\ queue = <<>> /\ sent = <<>> /\ phase = "start"
        /\ errors = 0 /\ wanted = splitSQL(text) /\ CutsRight(text)
    BY DEF ShellInit, SplitsBack
  <1>2. /\ 0 \in Cuts(text) /\ From(text, 0) = text /\ Len(text) \in Nat
        /\ splitSQL(text) \in Seq(Texts)
    BY <1>1, NothingBehindEnd, RightCut
  <1>3. SubSeq(text, 0 + 1, 0) = <<>>
    BY SubSeqEmpty
  <1>4. ShellTypeOK
    BY <1>1, <1>2, EmptySeq DEF ShellTypeOK
  <1>5. Performed = <<>>
    BY <1>1 DEF Performed
  <1>6. Performed \o splitSQL(From(text, 0)) = wanted
    BY <1>1, <1>2, <1>5, ConcatEmptySeq
  <1>7. Collected
    <2>1. 0 \in 0..Len(text)
      BY <1>2
    <2>2. QED
      BY <1>1, <1>2, <1>3, <1>6, <2>1 DEF Collected
  <1>8. QED
    BY <1>1, <1>4, <1>7 DEF ShellInv

(* A line is added to the buffer, and the buffer cut if it is closed.      *)
LEMMA ReadLineKeeps ==
  ASSUME ShellInv, ReadLine
  PROVE  ShellInv'
  <1> USE DEF ShellInv
  <1>1. /\ phase \in {"start", "reading"} /\ rest # <<>> /\ CutsRight(text)
        /\ UNCHANGED <<text, wanted, interactive, sent, errors>> /\ Performed' = Performed
    BY DEF ReadLine, Performed
  <1> DEFINE At(i, j) ==
           /\ rest = From(text, j)
           /\ buf = SubSeq(text, i + 1, j) \/ (j = Len(text) /\ buf = Append(From(text, i), "newline"))
           /\ errors = 0 => Performed \o splitSQL(From(text, i)) = wanted
  <1>0. PICK i \in Cuts(text) : \E j \in i..Len(text) : At(i, j)
    BY <1>1 DEF Collected
  <1>2. PICK j \in i..Len(text) : At(i, j)
    BY <1>0
  <1>3. /\ text \in Texts /\ Len(text) \in Nat /\ i \in 0..Len(text)
        /\ splitSQL(From(text, i)) \in Seq(Texts)
        /\ splitSQL(Append(From(text, i), "newline")) = splitSQL(From(text, i))
    BY <1>1, RightCut
  <1>4. j # Len(text) /\ j \in 0..Len(text) /\ buf = SubSeq(text, i + 1, j)
    <2>1. j # Len(text)
      BY <1>1, <1>2, NothingBehindEnd
    <2>2. QED
      BY <1>2, <1>3, <2>1
  <1> DEFINE ends == {k \in DOMAIN rest : rest[k] = "newline"}
             n == IF ends = {} THEN Len(rest) ELSE Min(ends)
             line == IF ends = {} THEN rest \o <<"newline">> ELSE SubSeq(rest, 1, n)
             b == buf \o line
  <1>5. /\ rest' = SubSeq(rest, n + 1, Len(rest))
        /\ Closed(b) => phase' = "running" /\ queue' = splitSQL(b) /\ buf' = <<>>
        /\ ~Closed(b) => phase' = "reading" /\ buf' = b /\ queue' = queue
    BY DEF ReadLine, CliSplitSQL, Reset
  <1>6. CASE ends # {}
    <2>1. /\ n \in 1..Len(text) - j /\ j + n \in LineEnds(text)
          /\ line = SubSeq(text, j + 1, j + n) /\ rest' = From(text, j + n)
      BY <1>2, <1>3, <1>4, <1>5, <1>6, NextLine
    <2>2. j + n \in j..Len(text) /\ j + n \in i..Len(text) /\ i < j + n
      BY <1>2, <1>3, <2>1
    <2>3. b = SubSeq(text, i + 1, j + n)
      <3>1. b = buf \o line
        OBVIOUS
      <3> HIDE DEF ends, n, line, b
      <3>2. SubSeq(text, i + 1, j) \o SubSeq(text, j + 1, j + n) = SubSeq(text, i + 1, j + n)
        BY <1>2, <1>3, <2>2, Collecting
      <3>3. QED
        BY <1>4, <2>1, <3>1, <3>2
    <2> HIDE DEF ends, n, line, b
    <2>4. CASE Closed(b)
      <3>1. /\ j + n \in Cuts(text) /\ splitSQL(b) \in Seq(Texts)
            /\ splitSQL(From(text, i)) = splitSQL(b) \o splitSQL(From(text, j + n))
        BY <1>1, <2>1, <2>2, <2>3, <2>4, RightCut
      <3>2. phase' = "running" /\ queue' = splitSQL(b) /\ buf' = <<>>
        BY <1>5, <2>4
      <3>3. RunningPiece'
        BY <1>1, <1>2, <2>1, <3>1, <3>2 DEF RunningPiece
      <3>4. QED
        BY <1>1, <3>1, <3>2, <3>3 DEF ShellTypeOK
    <2>5. CASE ~Closed(b)
      <3>1. phase' = "reading" /\ buf' = SubSeq(text, i + 1, j + n) /\ queue' = queue
        BY <1>5, <2>3, <2>5
      <3>2. Collected'
        BY <1>1, <1>2, <2>1, <2>2, <3>1 DEF Collected
      <3>3. QED
        BY <1>1, <3>1, <3>2 DEF ShellTypeOK
    <2>6. QED
      BY <2>4, <2>5
  <1>7. CASE ends = {}
    <2>1. Len(text) \in j..Len(text) /\ Len(text) \in i..Len(text) /\ Len(text) \in Cuts(text)
      BY <1>1, <1>3, <1>4, NothingBehindEnd
    <2>2. rest \in Texts /\ buf \in Texts /\ buf \o rest = From(text, i) /\ From(text, i) \in Texts
      BY <1>2, <1>3, <1>4, <2>1, PieceOf, Collecting DEF From
    <2>3. b = Append(From(text, i), "newline")
      <3>1. <<"newline">> \in Texts
        BY DEF Texts, Symbols, Space
      <3>2. b = buf \o (rest \o <<"newline">>)
        BY <1>7
      <3> HIDE DEF ends, n, line, b
      <3>3. buf \o (rest \o <<"newline">>) = (buf \o rest) \o <<"newline">>
        BY <2>2, <3>1, Regrouped, Zenon
      <3>4. QED
        BY <2>2, <3>2, <3>3, LineEnded
    <2>4. rest' = From(text, Len(text))
      <3>1. Len(rest) \in Nat
        BY <2>2, LenProperties DEF Texts
      <3>2. rest' = SubSeq(rest, Len(rest) + 1, Len(rest))
        BY <1>5, <1>7
      <3>3. rest' = <<>>
        BY <3>1, <3>2, SubSeqEmpty
      <3>4. QED
        BY <1>1, <3>3, NothingBehindEnd
    <2>5. splitSQL(b) = splitSQL(From(text, i))
      BY <1>3, <2>3
    <2> HIDE DEF ends, n, line, b
    <2>6. CASE Closed(b)
      <3>1. splitSQL(From(text, Len(text))) = <<>>
        BY <1>1, NothingBehindEnd
      <3>2. splitSQL(b) \o splitSQL(From(text, Len(text))) = splitSQL(From(text, i))
        BY <1>3, <2>5, <3>1, ConcatEmptySeq
      <3>3. phase' = "running" /\ queue' = splitSQL(b) /\ buf' = <<>>
        BY <1>5, <2>6
      <3>4. RunningPiece'
        BY <1>1, <1>2, <2>1, <2>4, <3>2, <3>3 DEF RunningPiece
      <3>5. QED
        BY <1>1, <1>3, <2>5, <3>3, <3>4 DEF ShellTypeOK
    <2>7. CASE ~Closed(b)
      <3>1. phase' = "reading" /\ buf' = Append(From(text, i), "newline") /\ queue' = queue
        BY <1>5, <2>3, <2>7
      <3>2. Collected'
        BY <1>1, <1>2, <2>1, <2>4, <3>1 DEF Collected
      <3>3. QED
        BY <1>1, <3>1, <3>2 DEF ShellTypeOK
    <2>8. QED
      BY <2>6, <2>7
  <1>8. QED
    BY <1>6, <1>7

(* What is left at the end of the input is the last statement or blank.    *)
LEMMA EndOfInputKeeps ==
  ASSUME ShellInv, EndOfInput
  PROVE  ShellInv'
  <1> USE DEF ShellInv
  <1>1. /\ phase = "reading" /\ rest = <<>> /\ CutsRight(text)
        /\ UNCHANGED <<text, wanted, interactive, sent, errors>> /\ Performed' = Performed
    BY DEF EndOfInput, Performed
  <1> DEFINE At(i, j) ==
           /\ rest = From(text, j)
           /\ buf = SubSeq(text, i + 1, j) \/ (j = Len(text) /\ buf = Append(From(text, i), "newline"))
           /\ errors = 0 => Performed \o splitSQL(From(text, i)) = wanted
  <1>2. PICK i \in Cuts(text) : \E j \in i..Len(text) : At(i, j)
    BY <1>1 DEF Collected
  <1>3. PICK j \in i..Len(text) : At(i, j)
    BY <1>2
  <1>4. /\ text \in Texts /\ Len(text) \in Nat /\ i \in 0..Len(text)
        /\ splitSQL(From(text, i)) \in Seq(Texts)
        /\ TrimSpace(From(text, i)) = <<>> => splitSQL(From(text, i)) = <<>>
        /\ splitSQL(Append(From(text, i), "newline")) = splitSQL(From(text, i))
    BY <1>1, RightCut
  <1>5. j = Len(text)
    <2>1. j \in 0..Len(text) /\ Len(text) \in j..Len(text)
      BY <1>3, <1>4
    <2>2. Len(From(text, j)) = Len(text) - j /\ From(text, j) = <<>>
      BY <1>1, <1>3, <1>4, <2>1, PieceOf DEF From
    <2>3. QED
      BY <1>4, <2>1, <2>2, EmptySeq
  <1>6. buf = From(text, i) \/ buf = Append(From(text, i), "newline")
    BY <1>3, <1>5 DEF From
  <1>7. splitSQL(buf) = splitSQL(From(text, i))
    BY <1>4, <1>6
  <1>8. CASE TrimSpace(buf) = <<>>
    <2>1. From(text, i) \in Texts
      BY <1>3, <1>4, <1>5, PieceOf DEF From
    <2>2. splitSQL(From(text, i)) = <<>>
      BY <1>4, <1>6, <1>8, <2>1, LineEnded
    <2>3. errors = 0 => Performed = wanted
      BY <1>3, <2>2, PerformedType, ConcatEmptySeq
    <2>4. phase' = "done" /\ queue' = queue
      BY <1>8 DEF EndOfInput
    <2>5. QED
      BY <1>1, <2>3, <2>4 DEF ShellTypeOK
  <1>9. CASE TrimSpace(buf) # <<>>
    <2>1. phase' = "last" /\ queue' = splitSQL(From(text, i))
      BY <1>7, <1>9 DEF EndOfInput, CliSplitSQL
    <2>2. QED
      BY <1>1, <1>3, <1>4, <2>1 DEF ShellTypeOK
  <1>10. QED
    BY <1>8, <1>9

(* A statement that has run moves from the queue to those performed.       *)
LEMMA RunStatementKeeps ==
  ASSUME ShellInv, RunStatement
  PROVE  ShellInv'
  <1> USE DEF ShellInv
  <1>1. /\ phase \in {"running", "last"} /\ queue # <<>> /\ queue' = Tail(queue)
        /\ UNCHANGED <<text, wanted, rest, buf, phase, interactive, errors>>
    BY DEF RunStatement
  <1>2. PICK at \in Endpoints(Head(queue)) : sent' = Ran(at)
    BY DEF RunStatement
  <1>3. /\ sent' \in Seq([stmt : Texts, at : {"query", "exec"}])
        /\ Tail(queue) \in Seq(Texts) /\ Performed' \in Seq(Texts) /\ Performed \in Seq(Texts)
        /\ Performed' \o Tail(queue) = Performed \o queue
    BY <1>1, <1>2, RunsHead, PerformedType
  <1>4. phase = "running" => RunningPiece'
    <2> SUFFICES ASSUME phase = "running" PROVE RunningPiece'
      OBVIOUS
    <2>1. PICK i \in Cuts(text) :
             /\ rest = From(text, i) /\ buf = <<>>
             /\ errors = 0 => Performed \o (queue \o splitSQL(From(text, i))) = wanted
      BY DEF RunningPiece
    <2>2. splitSQL(From(text, i)) \in Seq(Texts) /\ queue \in Seq(Texts)
      BY RightCut DEF ShellTypeOK
    <2>3. Performed' \o (Tail(queue) \o splitSQL(From(text, i)))
             = Performed \o (queue \o splitSQL(From(text, i)))
      <3>1. Performed' \o (Tail(queue) \o splitSQL(From(text, i)))
               = (Performed' \o Tail(queue)) \o splitSQL(From(text, i))
        BY <1>3, <2>2, Regrouped, Zenon
      <3>2. Performed \o (queue \o splitSQL(From(text, i)))
               = (Performed \o queue) \o splitSQL(From(text, i))
        BY <1>3, <2>2, Regrouped, Zenon
      <3>3. QED
        BY <1>3, <3>1, <3>2
    <2>4. QED
      BY <1>1, <2>1, <2>3 DEF RunningPiece
  <1>5. QED
    BY <1>1, <1>3, <1>4 DEF ShellTypeOK

(* What has run when a statement fails is the beginning of what is wanted. *)
LEMMA StatementFailsKeeps ==
  ASSUME ShellInv, StatementFails
  PROVE  ShellInv'
  <1> USE DEF ShellInv
  <1>1. /\ phase \in {"running", "last"} /\ queue # <<>> /\ queue' = <<>> /\ errors' = errors + 1
        /\ phase' = (IF interactive /\ phase = "running" THEN "reading" ELSE "stopped")
        /\ UNCHANGED <<text, wanted, rest, buf, interactive>>
        /\ sent' = sent \/ \E at \in Endpoints(Head(queue)) : sent' = Ran(at)
    BY DEF StatementFails
  <1>2. sent' \in Seq([stmt : Texts, at : {"query", "exec"}]) /\ Performed' \in Seq(Texts)
    BY <1>1, RunsHead, PerformedType DEF ShellTypeOK, Performed
  <1>3. \E left \in Seq(Texts) : Performed' \o left = Performed \o queue
    <2>1. CASE sent' = sent
      BY <2>1 DEF Performed, ShellTypeOK
    <2>2. CASE sent' # sent
      BY <1>1, <2>2, RunsHead
    <2>3. QED
      BY <2>1, <2>2
  <1>4. ShellTypeOK'
    BY <1>1, <1>2 DEF ShellTypeOK
  <1>5. ~interactive => IsPrefix(Performed', wanted)
    <2> SUFFICES ASSUME ~interactive PROVE IsPrefix(Performed', wanted)
      OBVIOUS
    <2>1. errors = 0
      BY <1>1 DEF ShellTypeOK
    <2>2. \E behind \in Seq(Texts) : Performed \o (queue \o behind) = wanted
      <3>1. CASE phase = "running"
        BY <2>1, <3>1, RightCut DEF RunningPiece
      <3>2. CASE phase = "last"
        BY <2>1, <3>2, ConcatEmptySeq, EmptySeq DEF ShellTypeOK
      <3>3. QED
        BY <1>1, <3>1, <3>2
    <2>3. PICK left \in Seq(Texts) : Performed' \o left = Performed \o queue
      BY <1>3
    <2>4. PICK behind \in Seq(Texts) : Performed \o (queue \o behind) = wanted
      BY <2>2
    <2>5. Performed' \o (left \o behind) = wanted /\ left \o behind \in Seq(Texts)
      <3>1. queue \in Seq(Texts) /\ Performed \in Seq(Texts)
        BY PerformedType DEF ShellTypeOK
      <3>2. Performed' \o (left \o behind) = (Performed' \o left) \o behind
        BY <1>2, Regrouped, Zenon
      <3>3. Performed \o (queue \o behind) = (Performed \o queue) \o behind
        BY <3>1, Regrouped, Zenon
      <3>4. left \o behind \in Seq(Texts)
        BY ConcatProperties
      <3>5. QED
        BY <2>3, <2>4, <3>2, <3>3, <3>4
    <2>6. QED
      BY <1>2, <2>5, PrefixOfWhole
  <1>6. errors' > 0
    BY <1>1 DEF ShellTypeOK
  <1>7. phase' = "reading" => Collected'
    <2> SUFFICES ASSUME phase' = "reading" PROVE Collected'
      OBVIOUS
    <2>1. phase = "running"
      BY <1>1
    <2>2. PICK i \in Cuts(text) : rest = From(text, i) /\ buf = <<>>
      BY <2>1 DEF RunningPiece
    <2>3. i \in i..Len(text) /\ SubSeq(text, i + 1, i) = <<>>
      <3>1. i \in 0..Len(text) /\ Len(text) \in Nat
        BY RightCut
      <3>2. QED
        BY <3>1, SubSeqEmpty
    <2>4. QED
      BY <1>1, <1>6, <2>2, <2>3 DEF Collected
  <1>8. QED
    BY <1>1, <1>4, <1>5, <1>6, <1>7

(* A buffer that is done leaves its piece behind.                          *)
LEMMA BufferDoneKeeps ==
  ASSUME ShellInv, BufferDone
  PROVE  ShellInv'
  <1> USE DEF ShellInv
  <1>1. /\ phase \in {"running", "last"} /\ queue = <<>>
        /\ phase' = (IF phase = "running" THEN "reading" ELSE "done")
        /\ UNCHANGED <<text, wanted, rest, buf, queue, interactive, sent, errors>>
        /\ Performed' = Performed
    BY DEF BufferDone, Performed
  <1>2. CASE phase = "running"
    <2>1. PICK i \in Cuts(text) :
             /\ rest = From(text, i) /\ buf = <<>>
             /\ errors = 0 => Performed \o (queue \o splitSQL(From(text, i))) = wanted
      BY <1>2 DEF RunningPiece
    <2>2. /\ i \in 0..Len(text) /\ Len(text) \in Nat
          /\ splitSQL(From(text, i)) \in Seq(Texts)
      BY RightCut
    <2>3. i \in i..Len(text) /\ SubSeq(text, i + 1, i) = <<>>
      BY <2>2, SubSeqEmpty
    <2>4. queue \o splitSQL(From(text, i)) = splitSQL(From(text, i))
      BY <1>1, <2>2, ConcatEmptySeq
    <2>5. Collected'
      BY <1>1, <2>1, <2>3, <2>4 DEF Collected
    <2>6. QED
      BY <1>1, <1>2, <2>5 DEF ShellTypeOK
  <1>3. CASE phase = "last"
    <2>1. errors = 0 => Performed = wanted
      BY <1>1, <1>3, PerformedType, ConcatEmptySeq
    <2>2. QED
      BY <1>1, <1>3, <2>1 DEF ShellTypeOK
  <1>4. QED
    BY <1>1, <1>2, <1>3

(* The shell (sql.go:50) runs each statement of its input in order,        *)
(* none twice and none in part, up to the first failure: for any number of *)
(* statements made of any self-contained pieces, any failures, a person or *)
(* a pipe.                                                                 *)
THEOREM ShellRunsInOrder ==
  ASSUME \A p \in Pieces : SelfContained(p)
  PROVE  ShellSpec => []ShellRuns
  <1>1. ShellInit => ShellInv
    BY ShellStarts, InputSplits
  <1>2. ShellInv /\ [ShellNext]_shellVars => ShellInv'
    <2>1. ASSUME ShellInv, UNCHANGED shellVars PROVE ShellInv'
      BY <2>1 DEF ShellInv, shellVars, Collected, RunningPiece, ShellTypeOK, Performed
    <2>2. QED
      BY <2>1, ReadLineKeeps, EndOfInputKeeps, RunStatementKeeps, StatementFailsKeeps,
         BufferDoneKeeps DEF ShellNext
  <1>3. ShellInv => ShellRuns
    <2> SUFFICES ASSUME ShellInv PROVE ShellRuns
      OBVIOUS
    <2> USE DEF ShellInv
    <2>1. ShellTypeOK /\ Performed \in Seq(Texts)
      BY PerformedType
    <2>2. ASSUME errors = 0 PROVE \E left \in Seq(Texts) : Performed \o left = wanted
      <3>1. CASE phase \in {"start", "reading"}
        BY <2>2, <3>1, RightCut DEF Collected
      <3>2. CASE phase = "running"
        <4>1. PICK i \in Cuts(text) : Performed \o (queue \o splitSQL(From(text, i))) = wanted
          BY <2>2, <3>2 DEF RunningPiece
        <4>2. queue \o splitSQL(From(text, i)) \in Seq(Texts)
          BY <2>1, RightCut, ConcatProperties DEF ShellTypeOK
        <4>3. QED
          BY <4>1, <4>2
      <3>3. CASE phase = "last"
        BY <2>1, <2>2, <3>3 DEF ShellTypeOK
      <3>4. CASE phase = "done"
        <4>1. <<>> \in Seq(Texts) /\ Performed \o <<>> = Performed
          BY <2>1, ConcatEmptySeq, EmptySeq
        <4>2. Performed = wanted
          BY <2>2, <3>4
        <4>3. QED
          BY <4>1, <4>2, Zenon
      <3>5. phase \in {"start", "reading"} \/ phase \in {"running", "last", "done"}
        <4>1. ~(errors > 0)
          BY <2>2
        <4>2. QED
          BY <2>1, <4>1 DEF ShellTypeOK
      <3>6. QED
        BY <3>1, <3>2, <3>3, <3>4, <3>5
    <2>3. errors = 0 => IsPrefix(Performed, wanted)
      BY <2>1, <2>2, PrefixOfWhole
    <2>4. errors = 0 \/ errors > 0
      BY <2>1 DEF ShellTypeOK
    <2>5. QED
      BY <2>3, <2>4 DEF ShellRuns
  <1>4. QED
    BY <1>1, <1>2, <1>3, PTL DEF ShellSpec
=============================================================================
