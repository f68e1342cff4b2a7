---------------------------- MODULE OperatorProofs ----------------------------
(***************************************************************************)
(* What the operators return that the models are built from, for all       *)
(* arguments: training ranks every token once, the remapping of freq loses *)
(* nothing, and a text that is accepted is one that was written for its    *)
(* list.  The general lemmas come first.                                   *)
(***************************************************************************)
EXTENDS TokenValue, FiniteSetTheorems, TLAPS

\* Every set of naturals has a least one.
LEMMA Least ==
  ASSUME NEW T, T \subseteq Nat, T # {}
  PROVE  \E m \in T : \A n \in T : m <= n
<1>1. PICK m \in T : \A n \in T : <<n, m>> \notin OpToRel(<, Nat)
  BY NatLessThanWellFounded, WFMin
<1>2. \A n \in T : ~(n < m)
  BY <1>1 DEF OpToRel
<1> QED
  BY <1>2

\* Induction, over the set of the numbers that have the property.
LEMMA NatSetInduction ==
  ASSUME NEW S, 0 \in S, \A n \in Nat : n \in S => n + 1 \in S
  PROVE  Nat \subseteq S
<1> SUFFICES ASSUME Nat \ S # {} PROVE FALSE
  OBVIOUS
<1>1. PICK m \in Nat \ S : \A n \in Nat \ S : m <= n
  BY Least
<1>2. m # 0
  OBVIOUS
<1>3. m - 1 \in Nat /\ m - 1 \in S
  BY <1>1, <1>2
<1> QED
  BY <1>3

\* In a finite set with a strict total order, given by what lies below each element, the
\* number of elements below counts the places from 0 on, one element at each.
LEMMA Places ==
  ASSUME NEW S, IsFiniteSet(S), NEW below \in [S -> SUBSET S],
         \A x \in S : x \notin below[x],
         \A x, y \in S : x # y => x \in below[y] \/ y \in below[x],
         \A x, y, z \in S : x \in below[y] /\ y \in below[z] => x \in below[z]
  PROVE  /\ Cardinality(S) \in Nat
         /\ \A x \in S : Cardinality(below[x]) \in 0..Cardinality(S) - 1
         /\ \A x, y \in S : x \in below[y] <=> Cardinality(below[x]) < Cardinality(below[y])
         /\ \A x, y \in S : Cardinality(below[x]) = Cardinality(below[y]) => x = y
         /\ \A r \in 0..Cardinality(S) - 1 : \E x \in S : Cardinality(below[x]) = r
<1> DEFINE n == Cardinality(S)
           place == [x \in S |-> Cardinality(below[x])]
<1>1. n \in Nat
  BY FS_CardinalityType
<1>2. \A x \in S : IsFiniteSet(below[x]) /\ Cardinality(below[x]) \in Nat
  BY FS_Subset, FS_CardinalityType
<1>3. ASSUME NEW x \in S
      PROVE  Cardinality(below[x]) \in 0..n - 1
  <2>1. below[x] \in SUBSET (S \ {x})
    OBVIOUS
  <2>2. IsFiniteSet(S \ {x}) /\ Cardinality(S \ {x}) = n - 1
    BY FS_RemoveElement
  <2>3. Cardinality(below[x]) <= n - 1
    BY <2>1, <2>2, FS_Subset
  <2> QED
    BY <1>1, <1>2, <2>3
<1>4. ASSUME NEW x \in S, NEW y \in S, x \in below[y]
      PROVE  Cardinality(below[x]) < Cardinality(below[y])
  <2>1. below[x] \in SUBSET (below[y] \ {x})
    BY <1>4
  <2>2. IsFiniteSet(below[y] \ {x}) /\ Cardinality(below[y] \ {x}) = Cardinality(below[y]) - 1
    BY <1>2, <1>4, FS_RemoveElement
  <2>3. Cardinality(below[x]) <= Cardinality(below[y]) - 1
    BY <2>1, <2>2, FS_Subset
  <2> QED
    BY <1>2, <2>3
<1>5. \A x, y \in S : Cardinality(below[x]) = Cardinality(below[y]) => x = y
  BY <1>2, <1>4
<1>6. \A x, y \in S : x \in below[y] <=> Cardinality(below[x]) < Cardinality(below[y])
  BY <1>2, <1>4
<1>7. IsFiniteSet(0..n - 1) /\ Cardinality(0..n - 1) = n
  BY <1>1, FS_Interval
<1>8. place \in Injection(S, 0..n - 1)
  BY <1>3, <1>5 DEF Injection, IsInjective
<1>9. place \in Surjection(S, 0..n - 1)
  <2> HIDE DEF place
  <2> QED
    BY <1>7, <1>8, FS_Injection
<1>10. \A r \in 0..n - 1 : \E x \in S : Cardinality(below[x]) = r
  BY <1>9 DEF Surjection
<1> QED
  BY <1>1, <1>3, <1>5, <1>6, <1>10

-----------------------------------------------------------------------------
(* Training.                                                                *)

\* What train ranks before x.
AheadOf(ids) == [x \in Range(ids) |-> {y \in Range(ids) : Before(ids, y, x)}]

\* The seen tokens are finitely many and train orders them totally.
LEMMA SeenTokensOrdered ==
  ASSUME NEW ids \in Seq(Nat)
  PROVE  /\ IsFiniteSet(Range(ids))
         /\ AheadOf(ids) \in [Range(ids) -> SUBSET Range(ids)]
         /\ \A x \in Range(ids) : x \notin AheadOf(ids)[x]
         /\ \A x, y \in Range(ids) : x # y => x \in AheadOf(ids)[y] \/ y \in AheadOf(ids)[x]
         /\ \A x, y, z \in Range(ids) :
              x \in AheadOf(ids)[y] /\ y \in AheadOf(ids)[z] => x \in AheadOf(ids)[z]
<1>1. Len(ids) \in Nat /\ DOMAIN ids = 1..Len(ids) /\ IsFiniteSet(1..Len(ids))
  BY FS_Interval
<1>2. ids \in Surjection(1..Len(ids), Range(ids))
  BY <1>1 DEF Range, Surjection
<1>3. IsFiniteSet(Range(ids))
  BY <1>1, <1>2, FS_Surjection
<1>4. ASSUME NEW x
      PROVE  Occurrences(ids, x) \in Nat
  BY <1>1, FS_Subset, FS_CardinalityType DEF Occurrences
<1>5. Range(ids) \subseteq Nat
  BY <1>1 DEF Range
<1>6. AheadOf(ids) \in [Range(ids) -> SUBSET Range(ids)]
  BY DEF AheadOf
<1>7. \A x, y \in Range(ids) : x \in AheadOf(ids)[y] <=> Before(ids, x, y)
  BY DEF AheadOf
<1>8. \A x \in Range(ids) : ~Before(ids, x, x)
  BY <1>4, <1>5 DEF Before
<1>9. \A x, y \in Range(ids) : x # y => Before(ids, x, y) \/ Before(ids, y, x)
  BY <1>4, <1>5 DEF Before
<1>10. \A x, y, z \in Range(ids) : Before(ids, x, y) /\ Before(ids, y, z) => Before(ids, x, z)
  BY <1>4, <1>5 DEF Before
<1> QED
  BY <1>3, <1>6, <1>7, <1>8, <1>9, <1>10

\* tables.rs train: the table holds the most frequent tokens of the corpus, each once, the
\* more frequent (of equally frequent ones the smaller) at the lower rank; a seen token is
\* left out only if the table is as long as the cap.
THEOREM TrainTableSorted ==
  ASSUME NEW ids \in Seq(Nat), NEW cap \in Nat
  PROVE  LET table == TrainTable(ids, cap) IN
         /\ table \in Seq(Range(ids))
         /\ K(table) <= cap /\ K(table) <= Cardinality(Range(ids))
         /\ \A i, j \in 1..K(table) : i < j <=> Before(ids, table[i], table[j])
         /\ \A i, j \in 1..K(table) : table[i] = table[j] => i = j
         /\ \A x \in Range(ids) \ Ranked(table) :
              K(table) = cap /\ \A i \in 1..K(table) : Before(ids, table[i], x)
<1> DEFINE seen == Range(ids)
           below == AheadOf(ids)
           table == TrainTable(ids, cap)
           n == Cardinality(seen)
           size == IF cap < n THEN cap ELSE n
<1>1. /\ IsFiniteSet(seen) /\ below \in [seen -> SUBSET seen]
      /\ \A x, y \in seen : x # y => x \in below[y] \/ y \in below[x]
  BY SeenTokensOrdered
<1>2. /\ n \in Nat
      /\ \A x \in seen : Cardinality(below[x]) \in 0..n - 1
      /\ \A x, y \in seen : x \in below[y] <=> Cardinality(below[x]) < Cardinality(below[y])
      /\ \A x, y \in seen : Cardinality(below[x]) = Cardinality(below[y]) => x = y
      /\ \A r \in 0..n - 1 : \E x \in seen : Cardinality(below[x]) = r
  <2> HIDE DEF seen, below
  <2> QED
    BY SeenTokensOrdered, Places DEF seen, below
<1>3. size \in Nat /\ size <= n /\ size <= cap
  BY <1>2
<1>4. table = [r \in 1..size |-> CHOOSE x \in seen :
                                   Cardinality({y \in seen : Before(ids, y, x)}) = r - 1]
  BY DEF TrainTable
<1>5. ASSUME NEW r \in 1..size
      PROVE  table[r] \in seen /\ Cardinality(below[table[r]]) = r - 1
  <2>1. r \in Nat /\ r - 1 \in 0..n - 1
    BY <1>2, <1>3
  <2>2. \A x \in seen : below[x] = {y \in seen : Before(ids, y, x)}
    BY DEF AheadOf
  <2>3. PICK z \in seen : Cardinality({y \in seen : Before(ids, y, z)}) = r - 1
    BY <1>2, <2>1, <2>2
  <2>4. table[r] = CHOOSE x \in seen : Cardinality({y \in seen : Before(ids, y, x)}) = r - 1
    BY <1>4
  <2> HIDE DEF table, seen, below
  <2>5. table[r] \in seen /\ Cardinality({y \in seen : Before(ids, y, table[r])}) = r - 1
    BY <2>3, <2>4
  <2> QED
    BY <2>2, <2>5
<1>6. table \in [1..size -> seen]
  BY <1>4, <1>5
<1>7. table \in Seq(seen) /\ K(table) = size
  <2> HIDE DEF table, seen, size
  <2> QED
    BY <1>3, <1>6 DEF K
<1>8. \A x, y \in seen : x \in below[y] <=> Before(ids, x, y)
  BY DEF AheadOf
<1> HIDE DEF table, size, below, seen, n
<1>9. ASSUME NEW i \in 1..size, NEW j \in 1..size
      PROVE  /\ i < j <=> Before(ids, table[i], table[j])
             /\ table[i] = table[j] => i = j
  <2>1. i \in Nat /\ j \in Nat
    BY <1>3
  <2>2. /\ table[i] \in seen /\ Cardinality(below[table[i]]) = i - 1
        /\ table[j] \in seen /\ Cardinality(below[table[j]]) = j - 1
    BY <1>5
  <2>3. Before(ids, table[i], table[j]) <=> i - 1 < j - 1
    BY <1>2, <1>8, <2>2
  <2> QED
    BY <2>1, <2>2, <2>3
<1>10. ASSUME NEW x \in seen, NEW i \in 1..size, Cardinality(below[x]) >= size
       PROVE  Before(ids, table[i], x)
  <2>1. table[i] \in seen /\ Cardinality(below[table[i]]) = i - 1
    BY <1>5
  <2>2. i - 1 < Cardinality(below[x])
    BY <1>2, <1>3, <1>10
  <2> QED
    BY <1>2, <1>8, <2>1, <2>2
<1>11. ASSUME NEW x \in seen, x \notin Ranked(table)
       PROVE  size = cap /\ \A i \in 1..size : Before(ids, table[i], x)
  <2> DEFINE r == Cardinality(below[x])
  <2>1. r \in 0..n - 1
    BY <1>2
  <2>2. r >= size
    <3> SUFFICES ASSUME r < size PROVE FALSE
      BY <2>1, <1>3
    <3>1. r + 1 \in 1..size
      BY <2>1, <1>3
    <3>2. table[r + 1] = x
      BY <1>2, <1>5, <2>1, <3>1
    <3> QED
      BY <1>7, <1>11, <3>1, <3>2 DEF Ranked
  <2>3. size = cap
    BY <1>2, <1>3, <2>1, <2>2 DEF size
  <2>4. ASSUME NEW i \in 1..size
        PROVE  Before(ids, table[i], x)
    BY <1>10, <2>2
  <2> QED
    BY <2>3, <2>4
<1>12. /\ table \in Seq(seen)
       /\ K(table) <= cap /\ K(table) <= n
       /\ \A i, j \in 1..K(table) : i < j <=> Before(ids, table[i], table[j])
       /\ \A i, j \in 1..K(table) : table[i] = table[j] => i = j
       /\ \A x \in seen \ Ranked(table) :
            K(table) = cap /\ \A i \in 1..K(table) : Before(ids, table[i], x)
  BY <1>3, <1>7, <1>9, <1>10, <1>11
<1> QED
  BY <1>12 DEF table, seen, n

\* lib.rs:153-166: a corpus of ids that came from int4 trains a ranking that from_bytes
\* accepts, with no more ranks than there are such ids.
THEOREM TrainTableIsTable ==
  ASSUME NEW top \in Nat, top < MaxU32, NEW ids \in Seq(0..top), NEW cap \in Nat
  PROVE  IsTable(TrainTable(ids, cap)) /\ K(TrainTable(ids, cap)) <= top + 1
<1> DEFINE table == TrainTable(ids, cap)
<1>1. ids \in Seq(Nat)
  OBVIOUS
<1>2. Range(ids) \in SUBSET (0..top)
  BY DEF Range
<1>3. IsFiniteSet(0..top) /\ Cardinality(0..top) = top + 1
  BY FS_Interval
<1>4. Cardinality(Range(ids)) <= top + 1
  BY <1>2, <1>3, FS_Subset
<1>5. Cardinality(Range(ids)) \in Nat
  BY <1>2, <1>3, FS_Subset, FS_CardinalityType
<1>6. /\ table \in Seq(Range(ids))
      /\ K(table) <= Cardinality(Range(ids))
      /\ \A i, j \in 1..K(table) : table[i] = table[j] => i = j
  BY <1>1, TrainTableSorted
<1> HIDE DEF table
<1>7. K(table) \in Nat
  BY <1>6 DEF K
<1>8. K(table) <= top + 1
  BY <1>4, <1>5, <1>6, <1>7
<1>9. table \in Seq(U32) /\ K(table) \in U32
  BY <1>2, <1>6, <1>7, <1>8, MaxU32Assumption DEF U32
<1> QED
  BY <1>6, <1>8, <1>9 DEF IsTable, table

-----------------------------------------------------------------------------
(* Ranks.                                                                   *)

\* The rank of a ranked token is below k and leads back to it; no token has two.
LEMMA RankOfRanked ==
  ASSUME NEW table, IsTable(table), NEW id \in Ranked(table)
  PROVE  /\ Rank(table, id) \in 0..(K(table) - 1)
         /\ table[Rank(table, id) + 1] = id
         /\ \A i \in 1..K(table) : table[i] = id => Rank(table, id) = i - 1
<1>1. K(table) \in Nat
  BY DEF IsTable, K
<1>2. PICK i \in 1..K(table) : table[i] = id
  BY DEF Ranked
<1> DEFINE place == CHOOSE j \in 1..K(table) : table[j] = id
<1>3. place \in 1..K(table) /\ table[place] = id
  BY <1>2
<1>4. Rank(table, id) = place - 1
  BY DEF Rank
<1>5. \A j \in 1..K(table) : table[j] = id => j = place
  BY <1>3 DEF IsTable
<1> HIDE DEF place
<1> QED
  BY <1>1, <1>3, <1>4, <1>5

\* tables.rs:24-26: ranks below k are only ever produced for ranked tokens, and ranks from k
\* on only for the others.
THEOREM RankSeparates ==
  ASSUME NEW table, IsTable(table), NEW id \in U32
  PROVE  Rank(table, id) < K(table) <=> id \in Ranked(table)
<1>1. K(table) \in Nat /\ id \in Nat
  BY MaxU32Assumption DEF IsTable, K, U32
<1>2. CASE id \in Ranked(table)
  BY <1>1, <1>2, RankOfRanked
<1>3. CASE id \notin Ranked(table)
  <2>1. Rank(table, id) = id + K(table)
    BY <1>3 DEF Rank
  <2> QED
    BY <1>1, <1>3, <2>1
<1> QED
  BY <1>2, <1>3

\* tables.rs:24-26, "lossless for every ID": an id that rank does not refuse becomes a u32
\* that token turns back into it.
THEOREM RankRoundTrip ==
  ASSUME NEW table, IsTable(table), NEW id \in U32, RankFits(table, id)
  PROVE  Rank(table, id) \in U32 /\ Token(table, Rank(table, id)) = id
<1>1. K(table) \in Nat /\ K(table) <= MaxU32 /\ id \in Nat /\ MaxU32 \in Nat
  BY MaxU32Assumption DEF IsTable, K, U32
<1>2. CASE id \in Ranked(table)
  <2>1. Rank(table, id) \in 0..(K(table) - 1) /\ table[Rank(table, id) + 1] = id
    BY <1>2, RankOfRanked
  <2>2. Rank(table, id) < K(table)
    BY <1>1, <2>1
  <2> QED
    BY <1>1, <2>1, <2>2 DEF Token, U32
<1>3. CASE id \notin Ranked(table)
  <2>1. Rank(table, id) = id + K(table)
    BY <1>3 DEF Rank
  <2>2. id + K(table) <= MaxU32
    BY <1>3 DEF RankFits
  <2>3. Token(table, id + K(table)) = id
    BY <1>1 DEF Token
  <2> QED
    BY <1>1, <2>1, <2>2, <2>3 DEF U32
<1> QED
  BY <1>2, <1>3

\* tables.rs:302-303, the reason a duplicate is refused: no two ids share an integer.
THEOREM RankInjective ==
  ASSUME NEW table, IsTable(table), NEW x \in U32, NEW y \in U32,
         RankFits(table, x), RankFits(table, y), Rank(table, x) = Rank(table, y)
  PROVE  x = y
BY RankRoundTrip

\* The other direction, which fails for an id shifted although it is ranked: an integer is
\* what rank makes of its token unless that token has a rank and the integer is not it.
THEOREM TokenRoundTrip ==
  ASSUME NEW table, IsTable(table), NEW rank \in U32,
         rank >= K(table) => rank - K(table) \notin Ranked(table)
  PROVE  Token(table, rank) \in U32 /\ Rank(table, Token(table, rank)) = rank
<1>1. K(table) \in Nat /\ rank \in Nat /\ MaxU32 \in Nat /\ rank <= MaxU32
  BY MaxU32Assumption DEF IsTable, K, U32
<1>2. CASE rank < K(table)
  <2>1. rank + 1 \in 1..K(table) /\ Token(table, rank) = table[rank + 1]
    BY <1>1, <1>2 DEF Token
  <2>2. table[rank + 1] \in Ranked(table)
    BY <2>1 DEF Ranked
  <2>3. table[rank + 1] \in U32
    BY <2>1 DEF IsTable, K
  <2>4. Rank(table, table[rank + 1]) = (rank + 1) - 1
    BY <2>1, <2>2, RankOfRanked
  <2> QED
    BY <1>1, <2>1, <2>3, <2>4
<1>3. CASE rank >= K(table)
  <2>1. Token(table, rank) = rank - K(table)
    BY <1>1, <1>3 DEF Token
  <2>2. Rank(table, rank - K(table)) = (rank - K(table)) + K(table)
    BY <1>3 DEF Rank
  <2> QED
    BY <1>1, <1>3, <2>1, <2>2 DEF U32
<1> QED
  BY <1>1, <1>2, <1>3

-----------------------------------------------------------------------------
(* Joining sequences.                                                        *)

\* Sequences with the same elements are the same.
LEMMA SeqSame ==
  ASSUME NEW S, NEW s \in Seq(S), NEW u \in Seq(S), Len(s) = Len(u),
         \A i \in 1..Len(s) : s[i] = u[i]
  PROVE  s = u
OBVIOUS

\* One after the other.
LEMMA CatIs ==
  ASSUME NEW S, NEW x \in Seq(S), NEW y \in Seq(S)
  PROVE  /\ x \o y \in Seq(S) /\ Len(x \o y) = Len(x) + Len(y)
         /\ Len(x) \in Nat /\ Len(y) \in Nat
         /\ \A i \in 1..Len(x) : (x \o y)[i] = x[i] /\ x[i] \in S
         /\ \A i \in 1..Len(y) : (x \o y)[Len(x) + i] = y[i] /\ y[i] \in S
OBVIOUS

\* The function FlattenSeq builds: its i-th value joins the first i pieces.
Joins(s, g) == g = [i \in 1..Len(s) |-> IF i = 1 THEN s[i] ELSE g[i-1] \o s[i]]

\* There is one for every sequence of pieces.
LEMMA JoinsExist ==
  ASSUME NEW s, Len(s) \in Nat
  PROVE  \E g : Joins(s, g)
<1> DEFINE Part(n, g) == g = [i \in 1..n |-> IF i = 1 THEN s[i] ELSE g[i-1] \o s[i]]
           P == {n \in Nat : \E g : Part(n, g)}
<1>1. 0 \in P
  <2>1. Part(0, [i \in {} |-> 0])
    OBVIOUS
  <2> QED
    BY <2>1
<1>2. ASSUME NEW n \in Nat, n \in P
      PROVE  n + 1 \in P
  <2>1. PICK g : Part(n, g)
    BY <1>2
  <2> DEFINE h == [i \in 1..n + 1 |->
                     IF i \in 1..n THEN g[i] ELSE IF i = 1 THEN s[i] ELSE g[i-1] \o s[i]]
  <2>2. h = [i \in 1..n + 1 |-> IF i = 1 THEN s[i] ELSE h[i-1] \o s[i]]
    <3> SUFFICES ASSUME NEW i \in 1..n + 1
                 PROVE  h[i] = IF i = 1 THEN s[i] ELSE h[i-1] \o s[i]
      OBVIOUS
    <3>1. i # 1 => i - 1 \in 1..n /\ h[i-1] = g[i-1]
      OBVIOUS
    <3>2. CASE i \in 1..n
      <4>1. g[i] = IF i = 1 THEN s[i] ELSE g[i-1] \o s[i]
        BY <2>1, <3>2
      <4> QED
        BY <3>1, <3>2, <4>1
    <3>3. CASE i \notin 1..n
      BY <3>1, <3>3
    <3> QED
      BY <3>2, <3>3
  <2> HIDE DEF h
  <2>3. Part(n + 1, h)
    BY <2>2
  <2>4. n + 1 \in Nat
    BY <1>2
  <2> HIDE DEF Part
  <2> QED
    BY <2>3, <2>4
<1> HIDE DEF P
<1>3. Len(s) \in P
  BY <1>1, <1>2, NatSetInduction
<1> QED
  BY <1>3 DEF P, Joins

\* FlattenSeq is its last value.
LEMMA FlattenIs ==
  ASSUME NEW s, Len(s) \in Nat, Len(s) # 0
  PROVE  \E g : Joins(s, g) /\ FlattenSeq(s) = g[Len(s)]
<1> DEFINE g == CHOOSE f : Joins(s, f)
<1>1. Joins(s, g)
  BY JoinsExist
<1>2. FlattenSeq(s) = g[Len(s)]
  BY DEF FlattenSeq, Joins
<1> QED
  BY <1>1, <1>2

\* The first n pieces, joined.
Joined(s, n) == FlattenSeq(SubSeq(s, 1, n))

LEMMA JoinedNone == \A s : Joined(s, 0) = <<>>
BY DEF Joined, FlattenSeq

LEMMA JoinedAll ==
  ASSUME NEW S, NEW s \in Seq(S)
  PROVE  Joined(s, Len(s)) = FlattenSeq(s)
<1>1. SubSeq(s, 1, Len(s)) = s
  OBVIOUS
<1> QED
  BY <1>1 DEF Joined

LEMMA JoinsFirst ==
  ASSUME NEW s, NEW g, Joins(s, g), Len(s) \in Nat, Len(s) # 0
  PROVE  g[1] = s[1]
<1>1. 1 \in 1..Len(s)
  OBVIOUS
<1> QED
  BY <1>1 DEF Joins

LEMMA JoinsNext ==
  ASSUME NEW s, NEW g, Joins(s, g), Len(s) \in Nat, NEW k \in Nat, k # 0, k < Len(s)
  PROVE  g[k + 1] = g[k] \o s[k + 1]
<1>1. k + 1 \in 1..Len(s) /\ k + 1 # 1 /\ (k + 1) - 1 = k
  OBVIOUS
<1>2. g[k + 1] = g[(k + 1) - 1] \o s[k + 1]
  BY <1>1 DEF Joins
<1> QED
  BY <1>1, <1>2

\* The functions that join a sequence and a front of it agree on the front.
IsFront(t, s) ==
  /\ Len(s) \in Nat /\ Len(t) \in Nat /\ Len(t) <= Len(s)
  /\ \A i \in 1..Len(t) : t[i] = s[i]

LEMMA JoinsAgree ==
  ASSUME NEW s, NEW t, IsFront(t, s), NEW g, NEW h, Joins(s, g), Joins(t, h)
  PROVE  \A i \in 1..Len(t) : h[i] = g[i]
<1> USE DEF IsFront
<1> DEFINE n == Len(t)
<1> DEFINE P == {k \in Nat : k # 0 /\ k <= n => h[k] = g[k]}
<1>1. 0 \in P
  OBVIOUS
<1>2. ASSUME NEW k \in Nat, k \in P
      PROVE  k + 1 \in P
  <2> SUFFICES ASSUME k + 1 <= n PROVE h[k + 1] = g[k + 1]
    OBVIOUS
  <2>1. CASE k = 0
    <3>1. h[1] = t[1] /\ g[1] = s[1]
      BY <2>1, JoinsFirst
    <3> QED
      BY <2>1, <3>1
  <2>2. CASE k # 0
    <3>1. h[k] = g[k]
      BY <1>2, <2>2
    <3>0. k < Len(t) /\ k < Len(s)
      OBVIOUS
    <3>2. h[k + 1] = h[k] \o t[k + 1]
      BY <2>2, <3>0, JoinsNext
    <3>3. g[k + 1] = g[k] \o s[k + 1]
      BY <2>2, <3>0, JoinsNext
    <3>4. t[k + 1] = s[k + 1]
      OBVIOUS
    <3> QED
      BY <3>1, <3>2, <3>3, <3>4
  <2> QED
    BY <2>1, <2>2
<1> HIDE DEF P
<1>3. Nat \subseteq P
  BY <1>1, <1>2, NatSetInduction
<1> QED
  BY <1>3 DEF P

\* A piece more.
LEMMA JoinedStep ==
  ASSUME NEW S, NEW s \in Seq(Seq(S)), NEW n \in Nat, n < Len(s)
  PROVE  Joined(s, n + 1) = Joined(s, n) \o s[n + 1]
<1> DEFINE t == SubSeq(s, 1, n)
           u == SubSeq(s, 1, n + 1)
<1>1. Len(t) = n /\ Len(u) = n + 1
  OBVIOUS
<1>2. \A i \in 1..n : t[i] = s[i]
  OBVIOUS
<1>3. \A i \in 1..n + 1 : u[i] = s[i]
  OBVIOUS
<1>4. s[n + 1] \in Seq(S)
  OBVIOUS
<1> HIDE DEF t, u
<1>5. n + 1 \in Nat /\ n + 1 # 0 /\ n <= n + 1
  OBVIOUS
<1>6. PICK h : Joins(u, h) /\ FlattenSeq(u) = h[n + 1]
  BY <1>1, <1>5, FlattenIs
<1>7. u[n + 1] = s[n + 1]
  BY <1>3, <1>5
<1>8. CASE n = 0
  <2>1. FlattenSeq(u) = s[n + 1]
    <3>1. h[1] = u[1]
      BY <1>1, <1>5, <1>6, JoinsFirst
    <3> QED
      BY <1>6, <1>7, <1>8, <3>1
  <2>2. Joined(s, n) = <<>>
    BY <1>8, JoinedNone
  <2>3. <<>> \o s[n + 1] = s[n + 1]
    BY <1>4
  <2> QED
    BY <2>1, <2>2, <2>3 DEF Joined, u
<1>9. CASE n # 0
  <2>1. PICK g : Joins(t, g) /\ FlattenSeq(t) = g[n]
    BY <1>1, <1>9, FlattenIs
  <2>2. \A i \in 1..n : t[i] = u[i]
    BY <1>2, <1>3
  <2>3. \A i \in 1..Len(t) : g[i] = h[i]
    <3>1. Joins(u, h) /\ Joins(t, g)
      BY <1>6, <2>1
    <3>2. IsFront(t, u)
      BY <1>1, <2>2 DEF IsFront
    <3> QED
      BY <3>1, <3>2, JoinsAgree
  <2>4. g[n] = h[n]
    BY <1>1, <1>9, <2>3
  <2>5. h[n + 1] = h[n] \o u[n + 1]
    <3>1. n < Len(u) /\ Len(u) \in Nat
      BY <1>1
    <3> QED
      BY <1>6, <1>9, <3>1, JoinsNext
  <2> QED
    BY <1>6, <1>7, <2>1, <2>4, <2>5 DEF Joined, t, u
<1> QED
  BY <1>8, <1>9

\* Joined pieces are a sequence of what the pieces hold.
LEMMA JoinedTyped ==
  ASSUME NEW S, NEW s \in Seq(Seq(S))
  PROVE  \A n \in Nat : n <= Len(s) => Joined(s, n) \in Seq(S)
<1> DEFINE P == {n \in Nat : n <= Len(s) => Joined(s, n) \in Seq(S)}
<1>0. \A a, b \in Seq(S) : a \o b \in Seq(S)
  OBVIOUS
<1>1. 0 \in P
  <2>1. <<>> \in Seq(S) /\ Joined(s, 0) = <<>>
    BY JoinedNone
  <2> QED
    BY <2>1
<1>2. ASSUME NEW n \in Nat, n \in P
      PROVE  n + 1 \in P
  <2> SUFFICES ASSUME n + 1 <= Len(s) PROVE Joined(s, n + 1) \in Seq(S)
    OBVIOUS
  <2>1. n < Len(s) /\ Joined(s, n) \in Seq(S)
    BY <1>2
  <2>2. s[n + 1] \in Seq(S)
    BY <2>1
  <2>3. Joined(s, n + 1) = Joined(s, n) \o s[n + 1]
    BY <2>1, JoinedStep
  <2> HIDE DEF P
  <2> QED
    BY <1>0, <2>1, <2>2, <2>3
<1> HIDE DEF P
<1>3. Nat \subseteq P
  BY <1>1, <1>2, NatSetInduction
<1> QED
  BY <1>3 DEF P

LEMMA FlattenTyped ==
  ASSUME NEW S, NEW s \in Seq(Seq(S))
  PROVE  FlattenSeq(s) \in Seq(S)
<1>1. Joined(s, Len(s)) \in Seq(S)
  BY JoinedTyped
<1> QED
  BY <1>1, JoinedAll

\* How much of the joined sequence the first n pieces take.
Upto(s, n) == Len(Joined(s, n))

\* How far a piece more reaches, and what stands there.
LEMMA UptoStep ==
  ASSUME NEW S, NEW s \in Seq(Seq(S)), NEW n \in Nat, n < Len(s)
  PROVE  /\ Upto(s, n) \in Nat /\ Upto(s, n + 1) \in Nat
         /\ Upto(s, n + 1) = Upto(s, n) + Len(s[n + 1])
         /\ \A i \in 1..Upto(s, n) : Joined(s, n + 1)[i] = Joined(s, n)[i]
         /\ \A i \in 1..Len(s[n + 1]) : Joined(s, n + 1)[Upto(s, n) + i] = s[n + 1][i]
<1>1. Joined(s, n) \in Seq(S) /\ s[n + 1] \in Seq(S)
  BY JoinedTyped
<1>2. Joined(s, n + 1) = Joined(s, n) \o s[n + 1]
  BY JoinedStep
<1> QED
  BY <1>1, <1>2 DEF Upto

\* What the first m pieces made stays where it was.
LEMMA JoinedStays ==
  ASSUME NEW S, NEW s \in Seq(Seq(S)), NEW m \in Nat, m <= Len(s)
  PROVE  \A n \in Nat : m <= n /\ n <= Len(s) =>
           /\ Upto(s, m) <= Upto(s, n)
           /\ \A i \in 1..Upto(s, m) : Joined(s, n)[i] = Joined(s, m)[i]
<1> DEFINE Kept(n) == /\ Upto(s, m) <= Upto(s, n)
                      /\ \A i \in 1..Upto(s, m) : Joined(s, n)[i] = Joined(s, m)[i]
           P == {n \in Nat : m <= n /\ n <= Len(s) => Kept(n)}
<1>1. Upto(s, m) \in Nat
  BY JoinedTyped DEF Upto
<1>2. Kept(m)
  BY <1>1
<1>3. 0 \in P
  BY <1>2
<1>4. ASSUME NEW n \in Nat, n \in P
      PROVE  n + 1 \in P
  <2> SUFFICES ASSUME m <= n + 1, n + 1 <= Len(s) PROVE Kept(n + 1)
    OBVIOUS
  <2>1. CASE m = n + 1
    BY <1>2, <2>1
  <2>2. CASE m # n + 1
    <3>1. m <= n /\ n < Len(s)
      BY <2>2
    <3>2. Kept(n)
      BY <1>4, <3>1
    <3>3. /\ Upto(s, n) \in Nat
          /\ Upto(s, n + 1) = Upto(s, n) + Len(s[n + 1])
          /\ \A i \in 1..Upto(s, n) : Joined(s, n + 1)[i] = Joined(s, n)[i]
      BY <3>1, UptoStep
    <3>4. Len(s[n + 1]) \in Nat
      BY <3>1
    <3> QED
      BY <1>1, <3>2, <3>3, <3>4
  <2> QED
    BY <2>1, <2>2
<1> HIDE DEF P, Kept
<1>5. Nat \subseteq P
  BY <1>3, <1>4, NatSetInduction
<1> QED
  BY <1>5 DEF P, Kept

\* Each piece is found again in the whole.
LEMMA PieceOf ==
  ASSUME NEW S, NEW s \in Seq(Seq(S)), NEW n \in Nat, n < Len(s)
  PROVE  /\ Upto(s, n) \in Nat /\ Upto(s, n + 1) \in Nat
         /\ Upto(s, n + 1) = Upto(s, n) + Len(s[n + 1])
         /\ Upto(s, n + 1) <= Len(FlattenSeq(s))
         /\ SubSeq(FlattenSeq(s), Upto(s, n) + 1, Upto(s, n + 1)) = s[n + 1]
<1> DEFINE f == FlattenSeq(s)
           a == Upto(s, n)
           e == Upto(s, n + 1)
<1>1. f \in Seq(S) /\ f = Joined(s, Len(s)) /\ Len(f) = Upto(s, Len(s))
  BY FlattenTyped, JoinedAll DEF Upto
<1>2. a \in Nat /\ e \in Nat /\ e = a + Len(s[n + 1])
  BY UptoStep
<1>3. e <= Len(f)
  <2>1. n + 1 \in Nat /\ n + 1 <= Len(s) /\ Len(s) \in Nat
    OBVIOUS
  <2> QED
    BY <1>1, <2>1, JoinedStays
<1>4. \A i \in 1..e : f[i] = Joined(s, n + 1)[i]
  <2>1. n + 1 \in Nat /\ n + 1 <= Len(s) /\ Len(s) \in Nat
    OBVIOUS
  <2> QED
    BY <1>1, <2>1, JoinedStays
<1>5. \A i \in 1..Len(s[n + 1]) : Joined(s, n + 1)[a + i] = s[n + 1][i]
  BY UptoStep
<1>6. s[n + 1] \in Seq(S)
  OBVIOUS
<1> HIDE DEF f, a, e
<1>7. \A i \in 1..Len(s[n + 1]) : f[a + i] = s[n + 1][i]
  BY <1>2, <1>4, <1>5, <1>6
<1>8. SubSeq(f, a + 1, e) = s[n + 1]
  <2>1. /\ SubSeq(f, a + 1, e) \in Seq(S) /\ Len(SubSeq(f, a + 1, e)) = Len(s[n + 1])
        /\ \A i \in 1..Len(s[n + 1]) : SubSeq(f, a + 1, e)[i] = f[a + i]
    BY <1>1, <1>2, <1>3, <1>6
  <2>2. \A i \in 1..Len(s[n + 1]) : SubSeq(f, a + 1, e)[i] = s[n + 1][i]
    BY <1>7, <2>1
  <2> DEFINE g == SubSeq(f, a + 1, e)
             h == s[n + 1]
  <2>3. g \in Seq(S) /\ h \in Seq(S) /\ Len(g) = Len(h) /\ \A i \in 1..Len(g) : g[i] = h[i]
    BY <1>6, <2>1, <2>2
  <2> HIDE DEF g, h
  <2>4. g = h
    BY <2>3, SeqSame
  <2> QED
    BY <2>4 DEF g, h
<1> QED
  BY <1>2, <1>3, <1>8 DEF f, a, e

\* A piece where there was none makes the whole longer by that piece.
LEMMA PieceMore ==
  ASSUME NEW S, NEW s \in Seq(Seq(S)), NEW t \in Seq(Seq(S)), Len(s) = Len(t),
         NEW k \in 1..Len(s), s[k] = <<>>, \A i \in 1..Len(s) : i # k => s[i] = t[i]
  PROVE  Len(FlattenSeq(t)) = Len(FlattenSeq(s)) + Len(t[k])
<1> DEFINE c == Len(t[k])
           More(n) == Upto(t, n) = Upto(s, n) + (IF k <= n THEN c ELSE 0)
           P == {n \in Nat : n <= Len(s) => More(n)}
<1>1. c \in Nat /\ Len(s[k]) = 0 /\ Len(s) \in Nat
  OBVIOUS
<1>0. ASSUME NEW i \in 1..Len(s)
      PROVE  Len(s[i]) \in Nat /\ (i # k => Len(t[i]) = Len(s[i]))
  <2>1. s[i] \in Seq(S)
    OBVIOUS
  <2>2. Len(s[i]) \in Nat
    BY <2>1
  <2>3. i # k => t[i] = s[i]
    OBVIOUS
  <2> QED
    BY <2>2, <2>3
<1>2. 0 \in P
  <2>1. Upto(t, 0) = 0 /\ Upto(s, 0) = 0
    BY JoinedNone DEF Upto
  <2> QED
    BY <2>1
<1>3. ASSUME NEW n \in Nat, n \in P
      PROVE  n + 1 \in P
  <2> SUFFICES ASSUME n + 1 <= Len(s) PROVE More(n + 1)
    OBVIOUS
  <2>1. n < Len(s) /\ n < Len(t)
    OBVIOUS
  <2>2. More(n)
    BY <1>3, <2>1
  <2>3. Upto(s, n) \in Nat /\ Upto(s, n + 1) = Upto(s, n) + Len(s[n + 1])
    BY <2>1, UptoStep
  <2>4. Upto(t, n + 1) = Upto(t, n) + Len(t[n + 1])
    BY <2>1, UptoStep
  <2>5. n + 1 \in 1..Len(s)
    BY <2>1
  <2>6. Len(s[n + 1]) \in Nat /\ (n + 1 # k => Len(t[n + 1]) = Len(s[n + 1]))
    BY <1>0, <2>5
  <2>7. n + 1 = k => Len(t[n + 1]) = c /\ Len(s[n + 1]) = 0
    BY <1>1
  <2> HIDE DEF c
  <2> QED
    BY <1>1, <2>2, <2>3, <2>4, <2>5, <2>6, <2>7
<1> HIDE DEF P, More
<1>4. Nat \subseteq P
  BY <1>2, <1>3, NatSetInduction
<1>5. More(Len(s))
  BY <1>1, <1>4 DEF P
<1>6. Upto(s, Len(s)) = Len(FlattenSeq(s)) /\ Upto(t, Len(s)) = Len(FlattenSeq(t))
  BY JoinedAll DEF Upto
<1> QED
  BY <1>5, <1>6 DEF More, c

-----------------------------------------------------------------------------
(* Texts.                                                                   *)

\* Max and Min of a set of naturals below a bound.
LEMMA Bounds ==
  ASSUME NEW m \in Nat, NEW T, T # {}, \A x \in T : x \in Nat /\ x <= m
  PROVE  /\ Min(T) \in T /\ \A x \in T : Min(T) <= x
         /\ Max(T) \in T /\ \A x \in T : x <= Max(T)
<1>1. \E x \in T : \A y \in T : x <= y
  BY Least
<1>2. PICK x \in T : \A y \in T : y <= x
  <2> DEFINE U == {m - y : y \in T}
  <2>1. U \subseteq Nat /\ U # {}
    OBVIOUS
  <2> HIDE DEF U
  <2>2. PICK u \in U : \A v \in U : u <= v
    BY <2>1, Least
  <2>3. PICK x \in T : u = m - x
    BY <2>2 DEF U
  <2>4. ASSUME NEW y \in T
        PROVE  y <= x
    <3>1. m - x <= m - y
      BY <2>2, <2>3 DEF U
    <3>2. x \in Nat /\ y \in Nat
      BY <2>3
    <3> QED
      BY <3>1, <3>2
  <2> QED
    BY <2>3, <2>4
<1>3. \A y \in T : x >= y
  BY <1>2
<1>4. Max(T) \in T /\ \A y \in T : Max(T) >= y
  BY <1>2, <1>3 DEF Max
<1>5. Min(T) \in T /\ \A y \in T : Min(T) <= y
  BY <1>1 DEF Min
<1> QED
  BY <1>4, <1>5

\* The elements of S below x.
Below(S, x) == {y \in S : y < x}

\* The elements of a set of naturals below a bound, in order.
LEMMA NthOf ==
  ASSUME NEW m \in Nat, NEW S, \A x \in S : x \in Nat /\ x <= m
  PROVE  /\ Cardinality(S) \in Nat
         /\ \A k \in 1..Cardinality(S) : Nth(S, k) \in S
         /\ \A j, k \in 1..Cardinality(S) : j < k <=> Nth(S, j) < Nth(S, k)
         /\ \A x \in S : \E k \in 1..Cardinality(S) : Nth(S, k) = x
         /\ \A x \in S, k \in 1..Cardinality(S) :
              Cardinality(Below(S, x)) = k - 1 => Nth(S, k) = x
<1> DEFINE below == [x \in S |-> {y \in S : y < x}]
           n == Cardinality(S)
<1>1. IsFiniteSet(S)
  BY FS_BoundedSetOfNaturals
<1>2. /\ n \in Nat
      /\ \A x \in S : Cardinality(below[x]) \in 0..n - 1
      /\ \A x, y \in S : x \in below[y] <=> Cardinality(below[x]) < Cardinality(below[y])
      /\ \A x, y \in S : Cardinality(below[x]) = Cardinality(below[y]) => x = y
      /\ \A r \in 0..n - 1 : \E x \in S : Cardinality(below[x]) = r
  <2>1. below \in [S -> SUBSET S]
    OBVIOUS
  <2>2. \A x, y \in S : x \in below[y] <=> x < y
    OBVIOUS
  <2>3. /\ \A x \in S : x \notin below[x]
        /\ \A x, y \in S : x # y => x \in below[y] \/ y \in below[x]
        /\ \A x, y, z \in S : x \in below[y] /\ y \in below[z] => x \in below[z]
    <3> HIDE DEF below
    <3> QED
      BY <2>2
  <2> HIDE DEF below
  <2> QED
    BY <1>1, <2>1, <2>3, Places
<1>3. \A x, y \in S : x \in below[y] <=> x < y
  OBVIOUS
<1>4. \A x \in S : below[x] = {y \in S : y < x}
  OBVIOUS
<1> HIDE DEF below
<1>5. ASSUME NEW k \in 1..n
      PROVE  Nth(S, k) \in S /\ Cardinality(below[Nth(S, k)]) = k - 1
  <2>1. k - 1 \in 0..n - 1
    BY <1>2
  <2>2. PICK x \in S : Cardinality({y \in S : y < x}) = k - 1
    BY <1>2, <1>4, <2>1
  <2>3. Nth(S, k) \in S /\ Cardinality({y \in S : y < Nth(S, k)}) = k - 1
    BY <2>2 DEF Nth
  <2> QED
    BY <1>4, <2>3
<1>6. ASSUME NEW j \in 1..n, NEW k \in 1..n
      PROVE  j < k <=> Nth(S, j) < Nth(S, k)
  <2>3. /\ Nth(S, j) \in S /\ Cardinality(below[Nth(S, j)]) = j - 1
        /\ Nth(S, k) \in S /\ Cardinality(below[Nth(S, k)]) = k - 1
    BY <1>5
  <2>1. Nth(S, j) < Nth(S, k) <=> j - 1 < k - 1
    BY <1>2, <1>3, <2>3
  <2>2. j \in Nat /\ k \in Nat
    BY <1>2
  <2> QED
    BY <2>1, <2>2
<1>7. ASSUME NEW x \in S
      PROVE  \E k \in 1..n : Nth(S, k) = x
  <2>1. Cardinality(below[x]) \in 0..n - 1
    BY <1>2
  <2>2. Cardinality(below[x]) + 1 \in 1..n
    BY <1>2, <2>1
  <2>3. /\ Nth(S, Cardinality(below[x]) + 1) \in S
        /\ Cardinality(below[Nth(S, Cardinality(below[x]) + 1)]) = (Cardinality(below[x]) + 1) - 1
    BY <1>5, <2>2
  <2>4. Cardinality(below[Nth(S, Cardinality(below[x]) + 1)]) = Cardinality(below[x])
    BY <2>1, <2>3
  <2> QED
    BY <1>2, <2>2, <2>3, <2>4
<1>8. ASSUME NEW x \in S, NEW k \in 1..n, Cardinality(Below(S, x)) = k - 1
      PROVE  Nth(S, k) = x
  <2>1. Cardinality(below[x]) = k - 1
    BY <1>4, <1>8 DEF Below
  <2>2. Nth(S, k) \in S /\ Cardinality(below[Nth(S, k)]) = k - 1
    BY <1>5
  <2> QED
    BY <1>2, <2>1, <2>2
<1> QED
  BY <1>2, <1>5, <1>6, <1>7, <1>8

\* The first n of g are the elements of S in ascending order.
Enumerates(g, n, S) ==
  /\ \A i \in 1..n : g[i] \in S
  /\ \A i, j \in 1..n : i < j => g[i] < g[j]
  /\ \A x \in S : \E i \in 1..n : g[i] = x

\* There is one such list.
LEMMA NthIs ==
  ASSUME NEW m \in Nat, NEW S, \A x \in S : x \in Nat /\ x <= m, NEW n \in Nat, NEW g,
         Enumerates(g, n, S)
  PROVE  Cardinality(S) = n /\ \A k \in 1..n : Nth(S, k) = g[k]
<1> USE DEF Enumerates
<1>0. \A i \in 1..n : i \in Nat /\ g[i] \in S /\ g[i] \in Nat
  BY SMT
<1>1. \A i, j \in 1..n : g[i] = g[j] => i = j
  <2> SUFFICES ASSUME NEW i \in 1..n, NEW j \in 1..n, i # j
               PROVE  g[i] # g[j]
    OBVIOUS
  <2>1. i < j \/ j < i
    BY <1>0
  <2> QED
    BY <1>0, <2>1
<1>2. [i \in 1..n |-> g[i]] \in Bijection(1..n, S)
  BY <1>0, <1>1 DEF Bijection, Injection, IsInjective, Surjection
<1>3. Cardinality(S) = n
  BY <1>2, FS_CountingElements DEF ExistsBijection
<1>6. ASSUME NEW k \in 1..n
      PROVE  Nth(S, k) = g[k]
  <2> DEFINE inS == {x \in S : x < g[k]}
             h == [i \in 1..k - 1 |-> g[i]]
  <2>1. k - 1 \in Nat /\ \A i \in 1..k - 1 : i \in 1..n /\ i < k
    OBVIOUS
  <2>2. \A i \in 1..k - 1 : h[i] \in inS
    BY <2>1
  <2>3. ASSUME NEW x \in inS
        PROVE  \E i \in 1..k - 1 : h[i] = x
    <3>1. PICK i \in 1..n : g[i] = x
      BY <2>3
    <3>2. ~(k < i) /\ i # k
      <4>1. g[i] < g[k]
        BY <2>3, <3>1
      <4> QED
        BY <1>0, <4>1
    <3>3. i \in 1..k - 1
      BY <1>0, <3>2
    <3> QED
      BY <3>1, <3>3
  <2>4. h \in Bijection(1..k - 1, inS)
    <3>1. h \in [1..k - 1 -> inS]
      BY <2>2
    <3>2. \A i, j \in 1..k - 1 : h[i] = h[j] => i = j
      BY <1>1, <2>1
    <3> QED
      BY <2>3, <3>1, <3>2 DEF Bijection, Injection, IsInjective, Surjection
  <2>5. Cardinality(inS) = k - 1
    <3> HIDE DEF inS, h
    <3> QED
      BY <2>1, <2>4, FS_CountingElements DEF ExistsBijection
  <2>6. Cardinality(Below(S, g[k])) = k - 1
    BY <2>5 DEF Below
  <2>7. g[k] \in S /\ k \in 1..Cardinality(S)
    BY <1>0, <1>3
  <2> HIDE DEF inS, h
  <2>8. \A x \in S, j \in 1..Cardinality(S) :
          Cardinality(Below(S, x)) = j - 1 => Nth(S, j) = x
    BY NthOf
  <2> QED
    BY <2>6, <2>7, <2>8
<1> QED
  BY <1>3, <1>6

\* The words are told apart.
LEMMA WordsDiffer ==
  /\ Open # Blank /\ Close # Blank /\ Comma # Blank /\ Open # Comma /\ Close # Comma
  /\ \A n : Number(n) # Blank /\ Number(n) # Comma /\ Number(n).is = "number" /\ Number(n).value = n
  /\ \A n \in Int : Number(n) \in Words
  /\ Open \in Words /\ Close \in Words /\ Comma \in Words
<1>1. /\ Open.is = "{" /\ Close.is = "}" /\ Comma.is = "," /\ Blank.is = " "
      /\ \A n : Number(n).is = "number" /\ Number(n).value = n
  BY DEF Open, Close, Comma, Blank, Number
<1>2. \A n \in Int : Number(n) \in Words
  BY DEF Number, Words
<1>3. Open \in Words /\ Close \in Words /\ Comma \in Words
  BY DEF Words
<1> QED
  BY <1>1, <1>2, <1>3

LEMMA NumberWord ==
  ASSUME NEW w \in Words, w.is = "number"
  PROVE  w = Number(w.value)
<1>0. /\ Open.is = "{" /\ Close.is = "}" /\ Comma.is = "," /\ Blank.is = " "
      /\ Other.is = "other"
  BY DEF Open, Close, Comma, Blank, Other
<1>1. w \notin {Open, Close, Comma, Blank, Other}
  BY <1>0
<1>2. w \in [is : {"number"}, value : Int]
  BY <1>1 DEF Words
<1> QED
  BY <1>2 DEF Number

LEMMA InkedBounds ==
  ASSUME NEW s \in Seq(Words)
  PROVE  /\ Len(s) \in Nat
         /\ \A i \in Inked(s) : i \in Nat /\ 1 <= i /\ i <= Len(s) /\ s[i] # Blank
BY DEF Inked

\* What trim leaves: nothing, or what lies from one word that is not blank to another with all
\* of them between.
LEMMA TrimOf ==
  ASSUME NEW s \in Seq(Words)
  PROVE  \/ Inked(s) = {} /\ Trim(s) = <<>>
         \/ \E a, b \in Inked(s) :
              /\ a <= b
              /\ \A i \in Inked(s) : a <= i /\ i <= b
              /\ Trim(s) = SubSeq(s, a, b)
<1>1. CASE Inked(s) = {}
  BY <1>1 DEF Trim
<1>2. CASE Inked(s) # {}
  <2> DEFINE a == Min(Inked(s))
             b == Max(Inked(s))
  <2>1. /\ Len(s) \in Nat
        /\ \A i \in Inked(s) : i \in Nat /\ i <= Len(s)
    BY InkedBounds
  <2>2. a \in Inked(s) /\ b \in Inked(s) /\ \A i \in Inked(s) : a <= i /\ i <= b
    BY <1>2, <2>1, Bounds
  <2>3. Trim(s) = SubSeq(s, a, b)
    BY <1>2 DEF Trim
  <2> HIDE DEF a, b
  <2>4. a <= b
    BY <2>2
  <2> QED
    BY <2>2, <2>3, <2>4
<1> QED
  BY <1>1, <1>2

\* A sequence with no blank at either end is trimmed already.
LEMMA TrimNothing ==
  ASSUME NEW s \in Seq(Words), Len(s) >= 1, s[1] # Blank, s[Len(s)] # Blank
  PROVE  Trim(s) = s
<1>1. Len(s) \in Nat /\ 1 \in Inked(s) /\ Len(s) \in Inked(s)
  BY DEF Inked
<1>2. PICK a \in Inked(s), b \in Inked(s) :
        /\ \A i \in Inked(s) : a <= i /\ i <= b
        /\ Trim(s) = SubSeq(s, a, b)
  BY <1>1, TrimOf
<1>3. a \in Nat /\ 1 <= a /\ b \in Nat /\ b <= Len(s)
  BY InkedBounds
<1>4. a = 1 /\ b = Len(s)
  BY <1>1, <1>2, <1>3
<1>5. SubSeq(s, 1, Len(s)) = s
  OBVIOUS
<1> QED
  BY <1>2, <1>4, <1>5

\* A field that is a token id is one number among blanks.
LEMMA FieldOf ==
  ASSUME NEW s \in Seq(Words), IsTokenId(Trim(s))
  PROVE  \E p \in Inked(s) :
           /\ \A i \in Inked(s) : i = p
           /\ s[p] = Number(Trim(s)[1].value)
           /\ Trim(s)[1].value \in U32
<1>1. Len(Trim(s)) = 1 /\ Trim(s)[1].is = "number" /\ Trim(s)[1].value \in U32
  BY DEF IsTokenId
<1>2. Trim(s) # <<>>
  <2>1. Len(<<>>) # 1
    OBVIOUS
  <2> QED
    BY <1>1, <2>1, Zenon
<1>3. PICK a \in Inked(s), b \in Inked(s) :
        /\ a <= b
        /\ \A i \in Inked(s) : a <= i /\ i <= b
        /\ Trim(s) = SubSeq(s, a, b)
  BY <1>2, TrimOf
<1>4. /\ Len(s) \in Nat
      /\ a \in Nat /\ 1 <= a /\ b \in Nat /\ b <= Len(s)
      /\ \A i \in Inked(s) : i \in Nat
  BY InkedBounds
<1>5. Len(SubSeq(s, a, b)) = b - a + 1 /\ SubSeq(s, a, b)[1] = s[a]
  BY <1>3, <1>4
<1>6. a = b
  BY <1>1, <1>3, <1>4, <1>5
<1>7. s[a] \in Words
  BY <1>3, <1>4
<1>8. s[a] = Number(s[a].value)
  BY <1>1, <1>3, <1>5, <1>7, NumberWord
<1>9. \A i \in Inked(s) : i = a
  BY <1>3, <1>4, <1>6
<1> QED
  BY <1>1, <1>3, <1>5, <1>8, <1>9

\* Where the fields of s end.
Ends(s) == {0, Len(s) + 1} \cup {i \in 1..Len(s) : s[i] = Comma}
FieldCount(s) == Cardinality(Ends(s)) - 1
End(s, k) == Nth(Ends(s), k)
Field(s, k) == SubSeq(s, End(s, k) + 1, End(s, k + 1) - 1)

\* What split(',') yields: the field ends ascend from 0 to the length and one, and whatever is
\* no comma is in one of the fields.
LEMMA FieldEnds ==
  ASSUME NEW s \in Seq(Words)
  PROVE  LET n == FieldCount(s) IN
         /\ Len(s) \in Nat
         /\ n \in Nat /\ n >= 1
         /\ \A k \in 1..n + 1 : End(s, k) \in Ends(s) /\ End(s, k) \in 0..Len(s) + 1
         /\ End(s, 1) = 0 /\ End(s, n + 1) = Len(s) + 1
         /\ \A j, k \in 1..n + 1 : j < k => End(s, j) < End(s, k)
         /\ \A x \in Ends(s) : \E k \in 1..n + 1 : End(s, k) = x
         /\ \A y \in 1..Len(s) : y \notin Ends(s) =>
              \E k \in 1..n : End(s, k) < y /\ y < End(s, k + 1)
         /\ Fields(s) = [k \in 1..n |-> Trim(Field(s, k))]
<1> DEFINE E == Ends(s)
           c == Cardinality(E)
           n == FieldCount(s)
           e(k) == End(s, k)
<1>1. Len(s) \in Nat
  OBVIOUS
<1>2. \A x \in E : x \in Nat /\ x <= Len(s) + 1
  BY <1>1 DEF Ends
<1>3. 0 \in E /\ Len(s) + 1 \in E
  BY DEF Ends
<1>4. /\ c \in Nat
      /\ \A k \in 1..c : e(k) \in E
      /\ \A j, k \in 1..c : j < k <=> e(j) < e(k)
      /\ \A x \in E : \E k \in 1..c : e(k) = x
  <2>1. Len(s) + 1 \in Nat
    BY <1>1
  <2> HIDE DEF E
  <2> QED
    BY <1>2, <2>1, NthOf DEF End, E
<1>5. n = c - 1
  BY DEF FieldCount
<1>6. Fields(s) = [k \in 1..n |-> Trim(Field(s, k))]
  BY DEF Fields, FieldCount, Ends, Field, End
<1> HIDE DEF E, c, n, e
<1>7. PICK k0 \in 1..c : e(k0) = 0
  BY <1>3, <1>4
<1>8. PICK k1 \in 1..c : e(k1) = Len(s) + 1
  BY <1>3, <1>4
<1>9. k0 \in Nat /\ k1 \in Nat /\ k0 < k1
  BY <1>1, <1>4, <1>7, <1>8
<1>10. k0 = 1
  <2> SUFFICES ASSUME k0 # 1 PROVE FALSE
    OBVIOUS
  <2>1. 1 \in 1..c /\ 1 < k0
    BY <1>4, <1>7, <1>9
  <2>2. e(1) < e(k0) /\ e(1) \in E
    BY <1>4, <1>7, <2>1
  <2> QED
    BY <1>2, <1>7, <2>2
<1>11. k1 = c
  <2> SUFFICES ASSUME k1 # c PROVE FALSE
    OBVIOUS
  <2>1. c \in 1..c /\ k1 < c
    BY <1>4, <1>8, <1>9
  <2>2. e(k1) < e(c) /\ e(c) \in E
    BY <1>4, <1>8, <2>1
  <2> QED
    BY <1>1, <1>2, <1>8, <2>2
<1>12. c >= 2 /\ n \in Nat /\ n >= 1 /\ n + 1 = c
  BY <1>4, <1>5, <1>9, <1>10, <1>11
<1>13. \A k \in 1..c : e(k) \in 0..Len(s) + 1
  BY <1>1, <1>2, <1>4
<1>14. ASSUME NEW y \in 1..Len(s), y \notin E
       PROVE  \E k \in 1..n : e(k) < y /\ y < e(k + 1)
  <2> DEFINE above == {k \in 1..c : y < e(k)}
  <2>1. c \in above
    BY <1>1, <1>8, <1>11, <1>12
  <2>2. above \subseteq Nat /\ above # {}
    BY <1>4, <2>1
  <2>3. PICK k \in above : \A j \in above : k <= j
    <3> HIDE DEF above
    <3> QED
      BY <2>2, Least
  <2>4. k \in 1..c /\ k \in Nat /\ y < e(k) /\ y \in Nat /\ 1 <= y
    BY <1>1, <1>4, <2>3
  <2>5. k # 1
    BY <1>7, <1>10, <2>4
  <2>6. k - 1 \in 1..n /\ k - 1 \in 1..c /\ k - 1 + 1 = k
    BY <1>12, <2>4, <2>5
  <2>7. k - 1 \notin above
    BY <2>3, <2>4
  <2>8. e(k - 1) \in E /\ e(k - 1) \in Nat
    BY <1>2, <1>4, <2>6
  <2>9. e(k - 1) < y
    BY <1>14, <2>4, <2>6, <2>7, <2>8
  <2> QED
    BY <2>4, <2>6, <2>9
<1>15. e(1) = 0 /\ e(n + 1) = Len(s) + 1
  BY <1>7, <1>8, <1>10, <1>11, <1>12
<1> QED
  BY <1>1, <1>4, <1>6, <1>12, <1>13, <1>14, <1>15 DEF E, n, e

\* What parse_ids looks at: the trimmed text between its braces.
LEMMA ParseIdsOf ==
  ASSUME NEW text \in Seq(Words), NEW ids \in ParseIds(text)
  PROVE  \E a, b \in Inked(text) :
           LET inner == SubSeq(text, a + 1, b - 1) IN
           /\ a < b /\ text[a] = Open /\ text[b] = Close
           /\ \A i \in Inked(text) : a <= i /\ i <= b
           /\ IF Trim(inner) = <<>> THEN ids = <<>>
              ELSE /\ \A k \in DOMAIN Fields(inner) : IsTokenId(Fields(inner)[k])
                   /\ ids = [k \in DOMAIN Fields(inner) |-> Fields(inner)[k][1].value]
<1> DEFINE t == Trim(text)
           inside == SubSeq(t, 2, Len(t) - 1)
<1>1. Len(t) >= 2 /\ Head(t) = Open /\ Last(t) = Close
  BY DEF ParseIds
<1>2. IF Trim(inside) = <<>> THEN ids = <<>>
      ELSE /\ \A k \in DOMAIN Fields(inside) : IsTokenId(Fields(inside)[k])
           /\ ids = [k \in DOMAIN Fields(inside) |-> Fields(inside)[k][1].value]
  BY DEF ParseIds
<1>3. t # <<>>
  <2>1. ~(Len(<<>>) >= 2)
    OBVIOUS
  <2> HIDE DEF t
  <2> QED
    BY <1>1, <2>1, Zenon
<1>4. PICK a \in Inked(text), b \in Inked(text) :
        /\ a <= b
        /\ \A i \in Inked(text) : a <= i /\ i <= b
        /\ t = SubSeq(text, a, b)
  BY <1>3, TrimOf
<1>5. a \in Nat /\ 1 <= a /\ b \in Nat /\ b <= Len(text) /\ Len(text) \in Nat
  BY InkedBounds
<1>6. /\ Len(t) = b - a + 1 /\ Head(t) = text[a] /\ t[Len(t)] = text[b]
      /\ inside = SubSeq(text, a + 1, b - 1)
  <2>1. /\ t \in Seq(Words)
        /\ Len(t) = b - a + 1
        /\ \A i \in 1..Len(t) : t[i] = text[a + i - 1]
    BY <1>4, <1>5
  <2> HIDE DEF t
  <2>2. Head(t) = t[1] /\ t[1] = text[a]
    BY <1>1, <1>5, <2>1
  <2>3. t[Len(t)] = text[b]
    BY <1>1, <1>5, <2>1
  <2>4. Len(inside) = Len(t) - 2 /\ \A i \in 1..Len(t) - 2 : inside[i] = text[a + i]
    BY <1>1, <1>5, <2>1
  <2>5. /\ Len(SubSeq(text, a + 1, b - 1)) = Len(t) - 2
        /\ \A i \in 1..Len(t) - 2 : SubSeq(text, a + 1, b - 1)[i] = text[a + i]
    BY <1>1, <1>5, <2>1
  <2>6. inside \in Seq(Words) /\ SubSeq(text, a + 1, b - 1) \in Seq(Words)
    BY <1>1, <1>5, <2>1
  <2>7. inside = SubSeq(text, a + 1, b - 1)
    <3> HIDE DEF inside
    <3> QED
      BY <2>4, <2>5, <2>6, SeqSame
  <2> QED
    BY <2>1, <2>2, <2>3, <2>7
<1>7. text[a] = Open /\ text[b] = Close
  BY <1>1, <1>6 DEF Last
<1>8. a < b
  BY <1>1, <1>5, <1>6
<1> HIDE DEF t, inside
<1> QED
  BY <1>2, <1>4, <1>6, <1>7, <1>8

\* An ascending list of the places of all words that are not blank tells what is left of s
\* without its blanks.
LEMMA SqueezedIs ==
  ASSUME NEW s \in Seq(Words), NEW n \in Nat, NEW g, Enumerates(g, n, Inked(s))
  PROVE  Squeezed(s) = [k \in 1..n |-> s[g[k]]]
<1> DEFINE S == Inked(s)
           m == Len(s)
<1>1. m \in Nat /\ \A x \in S : x \in Nat /\ x <= m
  BY InkedBounds
<1>2. Cardinality(S) = n /\ \A k \in 1..n : Nth(S, k) = g[k]
  <2> HIDE DEF m
  <2> QED
    BY <1>1, NthIs
<1> QED
  BY <1>2 DEF Squeezed

\* A text of which nothing but its braces is not blank.
LEMMA SqueezedEmpty ==
  ASSUME NEW s \in Seq(Words), NEW a \in Inked(s), NEW b \in Inked(s),
         a < b, s[a] = Open, s[b] = Close, \A i \in Inked(s) : i = a \/ i = b
  PROVE  Squeezed(s) = RenderIds(<<>>)
<1> DEFINE n == 2
           g == [k \in 1..n |-> IF k = 1 THEN a ELSE b]
<1>1. n \in Nat /\ \A i \in 1..n : g[i] \in Inked(s)
  OBVIOUS
<1>2. 1 \in 1..n /\ 2 \in 1..n /\ g[1] = a /\ g[2] = b
  OBVIOUS
<1>3. \A i \in 1..n : i = 1 \/ i = 2
  OBVIOUS
<1>4. \A i, j \in 1..n : i < j => g[i] < g[j]
  <2> HIDE DEF g
  <2> QED
    BY <1>2, <1>3
<1>5. \A x \in Inked(s) : \E i \in 1..n : g[i] = x
  <2> HIDE DEF g
  <2> QED
    BY <1>2
<1>6. Squeezed(s) = [k \in 1..n |-> s[g[k]]]
  <2> HIDE DEF g, n
  <2>1. Enumerates(g, n, Inked(s))
    BY <1>1, <1>4, <1>5 DEF Enumerates
  <2> QED
    BY <1>1, <2>1, SqueezedIs
<1>7. [k \in 1..n |-> s[g[k]]] = <<Open, Close>>
  <2> HIDE DEF g
  <2> QED
    BY <1>2, <1>3
<1> QED
  BY <1>6, <1>7 DEF RenderIds

\* The number in the field of s between lo and hi.
LEMMA NumberBetween ==
  ASSUME NEW s \in Seq(Words), NEW lo \in Nat, NEW hi \in Nat, lo < hi, hi <= Len(s) + 1,
         IsTokenId(Trim(SubSeq(s, lo + 1, hi - 1)))
  PROVE  LET id == Trim(SubSeq(s, lo + 1, hi - 1))[1].value IN
         /\ id \in U32
         /\ \E p \in 1..Len(s) :
              /\ lo < p /\ p < hi
              /\ s[p] = Number(id)
              /\ \A i \in 1..Len(s) : lo < i /\ i < hi /\ s[i] # Blank => i = p
<1> DEFINE f == SubSeq(s, lo + 1, hi - 1)
           id == Trim(f)[1].value
<1>1. Len(s) \in Nat
  OBVIOUS
<1>2. /\ f \in Seq(Words) /\ Len(f) = hi - 1 - lo
      /\ \A i \in 1..Len(f) : f[i] = s[lo + i]
  BY <1>1
<1> HIDE DEF f
<1>3. PICK q \in Inked(f) : /\ \A i \in Inked(f) : i = q
                            /\ f[q] = Number(id) /\ id \in U32
  BY <1>2, FieldOf DEF f
<1>4. q \in 1..Len(f)
  BY DEF Inked
<1>5. lo + q \in 1..Len(s) /\ lo < lo + q /\ lo + q < hi /\ s[lo + q] = Number(id)
  BY <1>1, <1>2, <1>3, <1>4
<1>6. ASSUME NEW i \in 1..Len(s), lo < i, i < hi, s[i] # Blank
      PROVE  i = lo + q
  <2>1. i - lo \in 1..Len(f) /\ lo + (i - lo) = i
    BY <1>1, <1>2, <1>6
  <2>2. f[i - lo] = s[i]
    BY <1>2, <2>1
  <2>3. i - lo \in Inked(f)
    BY <1>6, <2>1, <2>2 DEF Inked
  <2>4. i - lo = q
    BY <1>3, <2>3
  <2> QED
    BY <1>1, <1>4, <2>4
<1> QED
  BY <1>3, <1>5, <1>6 DEF f

\* Two sequences that take turns, the longer one first and last.
Turns(n, e, p) == [j \in 1..2 * n + 1 |-> IF j % 2 = 0 THEN p[j \div 2] ELSE e[(j + 1) \div 2]]

LEMMA Parity ==
  ASSUME NEW n \in Nat, NEW j \in 1..2 * n + 1
  PROVE  \/ \E k \in 1..n : j = 2 * k /\ j % 2 = 0 /\ j \div 2 = k
         \/ \E k \in 1..n + 1 : j = 2 * k - 1 /\ j % 2 # 0 /\ (j + 1) \div 2 = k
<1>1. CASE j % 2 = 0
  BY <1>1
<1>2. CASE j % 2 # 0
  BY <1>2
<1> QED
  BY <1>1, <1>2

LEMMA TurnsAscend ==
  ASSUME NEW n \in Nat, NEW e \in [1..n + 1 -> Nat], NEW p \in [1..n -> Nat],
         \A k \in 1..n : e[k] < p[k] /\ p[k] < e[k + 1],
         \A i, j \in 1..n + 1 : i < j => e[i] < e[j]
  PROVE  /\ \A k \in 1..n + 1 : 2 * k - 1 \in 1..2 * n + 1 /\ Turns(n, e, p)[2 * k - 1] = e[k]
         /\ \A k \in 1..n : 2 * k \in 1..2 * n + 1 /\ Turns(n, e, p)[2 * k] = p[k]
         /\ \A i, j \in 1..2 * n + 1 : i < j => Turns(n, e, p)[i] < Turns(n, e, p)[j]
<1> DEFINE g == Turns(n, e, p)
<1>1. ASSUME NEW k \in 1..n + 1
      PROVE  2 * k - 1 \in 1..2 * n + 1 /\ g[2 * k - 1] = e[k]
  <2>1. /\ 2 * k - 1 \in 1..2 * n + 1 /\ (2 * k - 1) % 2 # 0 /\ ((2 * k - 1) + 1) \div 2 = k
    OBVIOUS
  <2> QED
    BY <2>1 DEF Turns
<1>2. ASSUME NEW k \in 1..n
      PROVE  2 * k \in 1..2 * n + 1 /\ g[2 * k] = p[k]
  <2>1. /\ 2 * k \in 1..2 * n + 1 /\ (2 * k) % 2 = 0 /\ (2 * k) \div 2 = k
    OBVIOUS
  <2> QED
    BY <2>1 DEF Turns
<1> HIDE DEF g
<1>3. /\ \A k \in 1..n + 1 : e[k] \in Nat /\ k \in Nat
      /\ \A k \in 1..n : p[k] \in Nat /\ k \in Nat /\ k + 1 \in 1..n + 1 /\ k \in 1..n + 1
  OBVIOUS
<1>4. ASSUME NEW i \in 1..2 * n + 1, NEW j \in 1..2 * n + 1, i < j
      PROVE  g[i] < g[j]
  <2>1. CASE \E k \in 1..n : i = 2 * k
    <3>1. PICK k \in 1..n : i = 2 * k
      BY <2>1
    <3>2. g[i] = p[k] /\ p[k] < e[k + 1]
      BY <1>2, <3>1
    <3>3. ASSUME NEW l \in 1..n + 1, k < l
          PROVE  p[k] < e[l]
      <4>1. k + 1 = l \/ k + 1 < l
        BY <1>3, <3>3
      <4> QED
        BY <1>3, <3>2, <4>1
    <3>4. CASE \E l \in 1..n : j = 2 * l
      <4>1. PICK l \in 1..n : j = 2 * l
        BY <3>4
      <4>2. k < l
        BY <1>3, <1>4, <3>1, <4>1
      <4>3. g[j] = p[l] /\ e[l] < p[l] /\ p[k] < e[l]
        BY <1>2, <1>3, <3>3, <4>1, <4>2
      <4> QED
        BY <1>3, <3>2, <4>3
    <3>5. CASE \E l \in 1..n + 1 : j = 2 * l - 1
      <4>1. PICK l \in 1..n + 1 : j = 2 * l - 1
        BY <3>5
      <4>2. k < l
        BY <1>3, <1>4, <3>1, <4>1
      <4> QED
        BY <1>1, <3>2, <3>3, <4>1, <4>2
    <3> QED
      BY <3>4, <3>5, Parity
  <2>2. CASE \E k \in 1..n + 1 : i = 2 * k - 1
    <3>1. PICK k \in 1..n + 1 : i = 2 * k - 1
      BY <2>2
    <3>2. g[i] = e[k]
      BY <1>1, <3>1
    <3>4. CASE \E l \in 1..n : j = 2 * l
      <4>1. PICK l \in 1..n : j = 2 * l
        BY <3>4
      <4>2. k = l \/ k < l
        BY <1>3, <1>4, <3>1, <4>1
      <4>3. e[k] <= e[l]
        BY <1>3, <4>2
      <4>4. g[j] = p[l] /\ e[l] < p[l]
        BY <1>2, <4>1
      <4> QED
        BY <1>3, <3>2, <4>3, <4>4
    <3>5. CASE \E l \in 1..n + 1 : j = 2 * l - 1
      <4>1. PICK l \in 1..n + 1 : j = 2 * l - 1
        BY <3>5
      <4>2. k < l
        BY <1>3, <1>4, <3>1, <4>1
      <4> QED
        BY <1>1, <3>2, <4>1, <4>2
    <3> QED
      BY <3>4, <3>5, Parity
  <2> QED
    BY <2>1, <2>2, Parity
<1> QED
  BY <1>1, <1>2, <1>4 DEF g

\* The fields of s are token ids, those of the list.
Listed(s, ids) ==
  /\ \A k \in DOMAIN Fields(s) : IsTokenId(Fields(s)[k])
  /\ ids = [k \in DOMAIN Fields(s) |-> Fields(s)[k][1].value]

\* Each field has one number in it.
LEMMA FieldNumbers ==
  ASSUME NEW s \in Seq(Words), NEW ids, Listed(s, ids)
  PROVE  /\ ids \in Seq(U32) /\ Len(ids) = FieldCount(s)
         /\ \A k \in 1..FieldCount(s) : \E p \in 1..Len(s) :
              /\ End(s, k) < p /\ p < End(s, k + 1)
              /\ s[p] = Number(ids[k])
              /\ \A i \in 1..Len(s) : End(s, k) < i /\ i < End(s, k + 1) /\ s[i] # Blank => i = p
<1> DEFINE n == FieldCount(s)
<1>1. Fields(s) = [k \in 1..n |-> Trim(Field(s, k))] /\ n \in Nat /\ Len(s) \in Nat
  BY FieldEnds
<1>2. \A k \in 1..n + 1 : End(s, k) \in 0..Len(s) + 1
  BY FieldEnds
<1>3. \A j, k \in 1..n + 1 : j < k => End(s, j) < End(s, k)
  BY FieldEnds
<1> HIDE DEF n
<1>4. \A k \in 1..n : IsTokenId(Trim(Field(s, k)))
  BY <1>1 DEF Listed
<1>5. ids = [k \in 1..n |-> Trim(Field(s, k))[1].value]
  BY <1>1 DEF Listed
<1>6. ASSUME NEW k \in 1..n
      PROVE  /\ ids[k] \in U32
             /\ \E p \in 1..Len(s) :
                  /\ End(s, k) < p /\ p < End(s, k + 1)
                  /\ s[p] = Number(ids[k])
                  /\ \A i \in 1..Len(s) :
                       End(s, k) < i /\ i < End(s, k + 1) /\ s[i] # Blank => i = p
  <2> DEFINE lo == End(s, k)
             hi == End(s, k + 1)
             id == Trim(Field(s, k))[1].value
  <2>1. k \in 1..n + 1 /\ k + 1 \in 1..n + 1 /\ k < k + 1
    BY <1>1
  <2>2. lo \in Nat /\ hi \in Nat /\ lo < hi /\ hi <= Len(s) + 1
    <3>1. lo \in 0..Len(s) + 1 /\ hi \in 0..Len(s) + 1 /\ lo < hi
      BY <1>2, <1>3, <2>1
    <3> HIDE DEF lo, hi
    <3> QED
      BY <1>1, <3>1
  <2>3. Field(s, k) = SubSeq(s, lo + 1, hi - 1) /\ IsTokenId(Trim(Field(s, k)))
    BY <1>4 DEF Field
  <2>4. ids[k] = id
    BY <1>5
  <2> HIDE DEF lo, hi
  <2>5. /\ id \in U32
        /\ \E p \in 1..Len(s) :
             /\ lo < p /\ p < hi
             /\ s[p] = Number(id)
             /\ \A i \in 1..Len(s) : lo < i /\ i < hi /\ s[i] # Blank => i = p
    BY <2>2, <2>3, NumberBetween
  <2> QED
    BY <2>4, <2>5 DEF lo, hi
<1>7. ids \in [1..n -> U32]
  BY <1>5, <1>6
<1>8. ids \in Seq(U32) /\ Len(ids) = n
  BY <1>1, <1>7
<1> QED
  BY <1>6, <1>8 DEF n

\* From one end of s to the other, numbers and commas take turns, and all else is blank.
TakeTurns(s, ids, turn) ==
  LET w == 2 * Len(ids) + 1 IN
  /\ \A j \in 1..w : turn[j] \in Nat
  /\ \A i, j \in 1..w : i < j => turn[i] < turn[j]
  /\ turn[1] = 0 /\ turn[w] = Len(s) + 1
  /\ \A j \in 1..w : j # 1 /\ j # w =>
       /\ turn[j] \in 1..Len(s)
       /\ s[turn[j]] = IF j % 2 = 0 THEN Number(ids[j \div 2]) ELSE Comma
  /\ \A y \in 1..Len(s) : s[y] # Blank => \E j \in 1..w : turn[j] = y

LEMMA FieldsTakeTurns ==
  ASSUME NEW s \in Seq(Words), NEW ids, Listed(s, ids)
  PROVE  ids \in Seq(U32) /\ Len(ids) >= 1 /\ \E turn : TakeTurns(s, ids, turn)
<1> DEFINE n == FieldCount(s)
           e == [k \in 1..n + 1 |-> End(s, k)]
           place(k, p) == /\ End(s, k) < p /\ p < End(s, k + 1)
                          /\ s[p] = Number(ids[k])
                          /\ \A i \in 1..Len(s) :
                               End(s, k) < i /\ i < End(s, k + 1) /\ s[i] # Blank => i = p
           pos == [k \in 1..n |-> CHOOSE p \in 1..Len(s) : place(k, p)]
           w == 2 * n + 1
           turn == Turns(n, e, pos)
<1>1. n \in Nat /\ n >= 1 /\ Len(s) \in Nat
  BY FieldEnds
<1>2. \A k \in 1..n + 1 : End(s, k) \in Ends(s) /\ End(s, k) \in 0..Len(s) + 1
  BY FieldEnds
<1>3. \A j, k \in 1..n + 1 : j < k => End(s, j) < End(s, k)
  BY FieldEnds
<1>4. \A x \in Ends(s) : \E k \in 1..n + 1 : End(s, k) = x
  BY FieldEnds
<1>5. \A y \in 1..Len(s) : y \notin Ends(s) => \E k \in 1..n : End(s, k) < y /\ y < End(s, k + 1)
  BY FieldEnds
<1>6. End(s, 1) = 0 /\ End(s, n + 1) = Len(s) + 1
  BY FieldEnds
<1>7. ids \in Seq(U32) /\ Len(ids) = n
  BY FieldNumbers
<1>8. \A k \in 1..n : \E p \in 1..Len(s) : place(k, p)
  BY FieldNumbers
<1>9. \A k \in 1..n : pos[k] \in 1..Len(s) /\ place(k, pos[k])
  <2> HIDE DEF place, n
  <2> QED
    BY <1>8
<1> HIDE DEF n
<1>10. \A k \in 1..n + 1 : e[k] = End(s, k)
  OBVIOUS
<1>11. \A k \in 1..n : k \in 1..n + 1 /\ k + 1 \in 1..n + 1 /\ k < k + 1
  BY <1>1
<1>12. \A k \in 1..n : pos[k] \in 1..Len(s) /\ e[k] < pos[k] /\ pos[k] < e[k + 1]
  <2> HIDE DEF e, pos
  <2> QED
    BY <1>9, <1>10, <1>11
<1>13. e \in [1..n + 1 -> Nat]
  BY <1>1, <1>2
<1>14. pos \in [1..n -> Nat]
  <2>1. ASSUME NEW k \in 1..n PROVE pos[k] \in Nat
    <3>1. pos[k] \in 1..Len(s)
      BY <1>12
    <3> HIDE DEF pos, n, e, place, turn, w
    <3> QED
      BY <1>1, <3>1
  <2> QED
    BY <2>1
<1>15. \A i, j \in 1..n + 1 : i < j => e[i] < e[j]
  BY <1>3, <1>10
<1> HIDE DEF e, pos, place
<1>16. \A k \in 1..n + 1 : 2 * k - 1 \in 1..w /\ turn[2 * k - 1] = e[k]
  BY <1>1, <1>12, <1>13, <1>14, <1>15, TurnsAscend
<1>17. \A k \in 1..n : 2 * k \in 1..w /\ turn[2 * k] = pos[k]
  BY <1>1, <1>12, <1>13, <1>14, <1>15, TurnsAscend
<1>18. \A i, j \in 1..w : i < j => turn[i] < turn[j]
  BY <1>1, <1>12, <1>13, <1>14, <1>15, TurnsAscend
<1> HIDE DEF turn
<1>19. ASSUME NEW j \in 1..w
       PROVE  \/ \E k \in 1..n : j = 2 * k /\ j % 2 = 0 /\ j \div 2 = k
              \/ \E k \in 1..n + 1 : j = 2 * k - 1 /\ j % 2 # 0 /\ (j + 1) \div 2 = k
  BY <1>1, Parity
<1>20. ASSUME NEW j \in 1..w
       PROVE  /\ turn[j] \in Nat
              /\ j # 1 /\ j # w =>
                   /\ turn[j] \in 1..Len(s)
                   /\ s[turn[j]] = IF j % 2 = 0 THEN Number(ids[j \div 2]) ELSE Comma
  <2>1. ASSUME NEW k \in 1..n, j = 2 * k, j % 2 = 0, j \div 2 = k
        PROVE  turn[j] \in 1..Len(s) /\ s[turn[j]] = Number(ids[j \div 2])
    <3>1. turn[j] = pos[k]
      BY <1>17, <2>1
    <3>2. s[pos[k]] = Number(ids[k]) /\ pos[k] \in 1..Len(s)
      BY <1>9 DEF place
    <3> QED
      BY <2>1, <3>1, <3>2
  <2>2. ASSUME NEW k \in 1..n + 1, j = 2 * k - 1, j % 2 # 0
        PROVE  /\ turn[j] \in Nat
               /\ j # 1 /\ j # w => turn[j] \in 1..Len(s) /\ s[turn[j]] = Comma
    <3>1. turn[j] = e[k] /\ e[k] = End(s, k)
      BY <1>10, <1>16, <2>2
    <3>2. turn[j] \in Ends(s) /\ turn[j] \in Nat
      BY <1>1, <1>2, <3>1
    <3>3. ASSUME j # 1, j # w
          PROVE  turn[j] # 0 /\ turn[j] # Len(s) + 1
      <4>1. 1 < k /\ k < n + 1 /\ 1 \in 1..n + 1 /\ n + 1 \in 1..n + 1
        BY <1>1, <2>2, <3>3
      <4>2. End(s, 1) < End(s, k) /\ End(s, k) < End(s, n + 1)
        BY <1>3, <4>1
      <4> QED
        BY <1>1, <1>6, <3>1, <3>2, <4>2
    <3> QED
      BY <3>2, <3>3 DEF Ends
  <2> QED
    BY <1>1, <1>19, <2>1, <2>2
<1>21. turn[1] = 0 /\ turn[w] = Len(s) + 1
  <2>1. 1 \in 1..n + 1 /\ n + 1 \in 1..n + 1 /\ 2 * 1 - 1 = 1 /\ 2 * (n + 1) - 1 = w
    BY <1>1
  <2>2. turn[2 * 1 - 1] = e[1] /\ turn[2 * (n + 1) - 1] = e[n + 1]
    BY <1>16, <2>1
  <2>3. e[1] = 0 /\ e[n + 1] = Len(s) + 1
    BY <1>6, <1>10, <2>1
  <2> HIDE DEF w
  <2> QED
    BY <2>1, <2>2, <2>3
<1>22. ASSUME NEW y \in 1..Len(s), s[y] # Blank
       PROVE  \E j \in 1..w : turn[j] = y
  <2>1. CASE y \in Ends(s)
    <3>1. PICK k \in 1..n + 1 : End(s, k) = y
      BY <1>4, <2>1
    <3> QED
      BY <1>10, <1>16, <3>1
  <2>2. CASE y \notin Ends(s)
    <3>1. PICK k \in 1..n : End(s, k) < y /\ y < End(s, k + 1)
      BY <1>5, <2>2
    <3>2. y = pos[k]
      BY <1>9, <1>22, <3>1 DEF place
    <3> QED
      BY <1>17, <3>2
  <2> QED
    BY <2>1, <2>2
<1>23. w = 2 * Len(ids) + 1
  BY <1>7
<1> HIDE DEF w
<1>24. TakeTurns(s, ids, turn)
  BY <1>18, <1>20, <1>21, <1>22, <1>23 DEF TakeTurns
<1> QED
  BY <1>1, <1>7, <1>24

\* The first and the last word of s that are not blank are its braces.
Braced(s, a, b) ==
  /\ a \in Inked(s) /\ b \in Inked(s) /\ a < b
  /\ s[a] = Open /\ s[b] = Close
  /\ \A i \in Inked(s) : a <= i /\ i <= b

Inner(s, a, b) == SubSeq(s, a + 1, b - 1)

LEMMA InnerOf ==
  ASSUME NEW s \in Seq(Words), NEW a, NEW b, Braced(s, a, b)
  PROVE  /\ a \in Nat /\ b \in Nat /\ 1 <= a /\ a < b /\ b <= Len(s) /\ Len(s) \in Nat
         /\ Inner(s, a, b) \in Seq(Words)
         /\ Len(Inner(s, a, b)) = b - a - 1
         /\ \A i \in 1..b - a - 1 : Inner(s, a, b)[i] = s[a + i]
<1>1. a \in Nat /\ b \in Nat /\ 1 <= a /\ a < b /\ b <= Len(s) /\ Len(s) \in Nat
  BY InkedBounds DEF Braced
<1> QED
  BY <1>1 DEF Inner

LEMMA BracedEmpty ==
  ASSUME NEW s \in Seq(Words), NEW a, NEW b, Braced(s, a, b), Trim(Inner(s, a, b)) = <<>>
  PROVE  Squeezed(s) = RenderIds(<<>>)
<1> DEFINE u == Inner(s, a, b)
<1>1. /\ a \in Nat /\ b \in Nat /\ 1 <= a /\ a < b /\ b <= Len(s) /\ Len(s) \in Nat
      /\ u \in Seq(Words) /\ Len(u) = b - a - 1
      /\ \A i \in 1..b - a - 1 : u[i] = s[a + i]
  BY InnerOf
<1> HIDE DEF u
<1>2. Inked(u) = {}
  <2> SUFFICES ASSUME Inked(u) # {} PROVE FALSE
    OBVIOUS
  <2>1. PICK c \in Inked(u), d \in Inked(u) : c <= d /\ Trim(u) = SubSeq(u, c, d)
    BY <1>1, TrimOf
  <2>2. c \in Nat /\ d \in Nat /\ 1 <= c /\ d <= Len(u)
    BY <1>1, InkedBounds
  <2>3. Len(SubSeq(u, c, d)) = d - c + 1
    BY <1>1, <2>1, <2>2
  <2>4. Len(SubSeq(u, c, d)) # 0
    BY <2>1, <2>2, <2>3
  <2>5. Len(<<>>) = 0
    OBVIOUS
  <2> QED
    BY <2>1, <2>4, <2>5 DEF u
<1>3. ASSUME NEW i \in Inked(s)
      PROVE  i = a \/ i = b
  <2>1. i \in Nat /\ a <= i /\ i <= b /\ s[i] # Blank
    BY InkedBounds DEF Braced
  <2> SUFFICES ASSUME a < i, i < b PROVE FALSE
    BY <1>1, <2>1
  <2>2. i - a \in 1..b - a - 1 /\ a + (i - a) = i
    BY <1>1, <2>1
  <2>3. u[i - a] = s[i]
    BY <1>1, <2>2
  <2> QED
    BY <1>1, <1>2, <2>1, <2>2, <2>3 DEF Inked
<1> QED
  BY <1>3, SqueezedEmpty DEF Braced

LEMMA BracedListed ==
  ASSUME NEW s \in Seq(Words), NEW a, NEW b, Braced(s, a, b),
         NEW ids, Listed(Inner(s, a, b), ids)
  PROVE  ids \in Seq(U32) /\ Squeezed(s) = RenderIds(ids)
<1> DEFINE u == Inner(s, a, b)
           w == 2 * Len(ids) + 1
<1>1. /\ a \in Nat /\ b \in Nat /\ 1 <= a /\ a < b /\ b <= Len(s) /\ Len(s) \in Nat
      /\ u \in Seq(Words) /\ Len(u) = b - a - 1
      /\ \A i \in 1..b - a - 1 : u[i] = s[a + i]
  BY InnerOf
<1> HIDE DEF u
<1>2. ids \in Seq(U32) /\ Len(ids) >= 1
  BY <1>1, FieldsTakeTurns DEF u
<1>3. PICK turn : TakeTurns(u, ids, turn)
  BY <1>1, FieldsTakeTurns DEF u
<1>4. /\ \A j \in 1..w : turn[j] \in Nat
      /\ \A i, j \in 1..w : i < j => turn[i] < turn[j]
      /\ turn[1] = 0 /\ turn[w] = Len(u) + 1
      /\ \A j \in 1..w : j # 1 /\ j # w =>
           /\ turn[j] \in 1..Len(u)
           /\ u[turn[j]] = IF j % 2 = 0 THEN Number(ids[j \div 2]) ELSE Comma
      /\ \A y \in 1..Len(u) : u[y] # Blank => \E j \in 1..w : turn[j] = y
  BY <1>3 DEF TakeTurns
<1>5. Len(ids) \in Nat /\ w \in Nat /\ w >= 3 /\ 1 \in 1..w /\ w \in 1..w
  BY <1>2
<1> HIDE DEF w
<1> DEFINE g == [j \in 1..w |-> a + turn[j]]
<1>6. \A j \in 1..w : g[j] = a + turn[j] /\ turn[j] \in Nat /\ j \in Nat
  BY <1>4, <1>5
<1>7. g[1] = a /\ g[w] = b
  <2>1. turn[1] = 0 /\ turn[w] = b - a
    BY <1>1, <1>4
  <2>2. g[1] = a + turn[1] /\ g[w] = a + turn[w]
    BY <1>5
  <2> HIDE DEF g
  <2> QED
    BY <1>1, <2>1, <2>2
<1>8. \A i, j \in 1..w : i < j => g[i] < g[j]
  <2> SUFFICES ASSUME NEW i \in 1..w, NEW j \in 1..w, i < j PROVE g[i] < g[j]
    OBVIOUS
  <2> HIDE DEF g
  <2>1. turn[i] < turn[j]
    BY <1>4
  <2> QED
    BY <1>1, <1>6, <2>1
<1> HIDE DEF g
<1>9. ASSUME NEW j \in 1..w, j # 1, j # w
      PROVE  /\ g[j] \in 1..Len(s) /\ a < g[j] /\ g[j] < b
             /\ s[g[j]] = IF j % 2 = 0 THEN Number(ids[j \div 2]) ELSE Comma
  <2>1. /\ turn[j] \in 1..Len(u)
        /\ u[turn[j]] = IF j % 2 = 0 THEN Number(ids[j \div 2]) ELSE Comma
    BY <1>4, <1>9
  <2>2. turn[j] \in 1..b - a - 1
    BY <1>1, <2>1
  <2>3. u[turn[j]] = s[a + turn[j]] /\ g[j] = a + turn[j]
    BY <1>1, <1>6, <2>2
  <2>4. g[j] \in 1..Len(s) /\ a < g[j] /\ g[j] < b
    BY <1>1, <2>2, <2>3
  <2> QED
    BY <2>1, <2>3, <2>4
<1>10. \A j \in 1..w : g[j] \in Inked(s)
  <2>1. ASSUME NEW j \in 1..w, j # 1, j # w
        PROVE  g[j] \in Inked(s)
    BY <1>9, <2>1, WordsDiffer DEF Inked
  <2> QED
    BY <1>7, <2>1 DEF Braced
<1>11. ASSUME NEW x \in Inked(s)
       PROVE  \E j \in 1..w : g[j] = x
  <2>1. x \in Nat /\ a <= x /\ x <= b /\ s[x] # Blank
    BY InkedBounds DEF Braced
  <2>2. CASE x = a \/ x = b
    BY <1>5, <1>7, <2>2
  <2>3. CASE a < x /\ x < b
    <3>1. x - a \in 1..b - a - 1 /\ a + (x - a) = x /\ x - a \in 1..Len(u)
      BY <1>1, <2>1, <2>3
    <3>2. u[x - a] = s[x]
      BY <1>1, <3>1
    <3>3. PICK j \in 1..w : turn[j] = x - a
      BY <1>4, <2>1, <3>1, <3>2
    <3> QED
      BY <1>6, <3>1, <3>3
  <2> QED
    BY <1>1, <2>1, <2>2, <2>3
<1>12. Squeezed(s) = [k \in 1..w |-> s[g[k]]]
  <2>1. Enumerates(g, w, Inked(s))
    BY <1>8, <1>10, <1>11 DEF Enumerates
  <2> QED
    BY <1>5, <2>1, SqueezedIs
<1>13. ASSUME NEW k \in 1..w
       PROVE  s[g[k]] = CASE k = 1 -> Open
                          [] k = w -> Close
                          [] k % 2 = 0 -> Number(ids[k \div 2])
                          [] OTHER -> Comma
  <2>1. CASE k = 1
    BY <1>5, <1>7, <2>1 DEF Braced
  <2>2. CASE k = w
    <3>1. w # 1 /\ w % 2 # 0
      BY <1>5 DEF w
    <3>2. g[k] = b
      BY <1>7, <2>2
    <3>3. s[g[k]] = Close
      BY <3>2 DEF Braced
    <3> HIDE DEF g
    <3> QED
      BY <2>2, <3>1, <3>3
  <2>3. CASE k # 1 /\ k # w
    BY <1>9, <2>3
  <2> QED
    BY <2>1, <2>2, <2>3
<1>14. ids # <<>>
  <2>1. Len(<<>>) = 0
    OBVIOUS
  <2>2. Len(ids) # 0
    BY <1>2
  <2> QED
    BY <2>1, <2>2, Zenon
<1>15. RenderIds(ids) = [k \in 1..w |-> CASE k = 1 -> Open
                                          [] k = w -> Close
                                          [] k % 2 = 0 -> Number(ids[k \div 2])
                                          [] OTHER -> Comma]
  BY <1>14 DEF RenderIds, w
<1> QED
  BY <1>2, <1>12, <1>13, <1>15

\* tokens.rs parse_ids: what is accepted is, but for the blanks, how render_ids writes the
\* list it stands for, and that list holds ids of 32 bits.
THEOREM ParseAccepts ==
  ASSUME NEW text \in Seq(Words), NEW ids \in ParseIds(text)
  PROVE  ids \in Seq(U32) /\ Squeezed(text) = RenderIds(ids)
<1>1. PICK a \in Inked(text), b \in Inked(text) :
        /\ Braced(text, a, b)
        /\ IF Trim(Inner(text, a, b)) = <<>> THEN ids = <<>> ELSE Listed(Inner(text, a, b), ids)
  BY ParseIdsOf DEF Braced, Inner, Listed
<1>2. CASE Trim(Inner(text, a, b)) = <<>>
  BY <1>1, <1>2, BracedEmpty
<1>3. CASE Trim(Inner(text, a, b)) # <<>>
  BY <1>1, <1>3, BracedListed
<1> QED
  BY <1>2, <1>3

LEMMA Rendered ==
  ASSUME NEW ids \in Seq(U32), ids # <<>>
  PROVE  LET n == Len(ids) r == RenderIds(ids) IN
         /\ n \in Nat /\ n >= 1
         /\ r \in Seq(Words) /\ Len(r) = 2 * n + 1
         /\ r[1] = Open /\ r[2 * n + 1] = Close
         /\ \A k \in 1..n : r[2 * k] = Number(ids[k])
         /\ \A k \in 1..n - 1 : r[2 * k + 1] = Comma
<1> DEFINE n == Len(ids)
           r == RenderIds(ids)
           w == 2 * n + 1
           word(i) == CASE i = 1 -> Open
                        [] i = w -> Close
                        [] i % 2 = 0 -> Number(ids[i \div 2])
                        [] OTHER -> Comma
<1>1. n \in Nat /\ n >= 1 /\ ids \in [1..n -> U32]
  <2>1. n \in Nat /\ ids \in [1..n -> U32]
    OBVIOUS
  <2>2. n # 0
    OBVIOUS
  <2> QED
    BY <2>1, <2>2
<1>2. w \in Nat /\ w % 2 # 0 /\ w # 1 /\ 1 \in 1..w /\ w \in 1..w
  BY <1>1
<1>3. r = [i \in 1..w |-> word(i)]
  BY DEF RenderIds
<1> HIDE DEF n, r
<1>4. ASSUME NEW k \in 1..n
      PROVE  2 * k \in 1..w /\ word(2 * k) = Number(ids[k]) /\ word(2 * k) \in Words
  <2>1. /\ 2 * k \in 1..w /\ (2 * k) % 2 = 0 /\ (2 * k) \div 2 = k
        /\ 2 * k # 1 /\ 2 * k # w
    BY <1>1
  <2>2. ids[k] \in Int
    BY <1>1, MaxU32Assumption DEF U32
  <2>3. Number(ids[k]) \in Words
    BY <2>2, WordsDiffer
  <2>4. word(2 * k) = Number(ids[k])
    <3> HIDE DEF w
    <3> QED
      BY <2>1
  <2> HIDE DEF word, w
  <2> QED
    BY <2>1, <2>3, <2>4
<1>5. ASSUME NEW k \in 1..n - 1
      PROVE  2 * k + 1 \in 1..w /\ word(2 * k + 1) = Comma
  <2>1. /\ 2 * k + 1 \in 1..w /\ (2 * k + 1) % 2 # 0
        /\ 2 * k + 1 # 1 /\ 2 * k + 1 # w
    BY <1>1
  <2>2. word(2 * k + 1) = Comma
    <3> HIDE DEF w
    <3> QED
      BY <2>1
  <2> QED
    BY <2>1, <2>2
<1>6. word(1) = Open /\ word(w) = Close
  <2> HIDE DEF w
  <2> QED
    BY <1>2
<1> HIDE DEF word
<1>7. ASSUME NEW i \in 1..w
      PROVE  word(i) \in Words
  <2>1. CASE i = 1 \/ i = w
    BY <1>6, <2>1, WordsDiffer
  <2>2. CASE \E k \in 1..n : i = 2 * k
    BY <1>4, <2>2
  <2>3. CASE \E k \in 1..n - 1 : i = 2 * k + 1
    BY <1>5, <2>3, WordsDiffer
  <2>4. \/ i = 1 \/ i = w
        \/ \E k \in 1..n : i = 2 * k
        \/ \E k \in 1..n - 1 : i = 2 * k + 1
    <3>1. CASE i % 2 = 0
      <4>1. i \div 2 \in 1..n /\ i = 2 * (i \div 2)
        BY <1>1, <3>1
      <4> QED
        BY <4>1
    <3>2. CASE i % 2 # 0 /\ i # 1 /\ i # w
      <4>1. (i - 1) \div 2 \in 1..n - 1 /\ i = 2 * ((i - 1) \div 2) + 1
        BY <1>1, <3>2
      <4> QED
        BY <4>1
    <3> QED
      BY <3>1, <3>2
  <2> QED
    BY <2>1, <2>2, <2>3, <2>4
<1>8. r \in Seq(Words) /\ Len(r) = w
  BY <1>2, <1>3, <1>7
<1>9. /\ r[1] = Open /\ r[w] = Close
      /\ \A k \in 1..n : r[2 * k] = Number(ids[k])
      /\ \A k \in 1..n - 1 : r[2 * k + 1] = Comma
  <2> HIDE DEF w
  <2> QED
    BY <1>2, <1>3, <1>4, <1>5, <1>6
<1> QED
  BY <1>1, <1>8, <1>9 DEF n, r

LEMMA RenderedInner ==
  ASSUME NEW ids \in Seq(U32), ids # <<>>
  PROVE  LET n == Len(ids) u == SubSeq(RenderIds(ids), 2, 2 * n) IN
         /\ u \in Seq(Words) /\ Len(u) = 2 * n - 1
         /\ \A k \in 1..n : u[2 * k - 1] = Number(ids[k])
         /\ \A k \in 1..n - 1 : u[2 * k] = Comma
         /\ \A i \in 1..2 * n - 1 : \/ \E k \in 1..n : i = 2 * k - 1
                                    \/ \E k \in 1..n - 1 : i = 2 * k
<1> DEFINE n == Len(ids)
           r == RenderIds(ids)
           u == SubSeq(r, 2, 2 * n)
<1>1. n \in Nat /\ n >= 1 /\ r \in Seq(Words) /\ Len(r) = 2 * n + 1
  BY Rendered
<1>2. \A k \in 1..n : r[2 * k] = Number(ids[k])
  BY Rendered
<1>3. \A k \in 1..n - 1 : r[2 * k + 1] = Comma
  BY Rendered
<1> HIDE DEF n, r
<1>4. u \in Seq(Words) /\ Len(u) = 2 * n - 1 /\ \A i \in 1..2 * n - 1 : u[i] = r[i + 1]
  BY <1>1
<1> HIDE DEF u
<1>5. ASSUME NEW k \in 1..n
      PROVE  u[2 * k - 1] = Number(ids[k])
  <2>1. 2 * k - 1 \in 1..2 * n - 1 /\ (2 * k - 1) + 1 = 2 * k
    BY <1>1
  <2> QED
    BY <1>2, <1>4, <2>1
<1>6. ASSUME NEW k \in 1..n - 1
      PROVE  u[2 * k] = Comma
  <2>1. 2 * k \in 1..2 * n - 1
    BY <1>1
  <2> QED
    BY <1>3, <1>4, <2>1
<1>7. ASSUME NEW i \in 1..2 * n - 1
      PROVE  \/ \E k \in 1..n : i = 2 * k - 1
             \/ \E k \in 1..n - 1 : i = 2 * k
  <2>1. CASE i % 2 = 0
    <3>1. i \div 2 \in 1..n - 1 /\ i = 2 * (i \div 2)
      BY <1>1, <2>1
    <3> QED
      BY <3>1
  <2>2. CASE i % 2 # 0
    <3>1. (i + 1) \div 2 \in 1..n /\ i = 2 * ((i + 1) \div 2) - 1
      BY <1>1, <2>2
    <3> QED
      BY <3>1
  <2> QED
    BY <2>1, <2>2
<1> QED
  BY <1>4, <1>5, <1>6, <1>7 DEF n, r, u

\* A list written with commas is the list of its fields.
LEMMA RenderedFields ==
  ASSUME NEW ids \in Seq(U32), ids # <<>>
  PROVE  LET u == SubSeq(RenderIds(ids), 2, 2 * Len(ids)) IN
         Trim(u) # <<>> /\ Listed(u, ids)
<1> DEFINE n == Len(ids)
           u == SubSeq(RenderIds(ids), 2, 2 * n)
           g == [k \in 1..n + 1 |-> 2 * k - 2]
<1>1. n \in Nat /\ n >= 1
  BY Rendered
<1>2. u \in Seq(Words) /\ Len(u) = 2 * n - 1
  BY RenderedInner
<1>3. \A k \in 1..n : u[2 * k - 1] = Number(ids[k])
  BY RenderedInner
<1>4. \A k \in 1..n - 1 : u[2 * k] = Comma
  BY RenderedInner
<1>5. \A i \in 1..2 * n - 1 : \/ \E k \in 1..n : i = 2 * k - 1
                              \/ \E k \in 1..n - 1 : i = 2 * k
  BY RenderedInner
<1>6. \A k \in 1..n : ids[k] \in U32
  OBVIOUS
<1>7. ids \in [1..n -> U32]
  OBVIOUS
<1> HIDE DEF n, u
<1>8. u[1] # Blank /\ u[2 * n - 1] # Blank
  <2>1. 1 \in 1..n /\ n \in 1..n /\ 2 * 1 - 1 = 1
    BY <1>1
  <2>2. u[1] = Number(ids[1]) /\ u[2 * n - 1] = Number(ids[n])
    BY <1>3, <2>1
  <2> QED
    BY <2>2, WordsDiffer
<1>9. Trim(u) # <<>>
  <2>1. Trim(u) = u
    BY <1>1, <1>2, <1>8, TrimNothing
  <2>2. Len(<<>>) = 0
    OBVIOUS
  <2>3. Len(u) # 0
    BY <1>1, <1>2
  <2> QED
    BY <2>1, <2>2, <2>3, Zenon
<1>10. \A k \in 1..n : u[2 * k - 1] # Comma
  BY <1>3, WordsDiffer
<1>11. \A k \in 1..n + 1 : g[k] = 2 * k - 2 /\ k \in Nat
  BY <1>1
<1>12. ASSUME NEW k \in 1..n + 1
       PROVE  g[k] \in Ends(u)
  <2>1. CASE k = 1
    BY <1>11, <2>1 DEF Ends
  <2>2. CASE k = n + 1
    <3>1. g[k] = Len(u) + 1
      BY <1>1, <1>2, <1>11, <2>2
    <3> QED
      BY <3>1 DEF Ends
  <2>3. CASE k # 1 /\ k # n + 1
    <3>1. k - 1 \in 1..n - 1 /\ g[k] = 2 * (k - 1) /\ 2 * (k - 1) \in 1..Len(u)
      BY <1>1, <1>2, <1>11, <2>3
    <3>2. u[g[k]] = Comma
      BY <1>4, <3>1
    <3> HIDE DEF g
    <3> QED
      BY <3>1, <3>2 DEF Ends
  <2> QED
    BY <2>1, <2>2, <2>3
<1>13. ASSUME NEW i \in 1..n + 1, NEW j \in 1..n + 1, i < j
       PROVE  g[i] < g[j]
  BY <1>1, <1>11, <1>13
<1>14. ASSUME NEW x \in Ends(u)
       PROVE  \E k \in 1..n + 1 : g[k] = x
  <2>1. CASE x = 0
    <3>1. 1 \in 1..n + 1 /\ g[1] = 0
      BY <1>1, <1>11
    <3> QED
      BY <2>1, <3>1
  <2>2. CASE x = Len(u) + 1
    <3>1. n + 1 \in 1..n + 1 /\ g[n + 1] = 2 * (n + 1) - 2
      BY <1>1, <1>11
    <3>2. 2 * (n + 1) - 2 = x
      BY <1>1, <1>2, <2>2
    <3> QED
      BY <3>1, <3>2
  <2>3. CASE x \in 1..Len(u) /\ u[x] = Comma
    <3>1. PICK k \in 1..n - 1 : x = 2 * k
      BY <1>2, <1>5, <1>10, <2>3
    <3>2. k + 1 \in 1..n + 1 /\ g[k + 1] = 2 * (k + 1) - 2 /\ 2 * (k + 1) - 2 = x
      BY <1>1, <1>11, <3>1
    <3> QED
      BY <3>2
  <2> QED
    BY <2>1, <2>2, <2>3 DEF Ends
<1> HIDE DEF g
<1>15. Cardinality(Ends(u)) = n + 1 /\ \A k \in 1..n + 1 : Nth(Ends(u), k) = g[k]
  <2> DEFINE S == Ends(u)
             m == Len(u) + 1
             l == n + 1
  <2>1. m \in Nat /\ \A x \in S : x \in Nat /\ x <= m
    BY <1>1, <1>2 DEF Ends
  <2>2. l \in Nat /\ Enumerates(g, l, S)
    BY <1>1, <1>12, <1>13, <1>14 DEF Enumerates
  <2> HIDE DEF S, m, l
  <2>3. Cardinality(S) = l /\ \A k \in 1..l : Nth(S, k) = g[k]
    BY <2>1, <2>2, NthIs
  <2> QED
    BY <2>3 DEF S, l
<1>16. FieldCount(u) = n
  BY <1>1, <1>15 DEF FieldCount
<1>17. ASSUME NEW k \in 1..n
       PROVE  Trim(Field(u, k)) = <<Number(ids[k])>>
  <2>1. End(u, k) = 2 * k - 2 /\ End(u, k + 1) = 2 * k /\ k \in Nat
    <3>1. k \in 1..n + 1 /\ k + 1 \in 1..n + 1 /\ k \in Nat
      BY <1>1
    <3>2. End(u, k) = g[k] /\ End(u, k + 1) = g[k + 1]
      BY <1>15, <3>1 DEF End
    <3>3. g[k] = 2 * k - 2 /\ g[k + 1] = 2 * (k + 1) - 2
      BY <1>11, <3>1
    <3> QED
      BY <3>1, <3>2, <3>3
  <2> DEFINE p == 2 * k - 1
             f == SubSeq(u, p, p)
  <2>2. p \in 1..Len(u)
    BY <1>1, <1>2
  <2>3. Field(u, k) = f
    <3>1. (2 * k - 2) + 1 = 2 * k - 1
      BY <2>1
    <3> QED
      BY <2>1, <3>1 DEF Field
  <2>4. f \in Seq(Words) /\ Len(f) = 1 /\ f[1] = u[p]
    <3> HIDE DEF p
    <3> QED
      BY <1>1, <1>2, <2>2
  <2> HIDE DEF f
  <2>5. f[1] = Number(ids[k])
    BY <1>3, <2>4
  <2>6. Trim(f) = f
    BY <2>4, <2>5, WordsDiffer, TrimNothing
  <2>7. f = <<Number(ids[k])>>
    BY <2>4, <2>5
  <2> QED
    BY <2>3, <2>6, <2>7
<1>18. Fields(u) = [k \in 1..n |-> Trim(Field(u, k))]
  BY <1>2, <1>16, FieldEnds
<1>19. DOMAIN Fields(u) = 1..n /\ \A k \in 1..n : Fields(u)[k] = <<Number(ids[k])>>
  BY <1>17, <1>18
<1>20. \A k \in 1..n : IsTokenId(Fields(u)[k]) /\ Fields(u)[k][1].value = ids[k]
  <2> SUFFICES ASSUME NEW k \in 1..n
               PROVE  IsTokenId(Fields(u)[k]) /\ Fields(u)[k][1].value = ids[k]
    OBVIOUS
  <2>1. Fields(u)[k] = <<Number(ids[k])>> /\ ids[k] \in U32
    BY <1>6, <1>19
  <2>2. Number(ids[k]).is = "number" /\ Number(ids[k]).value = ids[k]
    BY WordsDiffer
  <2>3. Len(<<Number(ids[k])>>) = 1 /\ <<Number(ids[k])>>[1] = Number(ids[k])
    OBVIOUS
  <2> QED
    BY <2>1, <2>2, <2>3 DEF IsTokenId
<1>21. ids = [k \in 1..n |-> Fields(u)[k][1].value]
  BY <1>7, <1>20
<1>22. Listed(u, ids)
  BY <1>19, <1>20, <1>21 DEF Listed
<1> QED
  BY <1>9, <1>22 DEF n, u

\* tokens.rs render_ids and parse_ids: what a list is written as is accepted, and stands for
\* that list and no other.
THEOREM RenderParses ==
  ASSUME NEW ids \in Seq(U32)
  PROVE  RenderIds(ids) \in Seq(Words) /\ ParseIds(RenderIds(ids)) = {ids}
<1> DEFINE r == RenderIds(ids)
<1>1. CASE ids = <<>>
  <2>1. r = <<Open, Close>>
    BY <1>1 DEF RenderIds
  <2>2. r \in Seq(Words) /\ Len(r) = 2 /\ r[1] = Open /\ r[2] = Close
    BY <2>1, WordsDiffer
  <2> HIDE DEF r
  <2>3. Trim(r) = r
    BY <2>2, WordsDiffer, TrimNothing
  <2>4. Head(r) = Open /\ Last(r) = Close
    BY <2>2 DEF Last
  <2>5. SubSeq(r, 2, Len(r) - 1) = <<>> /\ ~(Len(r) < 2)
    BY <2>2
  <2>6. Inked(<<>>) = {}
    BY DEF Inked
  <2>7. Trim(<<>>) = <<>>
    BY <2>6 DEF Trim
  <2>8. ParseIds(r) = {<<>>}
    BY <2>3, <2>4, <2>5, <2>7, Zenon DEF ParseIds
  <2> QED
    BY <1>1, <2>2, <2>8 DEF r
<1>2. CASE ids # <<>>
  <2> DEFINE n == Len(ids)
             u == SubSeq(r, 2, 2 * n)
  <2>1. /\ n \in Nat /\ n >= 1
        /\ r \in Seq(Words) /\ Len(r) = 2 * n + 1 /\ r[1] = Open /\ r[2 * n + 1] = Close
    BY <1>2, Rendered
  <2>2. Trim(u) # <<>> /\ Listed(u, ids)
    BY <1>2, RenderedFields
  <2> HIDE DEF r, n
  <2>3. Trim(r) = r
    <3>1. Len(r) >= 1 /\ r[1] # Blank /\ r[Len(r)] # Blank
      BY <2>1, WordsDiffer
    <3> QED
      BY <2>1, <3>1, TrimNothing
  <2>4. Head(r) = Open /\ Last(r) = Close
    BY <2>1 DEF Last
  <2>5. SubSeq(r, 2, Len(r) - 1) = u /\ ~(Len(r) < 2)
    <3>1. Len(r) - 1 = 2 * n /\ ~(Len(r) < 2)
      BY <2>1
    <3> QED
      BY <3>1
  <2> HIDE DEF u
  <2>6. ParseIds(r) = IF \A k \in DOMAIN Fields(u) : IsTokenId(Fields(u)[k])
                      THEN {[k \in DOMAIN Fields(u) |-> Fields(u)[k][1].value]}
                      ELSE {}
    BY <2>2, <2>3, <2>4, <2>5 DEF ParseIds
  <2>7. ParseIds(r) = {ids}
    BY <2>2, <2>6 DEF Listed
  <2> QED
    BY <2>1, <2>7 DEF r
<1> QED
  BY <1>1, <1>2

-----------------------------------------------------------------------------
(* Values.                                                                  *)

LEMMA Widths ==
  ASSUME WidthsFit
  PROVE  /\ MaxU32 \in Nat /\ MaxI32 \in Nat /\ Max24 \in Nat /\ Max16 \in Nat /\ Max8 \in Nat
         /\ Max8 < Max16 /\ Max16 < Max24 /\ Max24 <= MaxI32 /\ MaxU32 = 2 * MaxI32 + 1
         /\ \A codec \in Codecs : MaxPacked(codec) \in Nat /\ MaxPacked(codec) <= MaxU32
         /\ MaxPacked("raw24") = Max24 /\ MaxPacked("freq") = MaxU32
<1>1. /\ MaxPacked("raw8") = Max8 /\ MaxPacked("raw16") = Max16
      /\ MaxPacked("raw24") = Max24 /\ MaxPacked("freq") = MaxU32
  BY DEF MaxPacked
<1> QED
  BY <1>1, MaxU32Assumption DEF Codecs, WidthsFit

\* The integers freq packs for ids, and the condition it packs them on.
Ranks(ids, table) == [i \in 1..Len(ids) |-> Rank(table, ids[i])]
RanksFit(ids, table) == table # Nothing /\ \A i \in 1..Len(ids) : RankFits(table, ids[i])
AtMost(ids, max) == \A i \in 1..Len(ids) : ids[i] <= max

\* What encode returns.
LEMMA EncodeIs ==
  ASSUME NEW ids, NEW v, NEW size, NEW codec, NEW table, NEW w \in Encode(ids, v, size, codec, table)
  PROVE  /\ Encode(ids, v, size, codec, table) = {w}
         /\ \/ /\ codec = "freq" /\ RanksFit(ids, table)
               /\ w = Exactly(v, codec, Ranks(ids, table))
            \/ /\ codec # "freq" /\ AtMost(ids, MaxPacked(codec))
               /\ w = Exactly(v, codec, ids)
<1>1. CASE codec = "freq"
  <2>1. /\ Encode(ids, v, size, codec, table) = {Exactly(v, codec, Ranks(ids, table))}
        /\ RanksFit(ids, table)
    BY <1>1, Zenon DEF Encode, Ranks, RanksFit
  <2> QED
    BY <1>1, <2>1
<1>2. CASE codec # "freq"
  <2>1. /\ Encode(ids, v, size, codec, table) = {Exactly(v, codec, ids)}
        /\ AtMost(ids, MaxPacked(codec))
    BY <1>2, Zenon DEF Encode, AtMost
  <2> QED
    BY <1>2, <2>1
<1> QED
  BY <1>1, <1>2

LEMMA ExactlyIs ==
  ASSUME NEW v, NEW codec, NEW packed
  PROVE  LET w == Exactly(v, codec, packed) IN
         /\ w.vocab = v /\ w.codec = codec /\ w.packed = packed /\ w.form = "exact"
         /\ DOMAIN w = {"vocab", "codec", "packed", "form"}
BY DEF Exactly

\* What encode_for returns is a value that reads back as the ids it was made of.
LEMMA EncodeSound ==
  ASSUME WidthsFit, NEW ids \in Seq(U32), NEW v \in Nat \ {UNRESOLVED}, NEW size, NEW codec \in Codecs,
         NEW table, table # Nothing => IsTable(table),
         NEW w \in Encode(ids, v, size, codec, table)
  PROVE  IsValue(w) /\ Parses(w) /\ Decode(w, table) = {ids}
<1>1. /\ w.vocab = v /\ w.codec = codec /\ w.form = "exact"
      /\ DOMAIN w = {"vocab", "codec", "packed", "form"}
  BY EncodeIs, ExactlyIs
<1>2. ids \in [1..Len(ids) -> U32] /\ Len(ids) \in Nat /\ \A i \in 1..Len(ids) : ids[i] \in U32
  OBVIOUS
<1>3. CASE codec = "freq"
  <2>0. RanksFit(ids, table) /\ w.packed = Ranks(ids, table)
    BY <1>3, EncodeIs, ExactlyIs
  <2>1. /\ table # Nothing
        /\ \A i \in 1..Len(ids) : RankFits(table, ids[i])
        /\ w.packed = [i \in 1..Len(ids) |-> Rank(table, ids[i])]
    BY <2>0 DEF RanksFit, Ranks
  <2>2. \A i \in 1..Len(ids) : Rank(table, ids[i]) \in U32 /\ Token(table, Rank(table, ids[i])) = ids[i]
    BY <1>2, <2>1, RankRoundTrip
  <2>3. w.packed \in Seq(U32) /\ Len(w.packed) = Len(ids)
    BY <1>2, <2>1, <2>2
  <2>4. \A i \in 1..Len(ids) : Token(table, w.packed[i]) = ids[i]
    BY <2>1, <2>2
  <2>5. Decode(w, table) = {[i \in 1..Len(w.packed) |-> Token(table, w.packed[i])]}
    BY <1>1, <1>3, <2>1 DEF Decode
  <2>6. ids = [i \in 1..Len(w.packed) |-> Token(table, w.packed[i])]
    BY <1>2, <2>3, <2>4
  <2>7. 0..MaxPacked(w.codec) = U32
    BY <1>1, <1>3, Widths DEF U32
  <2> QED
    BY <1>1, <1>3, <2>3, <2>5, <2>6, <2>7 DEF IsValue, Parses
<1>4. CASE codec # "freq"
  <2>0. w.packed = ids /\ AtMost(ids, MaxPacked(codec))
    BY <1>4, EncodeIs, ExactlyIs
  <2>1. w.packed = ids /\ \A i \in 1..Len(ids) : ids[i] <= MaxPacked(codec)
    BY <2>0 DEF AtMost
  <2> DEFINE S == 0..MaxPacked(codec)
  <2>2. \A i \in 1..Len(ids) : ids[i] \in S
    BY <1>2, <2>1, Widths DEF U32
  <2>3. ids \in Seq(S)
    <3> HIDE DEF S
    <3> QED
      BY <1>2, <2>2
  <2>4. Decode(w, table) = {ids}
    BY <1>1, <1>4, <2>1 DEF Decode
  <2> QED
    BY <1>1, <1>4, <2>1, <2>3, <2>4 DEF IsValue, Parses
<1> QED
  BY <1>3, <1>4

\* What encode_unresolved returns.
LEMMA UnresolvedSound ==
  ASSUME WidthsFit, NEW ids \in Seq(U32), NEW w \in EncodeUnresolved(ids), NEW table
  PROVE  /\ EncodeUnresolved(ids) = {w}
         /\ w.vocab = UNRESOLVED /\ w.codec = "raw24"
         /\ IsValue(w) /\ Parses(w) /\ Decode(w, table) = {ids}
<1>1. EncodeUnresolved(ids) = {Exactly(UNRESOLVED, "raw24", ids)} /\ \A i \in 1..Len(ids) : ~(ids[i] > Max24)
  BY Zenon DEF EncodeUnresolved
<1>2. w = Exactly(UNRESOLVED, "raw24", ids)
  BY <1>1
<1>3. /\ w.vocab = UNRESOLVED /\ w.codec = "raw24" /\ w.packed = ids /\ w.form = "exact"
      /\ DOMAIN w = {"vocab", "codec", "packed", "form"}
  BY <1>2 DEF Exactly
<1>4. ids \in [1..Len(ids) -> U32] /\ Len(ids) \in Nat /\ \A i \in 1..Len(ids) : ids[i] \in U32
  OBVIOUS
<1>5. \A i \in 1..Len(ids) : ids[i] \in 0..Max24
  BY <1>1, <1>4, Widths DEF U32
<1>6. ids \in Seq(0..MaxPacked("raw24"))
  <2>1. MaxPacked("raw24") = Max24
    BY Widths
  <2> DEFINE S == 0..Max24
  <2>2. ids \in Seq(S)
    <3>1. \A i \in 1..Len(ids) : ids[i] \in S
      BY <1>5
    <3> HIDE DEF S
    <3> QED
      BY <1>4, <3>1
  <2> QED
    BY <2>1, <2>2
<1>7. UNRESOLVED \in Nat /\ "raw24" \in Codecs
  BY DEF UNRESOLVED, Codecs
<1>8. IsValue(w) /\ Parses(w)
  BY <1>3, <1>6, <1>7 DEF IsValue, Parses
<1>9. Decode(w, table) = {ids}
  BY <1>3 DEF Decode
<1> QED
  BY <1>1, <1>2, <1>3, <1>8, <1>9

\* The ids that decode returns fit a u32, and there is one list at most.
LEMMA DecodeIds ==
  ASSUME WidthsFit, NEW w, IsValue(w), NEW table, table # Nothing => IsTable(table), NEW ids \in Decode(w, table)
  PROVE  ids \in Seq(U32) /\ Decode(w, table) = {ids}
<1>1. w.codec \in Codecs /\ w.packed \in Seq(0..MaxPacked(w.codec))
  BY DEF IsValue
<1>2. MaxPacked(w.codec) \in Nat /\ MaxPacked(w.codec) <= MaxU32 /\ MaxU32 \in Nat
  BY <1>1, Widths
<1>3. w.packed \in Seq(U32)
  BY <1>1, <1>2 DEF U32
<1>4. CASE w.codec # "freq"
  BY <1>3, <1>4 DEF Decode
<1>5. CASE w.codec = "freq"
  <2>1. /\ table # Nothing
        /\ Decode(w, table) = {[i \in 1..Len(w.packed) |-> Token(table, w.packed[i])]}
    BY <1>5, Zenon DEF Decode
  <2>2. K(table) \in Nat /\ table \in Seq(U32)
    BY <2>1 DEF IsTable, K
  <2>3. ASSUME NEW rank \in U32
        PROVE  Token(table, rank) \in U32
    <3>1. rank \in Nat /\ rank <= MaxU32
      BY <1>2, <2>3 DEF U32
    <3>2. CASE rank < K(table)
      <4>1. rank + 1 \in 1..Len(table) /\ Token(table, rank) = table[rank + 1]
        BY <2>2, <3>1, <3>2 DEF Token, K
      <4> QED
        BY <2>2, <4>1
    <3>3. CASE ~(rank < K(table))
      <4>1. Token(table, rank) = rank - K(table)
        BY <3>3 DEF Token
      <4> QED
        BY <1>2, <2>2, <3>1, <3>3, <4>1 DEF U32
    <3> QED
      BY <3>2, <3>3
  <2>4. \A i \in 1..Len(w.packed) : w.packed[i] \in U32
    BY <1>3
  <2>5. [i \in 1..Len(w.packed) |-> Token(table, w.packed[i])] \in Seq(U32)
    <3>1. \A i \in 1..Len(w.packed) : Token(table, w.packed[i]) \in U32
      BY <2>3, <2>4
    <3>2. Len(w.packed) \in Nat
      BY <1>3
    <3> QED
      BY <3>1, <3>2
  <2> QED
    BY <2>1, <2>5
<1> QED
  BY <1>4, <1>5

=============================================================================
