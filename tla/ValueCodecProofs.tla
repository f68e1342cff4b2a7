--------------------------- MODULE ValueCodecProofs ---------------------------
(***************************************************************************)
(* For every number of codes in a control byte, every ranking, every list  *)
(* of ids and every payload: the extension and the client write the same   *)
(* bytes and read them as the same list, through any detour of codecs; a   *)
(* value whose length or count was damaged is refused; and of any bytes at *)
(* all, what the extension reads the client reads.                         *)
(*                                                                         *)
(* First the arithmetic, by induction: a number is its digits, a start is  *)
(* the sum of the lengths before it.  Then the layout of streamvbyte and   *)
(* the raw codecs, written and read.  The invariant is IInv: an undamaged  *)
(* value has the length its count implies and is the standard value of the *)
(* list it was made from, where every id of that has a rank.               *)
(***************************************************************************)
EXTENDS ValueCodec, OperatorProofs

-----------------------------------------------------------------------------
(* Division.                                                                 *)

\* Division leaves a remainder below the divisor.
LEMMA DivMod ==
  ASSUME NEW b \in Nat, b # 0, NEW x \in Nat
  PROVE  /\ x \div b \in Nat /\ x % b \in Nat /\ x % b < b
         /\ x = b * (x \div b) + (x % b)
OBVIOUS

\* A quotient and a remainder are what division finds.
LEMMA DivIs ==
  ASSUME NEW b \in Nat, b # 0, NEW q \in Nat, NEW r \in Nat, r < b
  PROVE  (q * b + r) \div b = q /\ (q * b + r) % b = r
OBVIOUS

\* Dividing twice is dividing by the product.
LEMMA DivDiv ==
  ASSUME NEW a \in Nat, NEW b \in Nat, a # 0, b # 0, NEW x \in Nat
  PROVE  x \div (b * a) = (x \div a) \div b
OBVIOUS

\* A number below the divisor is its own remainder.
LEMMA DivSmall ==
  ASSUME NEW b \in Nat, NEW x \in Nat, x < b
  PROVE  x \div b = 0 /\ x % b = x
OBVIOUS

\* A pair of digits is below the product of their bases.
LEMMA Times ==
  ASSUME NEW a \in Nat, NEW b \in Nat
  PROVE  /\ a * b \in Nat /\ (a # 0 /\ b # 0 => a * b # 0) /\ a * b = b * a
         /\ \A c \in Nat, d \in Nat : c < a /\ d < b => c * b + d \in Nat /\ c * b + d < a * b
OBVIOUS

-----------------------------------------------------------------------------
(* Recursion on numbers.                                                     *)

\* f goes from x by F for n steps.
Runs(f, x, F, n) == f[0] = x /\ \A k \in 1..n : f[k] = F[<<f[k - 1], k>>]

\* There is such a sequence of values for every function of the step.
LEMMA RunExists ==
  ASSUME NEW D, NEW x \in D, NEW m \in Nat, NEW F \in [D \X (1..m) -> D]
  PROVE  \E f \in [0..m -> D] : Runs(f, x, F, m)
<1> DEFINE P == {n \in Nat : n <= m => \E f \in [0..n -> D] : Runs(f, x, F, n)}
<1>1. 0 \in P
  <2> DEFINE f == [k \in 0..0 |-> x]
  <2>1. f \in [0..0 -> D] /\ Runs(f, x, F, 0)
    BY DEF Runs
  <2> QED
    BY <2>1
<1>2. ASSUME NEW n \in Nat, n \in P
      PROVE  n + 1 \in P
  <2> SUFFICES ASSUME n + 1 <= m
               PROVE  \E f \in [0..n + 1 -> D] : Runs(f, x, F, n + 1)
    OBVIOUS
  <2>1. PICK f \in [0..n -> D] : Runs(f, x, F, n)
    BY <1>2
  <2>2. n \in 0..n /\ n + 1 \in 1..m /\ f[n] \in D
    OBVIOUS
  <2>3. F[<<f[n], n + 1>>] \in D
    BY <2>2
  <2> DEFINE h == [k \in 0..n + 1 |-> IF k = n + 1 THEN F[<<f[n], n + 1>>] ELSE f[k]]
  <2>4. h \in [0..n + 1 -> D]
    BY <2>3
  <2>5. Runs(h, x, F, n + 1)
    <3>1. h[0] = x
      BY <2>1 DEF Runs
    <3>2. ASSUME NEW k \in 1..n + 1
          PROVE  h[k] = F[<<h[k - 1], k>>]
      <4>1. CASE k = n + 1
        <5>1. k - 1 = n /\ n \in 0..n + 1 /\ n # n + 1
          BY <4>1
        <5>2. h[n] = f[n] /\ h[n + 1] = F[<<f[n], n + 1>>]
          BY <5>1
        <5> QED
          BY <4>1, <5>1, <5>2
      <4>2. CASE k # n + 1
        <5>1. k \in 1..n /\ k - 1 \in 0..n /\ k - 1 # n + 1
          BY <4>2
        <5>2. h[k] = f[k] /\ h[k - 1] = f[k - 1]
          BY <5>1
        <5> QED
          BY <2>1, <5>1, <5>2 DEF Runs
      <4> QED
        BY <4>1, <4>2
    <3> QED
      BY <3>1, <3>2 DEF Runs
  <2> QED
    BY <2>4, <2>5
<1> HIDE DEF P
<1>3. Nat \subseteq P
  BY <1>1, <1>2, NatSetInduction
<1> QED
  BY <1>3 DEF P

\* There is only one.
LEMMA RunAgrees ==
  ASSUME NEW x, NEW F, NEW n \in Nat, NEW f, NEW g, Runs(f, x, F, n), Runs(g, x, F, n)
  PROVE  \A k \in 0..n : f[k] = g[k]
<1> DEFINE P == {k \in Nat : k <= n => f[k] = g[k]}
<1>1. 0 \in P
  BY DEF Runs
<1>2. ASSUME NEW k \in Nat, k \in P
      PROVE  k + 1 \in P
  <2> SUFFICES ASSUME k + 1 <= n PROVE f[k + 1] = g[k + 1]
    OBVIOUS
  <2>1. k + 1 \in 1..n /\ (k + 1) - 1 = k /\ f[k] = g[k]
    BY <1>2
  <2>2. f[k + 1] = F[<<f[(k + 1) - 1], k + 1>>]
    BY <2>1 DEF Runs
  <2>3. g[k + 1] = F[<<g[(k + 1) - 1], k + 1>>]
    BY <2>1 DEF Runs
  <2> QED
    BY <2>1, <2>2, <2>3
<1> HIDE DEF P
<1>3. Nat \subseteq P
  BY <1>1, <1>2, NatSetInduction
<1> QED
  BY <1>3 DEF P

-----------------------------------------------------------------------------
(* Powers.                                                                   *)

\* The recursive function of Power exists.
LEMMA PowerExists ==
  ASSUME NEW b \in Nat, NEW m \in Nat
  PROVE  \E f : f = [k \in 0..m |-> IF k = 0 THEN 1 ELSE b * f[k - 1]]
<1> DEFINE F == [d \in Nat \X (1..m) |-> b * d[1]]
<1>1. F \in [Nat \X (1..m) -> Nat]
  OBVIOUS
<1>2. \A x \in Nat, k \in 1..m : F[<<x, k>>] = b * x
  OBVIOUS
<1> HIDE DEF F
<1>3. PICK f \in [0..m -> Nat] : Runs(f, 1, F, m)
  BY <1>1, RunExists
<1>4. ASSUME NEW k \in 0..m
      PROVE  f[k] = IF k = 0 THEN 1 ELSE b * f[k - 1]
  <2>1. k # 0 => k \in 1..m /\ k - 1 \in 0..m /\ f[k - 1] \in Nat
    OBVIOUS
  <2> QED
    BY <1>2, <1>3, <2>1 DEF Runs
<1> QED
  BY <1>3, <1>4

\* Power's function, up to m.
Powers(b, m, f) == f[0] = 1 /\ \A k \in 1..m : f[k] = b * f[k - 1]

\* Power is a value of it.
LEMMA PowerIs ==
  ASSUME NEW b \in Nat, NEW m \in Nat
  PROVE  \E f \in [0..m -> Nat] : Powers(b, m, f) /\ Power(b, m) = f[m]
<1> DEFINE Eq(f) == f = [k \in 0..m |-> IF k = 0 THEN 1 ELSE b * f[k - 1]]
           g == CHOOSE f : Eq(f)
<1>1. Eq(g)
  BY PowerExists
<1>2. Power(b, m) = g[m]
  BY DEF Power
<1> HIDE DEF g
<1>0. \A k \in 0..m : g[k] = IF k = 0 THEN 1 ELSE b * g[k - 1]
  BY <1>1
<1>3. g[0] = 1
  <2>1. 0 \in 0..m
    OBVIOUS
  <2> QED
    BY <1>0, <2>1
<1>4. ASSUME NEW k \in 1..m
      PROVE  g[k] = b * g[k - 1]
  <2>1. k \in 0..m /\ k # 0
    OBVIOUS
  <2> QED
    BY <1>0, <2>1
<1> DEFINE P == {k \in Nat : k <= m => g[k] \in Nat}
<1>5. 0 \in P
  BY <1>3
<1>6. ASSUME NEW k \in Nat, k \in P
      PROVE  k + 1 \in P
  <2> SUFFICES ASSUME k + 1 <= m PROVE g[k + 1] \in Nat
    OBVIOUS
  <2>1. k + 1 \in 1..m /\ (k + 1) - 1 = k /\ g[k] \in Nat
    BY <1>6
  <2>2. g[k + 1] = b * g[k]
    BY <1>4, <2>1
  <2> QED
    BY <2>1, <2>2
<1> HIDE DEF P
<1>7. Nat \subseteq P
  BY <1>5, <1>6, NatSetInduction
<1>8. g \in [0..m -> Nat]
  <2>1. \A k \in 0..m : g[k] \in Nat
    BY <1>7 DEF P
  <2>2. g = [k \in 0..m |-> g[k]]
    BY <1>1
  <2> HIDE DEF Eq
  <2> QED
    BY <2>1, <2>2
<1> QED
  BY <1>2, <1>3, <1>4, <1>8 DEF Powers

\* The powers begin at 1 ...
LEMMA PowerZero == \A b \in Nat : Power(b, 0) = 1
BY PowerIs DEF Powers

\* ... and each is the base times the one before.
LEMMA PowerNext ==
  ASSUME NEW b \in Nat, NEW m \in Nat
  PROVE  Power(b, m) \in Nat /\ Power(b, m + 1) = b * Power(b, m)
<1>1. PICK f \in [0..m -> Nat] : Powers(b, m, f) /\ Power(b, m) = f[m]
  BY PowerIs
<1>2. m + 1 \in Nat /\ m \in 0..m
  OBVIOUS
<1>3. PICK g \in [0..m + 1 -> Nat] : Powers(b, m + 1, g) /\ Power(b, m + 1) = g[m + 1]
  BY <1>2, PowerIs
<1> DEFINE F == [d \in Nat \X (1..m) |-> b * d[1]]
<1>4. \A x \in Nat, k \in 1..m : F[<<x, k>>] = b * x
  OBVIOUS
<1> HIDE DEF F
<1>5. Runs(f, 1, F, m)
  <2>1. \A k \in 1..m : k - 1 \in 0..m /\ f[k - 1] \in Nat
    OBVIOUS
  <2> QED
    BY <1>1, <1>4, <2>1 DEF Runs, Powers
<1>6. Runs(g, 1, F, m)
  <2>1. \A k \in 1..m : k \in 1..m + 1 /\ k - 1 \in 0..m + 1 /\ g[k - 1] \in Nat
    OBVIOUS
  <2> QED
    BY <1>3, <1>4, <2>1 DEF Runs, Powers
<1>7. f[m] = g[m]
  BY <1>2, <1>5, <1>6, RunAgrees
<1>8. g[m + 1] = b * g[m]
  <2>1. m + 1 \in 1..m + 1 /\ (m + 1) - 1 = m
    OBVIOUS
  <2> QED
    BY <1>3, <2>1 DEF Powers
<1> QED
  BY <1>1, <1>2, <1>3, <1>7, <1>8

\* The powers are positive and the first four are products.
LEMMA PowersSmall ==
  ASSUME NEW b \in Nat
  PROVE  /\ Power(b, 0) = 1 /\ Power(b, 1) = b /\ Power(b, 2) = b * b
         /\ Power(b, 3) = b * (b * b) /\ Power(b, 4) = b * (b * (b * b))
<1>1. 0 + 1 = 1 /\ 1 + 1 = 2 /\ 2 + 1 = 3 /\ 3 + 1 = 4
  OBVIOUS
<1>2. Power(b, 0) = 1
  BY PowerZero
<1>3. Power(b, 1) = b * 1
  BY <1>1, <1>2, PowerNext
<1>4. Power(b, 2) = b * Power(b, 1) /\ Power(b, 3) = b * Power(b, 2)
      /\ Power(b, 4) = b * Power(b, 3)
  BY <1>1, PowerNext
<1> QED
  BY <1>2, <1>3, <1>4

\* No power of a positive base is 0.
LEMMA PowerPositive ==
  ASSUME NEW b \in Nat, b # 0
  PROVE  \A m \in Nat : Power(b, m) \in Nat /\ Power(b, m) # 0
<1> DEFINE P == {m \in Nat : Power(b, m) # 0}
<1>1. 0 \in P
  BY PowerZero
<1>2. ASSUME NEW m \in Nat, m \in P
      PROVE  m + 1 \in P
  <2>1. Power(b, m) \in Nat /\ Power(b, m) # 0
    BY <1>2, PowerNext
  <2>2. b * Power(b, m) # 0
    BY <2>1, Times
  <2> QED
    BY <2>2, PowerNext
<1> HIDE DEF P
<1>3. Nat \subseteq P
  BY <1>1, <1>2, NatSetInduction
<1> QED
  BY <1>3, PowerNext DEF P

-----------------------------------------------------------------------------
(* Sums.                                                                     *)

\* Sums of a sequence of naturals, up to m.
Sums(lens, m, f) == f[0] = 0 /\ \A k \in 1..m : f[k] = f[k - 1] + lens[k]

\* The recursive function of Start exists.
LEMMA SumExists ==
  ASSUME NEW lens \in Seq(Nat), NEW m, m = Len(lens)
  PROVE  \E f : f = [k \in 0..m |-> IF k = 0 THEN 0 ELSE f[k - 1] + lens[k]]
<1> DEFINE F == [d \in Nat \X (1..m) |-> d[1] + lens[d[2]]]
<1>0. m \in Nat /\ \A k \in 1..m : lens[k] \in Nat
  OBVIOUS
<1>1. F \in [Nat \X (1..m) -> Nat]
  BY <1>0
<1>2. \A x \in Nat, k \in 1..m : F[<<x, k>>] = x + lens[k]
  OBVIOUS
<1> HIDE DEF F
<1>3. PICK f \in [0..m -> Nat] : Runs(f, 0, F, m)
  BY <1>0, <1>1, RunExists
<1>4. ASSUME NEW k \in 0..m
      PROVE  f[k] = IF k = 0 THEN 0 ELSE f[k - 1] + lens[k]
  <2>0. k # 0 => k \in 1..m /\ k - 1 \in 0..m
    BY <1>0
  <2>1. k # 0 => k \in 1..m /\ k - 1 \in 0..m /\ f[k - 1] \in Nat
    BY <2>0
  <2> QED
    BY <1>2, <1>3, <2>1 DEF Runs
<1> DEFINE G == [k \in 0..m |-> IF k = 0 THEN 0 ELSE f[k - 1] + lens[k]]
<1>5. f = [k \in 0..m |-> f[k]]
  OBVIOUS
<1>6. f = G
  BY <1>4, <1>5
<1> QED
  BY <1>6

\* Start is a value of it.
LEMMA StartIs ==
  ASSUME NEW lens \in Seq(Nat)
  PROVE  \E f \in [0..Len(lens) -> Nat] :
           /\ Sums(lens, Len(lens), f)
           /\ \A i \in 1..Len(lens) + 1 : Start(lens, i) = f[i - 1]
<1> DEFINE m == Len(lens)
           Eq(f) == f = [k \in 0..Len(lens) |-> IF k = 0 THEN 0 ELSE f[k - 1] + lens[k]]
           g == CHOOSE f : Eq(f)
<1>0. m \in Nat /\ \A k \in 1..m : lens[k] \in Nat
  OBVIOUS
<1>1. Eq(g)
  BY SumExists
<1>2. \A i : Start(lens, i) = g[i - 1]
  BY DEF Start
<1> HIDE DEF g
<1>3. \A k \in 0..m : g[k] = IF k = 0 THEN 0 ELSE g[k - 1] + lens[k]
  BY <1>1
<1>4. g[0] = 0
  <2>1. 0 \in 0..m
    BY <1>0
  <2> QED
    BY <1>3, <2>1
<1>5. ASSUME NEW k \in 1..m
      PROVE  g[k] = g[k - 1] + lens[k]
  <2>1. k \in 0..m /\ k # 0
    BY <1>0
  <2> QED
    BY <1>3, <2>1
<1> DEFINE P == {k \in Nat : k <= m => g[k] \in Nat}
<1>6. 0 \in P
  BY <1>4
<1>7. ASSUME NEW k \in Nat, k \in P
      PROVE  k + 1 \in P
  <2> SUFFICES ASSUME k + 1 <= m PROVE g[k + 1] \in Nat
    OBVIOUS
  <2>1. k + 1 \in 1..m /\ (k + 1) - 1 = k /\ g[k] \in Nat
    BY <1>0, <1>7
  <2>2. g[k + 1] = g[k] + lens[k + 1]
    BY <1>5, <2>1
  <2>3. lens[k + 1] \in Nat
    BY <1>0, <2>1
  <2> QED
    BY <2>1, <2>2, <2>3
<1> HIDE DEF P
<1>8. Nat \subseteq P
  BY <1>6, <1>7, NatSetInduction
<1>9. g \in [0..m -> Nat]
  <2>1. \A k \in 0..m : g[k] \in Nat
    BY <1>0, <1>8 DEF P
  <2>2. g = [k \in 0..m |-> g[k]]
    BY <1>1
  <2> HIDE DEF Eq, m
  <2> QED
    BY <2>1, <2>2
<1> QED
  BY <1>2, <1>4, <1>5, <1>9 DEF Sums

\* The first integer starts at 0, each next one after the length of the one before.
LEMMA StartNext ==
  ASSUME NEW lens \in Seq(Nat)
  PROVE  /\ Start(lens, 1) = 0
         /\ \A i \in 1..Len(lens) + 1 : Start(lens, i) \in Nat
         /\ \A i \in 1..Len(lens) : Start(lens, i + 1) = Start(lens, i) + lens[i]
<1> DEFINE m == Len(lens)
<1>0. m \in Nat
  OBVIOUS
<1>1. PICK f \in [0..m -> Nat] :
        Sums(lens, m, f) /\ \A i \in 1..m + 1 : Start(lens, i) = f[i - 1]
  BY StartIs
<1> HIDE DEF m
<1>2. Start(lens, 1) = 0
  <2>1. 1 \in 1..m + 1 /\ 1 - 1 = 0
    BY <1>0
  <2> QED
    BY <1>1, <2>1 DEF Sums
<1>3. \A i \in 1..m + 1 : Start(lens, i) \in Nat
  <2>1. \A i \in 1..m + 1 : i - 1 \in 0..m
    BY <1>0
  <2> QED
    BY <1>1, <2>1
<1>4. ASSUME NEW i \in 1..m
      PROVE  Start(lens, i + 1) = Start(lens, i) + lens[i]
  <2>1. i \in 1..m + 1 /\ i + 1 \in 1..m + 1 /\ (i + 1) - 1 = i
    BY <1>0
  <2>2. Start(lens, i + 1) = f[i] /\ Start(lens, i) = f[i - 1]
    BY <1>1, <2>1
  <2> QED
    BY <1>1, <2>2 DEF Sums
<1> QED
  BY <1>2, <1>3, <1>4 DEF m

\* Lengths that agree up to m put the integers up to m at the same places.
LEMMA StartAgrees ==
  ASSUME NEW lens \in Seq(Nat), NEW other \in Seq(Nat), NEW m \in Nat,
         m <= Len(lens), m <= Len(other), \A i \in 1..m : lens[i] = other[i]
  PROVE  \A i \in 1..m + 1 : Start(lens, i) = Start(other, i)
<1> DEFINE P == {n \in Nat : n <= m => Start(lens, n + 1) = Start(other, n + 1)}
<1>1. 0 \in P
  <2>1. 0 + 1 = 1
    OBVIOUS
  <2> QED
    BY <2>1, StartNext
<1>2. ASSUME NEW n \in Nat, n \in P
      PROVE  n + 1 \in P
  <2> SUFFICES ASSUME n + 1 <= m PROVE Start(lens, (n + 1) + 1) = Start(other, (n + 1) + 1)
    OBVIOUS
  <2>1. n + 1 \in 1..m /\ n + 1 \in 1..Len(lens) /\ n + 1 \in 1..Len(other)
    OBVIOUS
  <2>2. Start(lens, n + 1) = Start(other, n + 1)
    BY <1>2
  <2>3. Start(lens, (n + 1) + 1) = Start(lens, n + 1) + lens[n + 1]
    BY <2>1, StartNext
  <2>4. Start(other, (n + 1) + 1) = Start(other, n + 1) + other[n + 1]
    BY <2>1, StartNext
  <2> QED
    BY <2>1, <2>2, <2>3, <2>4
<1> HIDE DEF P
<1>3. Nat \subseteq P
  BY <1>1, <1>2, NatSetInduction
<1>4. \A i \in 1..m + 1 : i - 1 \in Nat /\ i - 1 <= m /\ (i - 1) + 1 = i
  OBVIOUS
<1> QED
  BY <1>3, <1>4 DEF P

\* Lengths of 1 and more: further integers start later.
LEMMA StartGrows ==
  ASSUME NEW lens \in Seq(Nat), \A i \in 1..Len(lens) : lens[i] # 0, NEW m \in 1..Len(lens) + 1
  PROVE  \A i \in 1..Len(lens) + 1 : m < i => Start(lens, m) < Start(lens, i)
<1> DEFINE P == {n \in Nat : m < n + 1 /\ n <= Len(lens) => Start(lens, m) < Start(lens, n + 1)}
<1>0. Start(lens, m) \in Nat /\ Len(lens) \in Nat
  BY StartNext
<1>1. 0 \in P
  OBVIOUS
<1>2. ASSUME NEW n \in Nat, n \in P
      PROVE  n + 1 \in P
  <2> SUFFICES ASSUME m < (n + 1) + 1, n + 1 <= Len(lens)
               PROVE  Start(lens, m) < Start(lens, (n + 1) + 1)
    OBVIOUS
  <2>1. n + 1 \in 1..Len(lens) /\ n + 1 \in 1..Len(lens) + 1
    OBVIOUS
  <2>2. lens[n + 1] \in Nat /\ lens[n + 1] # 0
    BY <2>1
  <2>3. Start(lens, (n + 1) + 1) = Start(lens, n + 1) + lens[n + 1] /\ Start(lens, n + 1) \in Nat
    BY <2>1, StartNext
  <2>4. m = n + 1 \/ Start(lens, m) < Start(lens, n + 1)
    BY <1>2
  <2> QED
    BY <1>0, <2>2, <2>3, <2>4
<1> HIDE DEF P
<1>3. Nat \subseteq P
  BY <1>1, <1>2, NatSetInduction
<1>4. \A i \in 1..Len(lens) + 1 : i - 1 \in Nat /\ i - 1 <= Len(lens) /\ (i - 1) + 1 = i
  BY <1>0
<1> QED
  BY <1>3, <1>4 DEF P

-----------------------------------------------------------------------------
(* Digits.                                                                   *)

\* The function of OfDigits: the values of the digits from the most significant on.
Values(ds, b, n, f) == f[0] = 0 /\ \A k \in 1..n : f[k] = f[k - 1] * b + ds[n - k + 1]

\* The recursive function of OfDigits exists.
LEMMA ValuesExist ==
  ASSUME NEW b \in Nat, NEW ds \in Seq(Nat), NEW n, n = Len(ds)
  PROVE  \E f : f = [k \in 0..n |-> IF k = 0 THEN 0 ELSE f[k - 1] * b + ds[n - k + 1]]
<1> DEFINE F == [d \in Nat \X (1..n) |-> d[1] * b + ds[n - d[2] + 1]]
<1>0. n \in Nat /\ \A k \in 1..n : ds[n - k + 1] \in Nat
  <2>1. n \in Nat /\ \A k \in 1..n : ds[k] \in Nat
    OBVIOUS
  <2>2. \A k \in 1..n : n - k + 1 \in 1..n
    BY <2>1
  <2> QED
    BY <2>1, <2>2
<1>1. F \in [Nat \X (1..n) -> Nat]
  <2>1. \A d \in Nat \X (1..n) : d[1] \in Nat /\ d[2] \in 1..n
    OBVIOUS
  <2>2. \A d \in Nat \X (1..n) : d[1] * b \in Nat /\ ds[n - d[2] + 1] \in Nat
    BY <1>0, <2>1, Times
  <2>3. \A d \in Nat \X (1..n) : d[1] * b + ds[n - d[2] + 1] \in Nat
    BY <2>2
  <2> QED
    BY <2>3
<1>2. \A x \in Nat, k \in 1..n : F[<<x, k>>] = x * b + ds[n - k + 1]
  OBVIOUS
<1> HIDE DEF F
<1>3. PICK f \in [0..n -> Nat] : Runs(f, 0, F, n)
  BY <1>0, <1>1, RunExists
<1>4. ASSUME NEW k \in 0..n
      PROVE  f[k] = IF k = 0 THEN 0 ELSE f[k - 1] * b + ds[n - k + 1]
  <2>0. k # 0 => k \in 1..n /\ k - 1 \in 0..n
    BY <1>0
  <2>1. k # 0 => k \in 1..n /\ k - 1 \in 0..n /\ f[k - 1] \in Nat
    BY <2>0
  <2> QED
    BY <1>2, <1>3, <2>1 DEF Runs
<1> DEFINE G == [k \in 0..n |-> IF k = 0 THEN 0 ELSE f[k - 1] * b + ds[n - k + 1]]
<1>5. f = [k \in 0..n |-> f[k]]
  OBVIOUS
<1>6. f = G
  BY <1>4, <1>5
<1> QED
  BY <1>6

\* OfDigits is a value of it.
LEMMA OfDigitsIs ==
  ASSUME NEW b \in Nat, NEW ds \in Seq(Nat), NEW n, n = Len(ds)
  PROVE  \E f \in [0..n -> Nat] : Values(ds, b, n, f) /\ OfDigits(ds, b) = f[n]
<1> DEFINE Eq(f) == f = [k \in 0..Len(ds) |->
                           IF k = 0 THEN 0 ELSE f[k - 1] * b + ds[Len(ds) - k + 1]]
           g == CHOOSE f : Eq(f)
<1>0. n \in Nat /\ \A k \in 1..n : ds[n - k + 1] \in Nat
  <2>1. n \in Nat /\ \A k \in 1..n : ds[k] \in Nat
    OBVIOUS
  <2>2. \A k \in 1..n : n - k + 1 \in 1..n
    BY <2>1
  <2> QED
    BY <2>1, <2>2
<1>1. Eq(g)
  BY ValuesExist
<1>2. OfDigits(ds, b) = g[n]
  BY DEF OfDigits
<1> HIDE DEF g
<1>3. \A k \in 0..n : g[k] = IF k = 0 THEN 0 ELSE g[k - 1] * b + ds[n - k + 1]
  BY <1>1
<1>4. g[0] = 0
  <2>1. 0 \in 0..n
    BY <1>0
  <2> QED
    BY <1>3, <2>1
<1>5. ASSUME NEW k \in 1..n
      PROVE  g[k] = g[k - 1] * b + ds[n - k + 1]
  <2>1. k \in 0..n /\ k # 0
    BY <1>0
  <2> QED
    BY <1>3, <2>1
<1> DEFINE P == {k \in Nat : k <= n => g[k] \in Nat}
<1>6. 0 \in P
  BY <1>4
<1>7. ASSUME NEW k \in Nat, k \in P
      PROVE  k + 1 \in P
  <2> SUFFICES ASSUME k + 1 <= n PROVE g[k + 1] \in Nat
    OBVIOUS
  <2>1. k + 1 \in 1..n /\ (k + 1) - 1 = k /\ g[k] \in Nat
    BY <1>0, <1>7
  <2>2. g[k + 1] = g[k] * b + ds[n - (k + 1) + 1]
    BY <1>5, <2>1
  <2>3. ds[n - (k + 1) + 1] \in Nat
    BY <1>0, <2>1
  <2>4. g[k] * b \in Nat
    BY <2>1, Times
  <2> QED
    BY <2>2, <2>3, <2>4
<1> HIDE DEF P
<1>8. Nat \subseteq P
  BY <1>6, <1>7, NatSetInduction
<1>9. g \in [0..n -> Nat]
  <2>1. \A k \in 0..n : g[k] \in Nat
    BY <1>0, <1>8 DEF P
  <2>2. g = [k \in 0..n |-> g[k]]
    BY <1>1
  <2> HIDE DEF Eq
  <2> QED
    BY <2>1, <2>2
<1> QED
  BY <1>2, <1>4, <1>5, <1>9 DEF Values

\* Digits below b are a number below b ^ n.
LEMMA OfDigitsBelow ==
  ASSUME NEW b \in Nat, b # 0, NEW ds \in Seq(0..b - 1)
  PROVE  OfDigits(ds, b) \in Nat /\ OfDigits(ds, b) < Power(b, Len(ds))
<1> DEFINE n == Len(ds)
<1>0. n \in Nat /\ ds \in Seq(Nat) /\ \A k \in 1..n : ds[k] \in Nat /\ ds[k] < b
  OBVIOUS
<1>1. PICK f \in [0..n -> Nat] : Values(ds, b, n, f) /\ OfDigits(ds, b) = f[n]
  BY <1>0, OfDigitsIs
<1> HIDE DEF n
<1> DEFINE P == {k \in Nat : k <= n => f[k] < Power(b, k)}
<1>2. 0 \in P
  BY <1>1, PowerZero DEF Values
<1>3. ASSUME NEW k \in Nat, k \in P
      PROVE  k + 1 \in P
  <2> SUFFICES ASSUME k + 1 <= n PROVE f[k + 1] < Power(b, k + 1)
    OBVIOUS
  <2>1. k + 1 \in 1..n /\ (k + 1) - 1 = k /\ f[k] \in Nat /\ f[k] < Power(b, k)
        /\ n - (k + 1) + 1 \in 1..n
    BY <1>0, <1>3
  <2> DEFINE d == ds[n - (k + 1) + 1]
  <2>2. f[k + 1] = f[k] * b + d
    BY <1>1, <2>1 DEF Values
  <2>3. d \in Nat /\ d < b
    BY <1>0, <2>1
  <2>4. Power(b, k) \in Nat /\ Power(b, k + 1) = b * Power(b, k)
    BY PowerNext
  <2> HIDE DEF d
  <2>5. f[k] * b + d < Power(b, k) * b /\ Power(b, k) * b = b * Power(b, k)
    BY <2>1, <2>3, <2>4, Times
  <2> QED
    BY <2>2, <2>4, <2>5
<1> HIDE DEF P
<1>4. Nat \subseteq P
  BY <1>2, <1>3, NatSetInduction
<1> QED
  BY <1>0, <1>1, <1>4 DEF P, n

\* The digits of x, and back.
LEMMA OfDigitsOf ==
  ASSUME NEW b \in Nat, b # 0, NEW n \in Nat, NEW x \in Nat, x < Power(b, n), NEW ds,
         ds = [i \in 1..n |-> (x \div Power(b, i - 1)) % b]
  PROVE  OfDigits(ds, b) = x
<1>1. \A i \in 1..n : i - 1 \in Nat
  OBVIOUS
<1>2. \A i \in 1..n : Power(b, i - 1) \in Nat /\ Power(b, i - 1) # 0
  BY <1>1, PowerPositive
<1>3. \A i \in 1..n : (x \div Power(b, i - 1)) % b \in Nat
  BY <1>2, DivMod
<1>4. ds \in Seq(Nat) /\ Len(ds) = n
  BY <1>3
<1>5. PICK f \in [0..n -> Nat] : Values(ds, b, n, f) /\ OfDigits(ds, b) = f[n]
  BY <1>4, OfDigitsIs
<1> DEFINE P == {k \in Nat : k <= n => f[k] = x \div Power(b, n - k)}
<1>6. 0 \in P
  <2>1. Power(b, n) \in Nat /\ n - 0 = n
    BY PowerNext
  <2>2. x \div Power(b, n) = 0
    BY <2>1, DivSmall
  <2> QED
    BY <1>5, <2>1, <2>2 DEF Values
<1>7. ASSUME NEW k \in Nat, k \in P
      PROVE  k + 1 \in P
  <2> SUFFICES ASSUME k + 1 <= n PROVE f[k + 1] = x \div Power(b, n - (k + 1))
    OBVIOUS
  <2> DEFINE m == n - (k + 1)
             q == Power(b, m)
  <2>1. k + 1 \in 1..n /\ (k + 1) - 1 = k /\ m \in Nat /\ n - k = m + 1
        /\ m + 1 \in 1..n /\ (m + 1) - 1 = m
    OBVIOUS
  <2>2. f[k + 1] = f[k] * b + ds[m + 1]
    BY <1>5, <2>1 DEF Values
  <2>3. ds[m + 1] = (x \div q) % b
    BY <2>1
  <2>4. f[k] = x \div Power(b, m + 1)
    BY <1>7, <2>1
  <2> HIDE DEF m
  <2>5. q \in Nat /\ q # 0 /\ Power(b, m + 1) = b * q
    BY <2>1, PowerNext, PowerPositive
  <2> HIDE DEF q
  <2>6. x \div (b * q) = (x \div q) \div b
    BY <2>5, DivDiv
  <2>7. x \div q \in Nat
    BY <2>5, DivMod
  <2>8. x \div q = b * ((x \div q) \div b) + ((x \div q) % b) /\ (x \div q) \div b \in Nat
    BY <2>7, DivMod
  <2>9. b * ((x \div q) \div b) = ((x \div q) \div b) * b
    BY <2>8, Times
  <2>10. f[k + 1] = x \div q
    BY <2>2, <2>3, <2>4, <2>5, <2>6, <2>8, <2>9
  <2> QED
    BY <2>10 DEF q, m
<1> HIDE DEF P
<1>8. Nat \subseteq P
  BY <1>6, <1>7, NatSetInduction
<1>9. f[n] = x \div Power(b, n - n)
  BY <1>8 DEF P
<1>10. n - n = 0 /\ x \div 1 = x
  OBVIOUS
<1> QED
  BY <1>5, <1>9, <1>10, PowerZero

\* Each digit is found again in the number.
LEMMA DigitOf ==
  ASSUME NEW b \in Nat, b # 0, NEW ds \in Seq(0..b - 1), NEW j \in 1..Len(ds)
  PROVE  (OfDigits(ds, b) \div Power(b, j - 1)) % b = ds[j]
<1> DEFINE n == Len(ds)
           x == OfDigits(ds, b)
<1>0. n \in Nat /\ ds \in Seq(Nat) /\ \A k \in 1..n : ds[k] \in Nat /\ ds[k] < b
  OBVIOUS
<1>1. PICK f \in [0..n -> Nat] : Values(ds, b, n, f) /\ x = f[n]
  BY <1>0, OfDigitsIs
<1>2. j \in Nat /\ 1 <= j /\ j <= n
  BY <1>0
<1> HIDE DEF n, x
<1>3. ASSUME NEW k \in 1..n
      PROVE  f[k] \div b = f[k - 1] /\ f[k] % b = ds[n - k + 1]
  <2>1. k - 1 \in 0..n /\ n - k + 1 \in 1..n
    BY <1>0
  <2>2. f[k - 1] \in Nat /\ ds[n - k + 1] \in Nat /\ ds[n - k + 1] < b
    BY <1>0, <2>1
  <2>3. f[k] = f[k - 1] * b + ds[n - k + 1]
    BY <1>1 DEF Values
  <2> DEFINE q == f[k - 1]
             r == ds[n - k + 1]
  <2>4. q \in Nat /\ r \in Nat /\ r < b /\ f[k] = q * b + r
    BY <2>2, <2>3
  <2> HIDE DEF q, r
  <2>5. (q * b + r) \div b = q /\ (q * b + r) % b = r
    BY <2>4, DivIs
  <2>6. f[k] \div b = q /\ f[k] % b = r
    BY <2>4, <2>5
  <2> QED
    BY <2>6 DEF q, r
<1> DEFINE P == {k \in Nat : k <= n => x \div Power(b, k) = f[n - k]}
<1>4. x \in Nat
  BY <1>0, <1>1
<1>5. 0 \in P
  <2>1. x \div 1 = x /\ n - 0 = n
    BY <1>0, <1>4
  <2> QED
    BY <1>1, <2>1, PowerZero
<1>6. ASSUME NEW k \in Nat, k \in P
      PROVE  k + 1 \in P
  <2> SUFFICES ASSUME k + 1 <= n PROVE x \div Power(b, k + 1) = f[n - (k + 1)]
    OBVIOUS
  <2>1. n - k \in 1..n /\ n - (k + 1) = (n - k) - 1
    BY <1>0
  <2>2. x \div Power(b, k) = f[n - k]
    BY <1>0, <1>6
  <2>3. Power(b, k) \in Nat /\ Power(b, k) # 0 /\ Power(b, k + 1) = b * Power(b, k)
    BY PowerNext, PowerPositive
  <2>4. x \div (b * Power(b, k)) = (x \div Power(b, k)) \div b
    BY <1>4, <2>3, DivDiv
  <2> QED
    BY <1>3, <2>1, <2>2, <2>3, <2>4
<1> HIDE DEF P
<1>7. Nat \subseteq P
  BY <1>5, <1>6, NatSetInduction
<1>8. j - 1 \in Nat /\ j - 1 <= n /\ n - (j - 1) \in 1..n /\ n - (n - (j - 1)) + 1 = j
  BY <1>0, <1>2
<1>9. x \div Power(b, j - 1) = f[n - (j - 1)]
  BY <1>7, <1>8 DEF P
<1>10. f[n - (j - 1)] % b = ds[j]
  BY <1>3, <1>8
<1> QED
  BY <1>9, <1>10 DEF x

-----------------------------------------------------------------------------
(* Bytes, words and control bytes.                                           *)

\* What the assumption on the constants says of Base.
LEMMA Bases ==
  /\ Quad \in Nat /\ Quad # 0 /\ Base \in Nat /\ Base # 0 /\ Base = Power(4, Quad)
  /\ Bytes = 0..Base - 1 /\ Bytes \subseteq Nat /\ 0 \in Bytes
  /\ MaxU32 = Power(Base, 4) - 1 /\ MaxU32 \in Nat /\ U32 \subseteq Nat
<1>1. Quad \in Nat /\ Quad # 0 /\ MaxU32 = Power(Base, 4) - 1 /\ MaxU32 \in Nat
  BY CodecAssumption, MaxU32Assumption
<1>2. 4 \in Nat /\ 4 # 0
  OBVIOUS
<1>3. Base \in Nat /\ Base # 0
  BY <1>1, <1>2, PowerPositive DEF Base
<1> QED
  BY <1>1, <1>3 DEF Bytes, Base, U32

\* An integer and its bytes.
LEMMA LittleEndianIs ==
  ASSUME NEW x \in Nat, NEW n \in Nat
  PROVE  /\ LittleEndian(x, n) \in Seq(Bytes) /\ Len(LittleEndian(x, n)) = n
         /\ \A i \in 1..n : LittleEndian(x, n)[i] = (x \div Power(Base, i - 1)) % Base
         /\ x < Power(Base, n) => OfDigits(LittleEndian(x, n), Base) = x
<1> DEFINE ds == LittleEndian(x, n)
<1>1. ds = [i \in 1..n |-> (x \div Power(Base, i - 1)) % Base]
  BY DEF LittleEndian
<1>2. ASSUME NEW i \in 1..n
      PROVE  (x \div Power(Base, i - 1)) % Base \in Bytes
  <2>1. i - 1 \in Nat
    OBVIOUS
  <2>2. Power(Base, i - 1) \in Nat /\ Power(Base, i - 1) # 0
    BY <2>1, Bases, PowerPositive
  <2>3. x \div Power(Base, i - 1) \in Nat
    BY <2>2, DivMod
  <2>4. (x \div Power(Base, i - 1)) % Base \in Nat /\ (x \div Power(Base, i - 1)) % Base < Base
    BY <2>3, Bases, DivMod
  <2> QED
    BY <2>4, Bases
<1> HIDE DEF ds
<1>3. ds \in Seq(Bytes) /\ Len(ds) = n
  BY <1>1, <1>2
<1>4. \A i \in 1..n : ds[i] = (x \div Power(Base, i - 1)) % Base
  BY <1>1
<1>5. x < Power(Base, n) => OfDigits(ds, Base) = x
  BY <1>1, Bases, OfDigitsOf
<1> QED
  BY <1>3, <1>4, <1>5 DEF ds

\* Division rounded up.
LEMMA RoundUp ==
  ASSUME NEW q \in Nat, q # 0, NEW n \in Nat
  PROVE  /\ (n + q - 1) \div q \in Nat
         /\ n = 0 => (n + q - 1) \div q = 0
         /\ n # 0 => (n + q - 1) \div q = (n - 1) \div q + 1
<1>1. n + q - 1 \in Nat
  OBVIOUS
<1>2. CASE n = 0
  <2>1. n + q - 1 = q - 1 /\ q - 1 \in Nat /\ q - 1 < q
    BY <1>2
  <2> QED
    BY <1>2, <2>1, DivSmall
<1>3. CASE n # 0
  <2>1. n - 1 \in Nat
    BY <1>3
  <2> DEFINE d == (n - 1) \div q
             r == (n - 1) % q
  <2>2. d \in Nat /\ r \in Nat /\ r < q /\ n - 1 = q * d + r
    BY <2>1, DivMod
  <2> HIDE DEF d, r
  <2>3. q * d \in Nat /\ q * d = d * q /\ (d + 1) * q = d * q + q
    BY <2>2
  <2>4. n + q - 1 = (d + 1) * q + r
    BY <2>1, <2>2, <2>3
  <2>5. d + 1 \in Nat
    BY <2>2
  <2>6. ((d + 1) * q + r) \div q = d + 1
    BY <2>2, <2>5, DivIs
  <2>7. (n + q - 1) \div q = d + 1
    BY <2>4, <2>6
  <2> QED
    BY <1>3, <2>5, <2>7 DEF d
<1> QED
  BY <1>2, <1>3

\* Division is monotone.
LEMMA DivGrows ==
  ASSUME NEW q \in Nat, q # 0, NEW m \in Nat, NEW n \in Nat, m <= n
  PROVE  m \div q <= n \div q
OBVIOUS

\* The control byte that holds the code of integer i, and the place in it.
LEMMA ControlOf ==
  ASSUME NEW n \in Nat, NEW i \in 1..n
  PROVE  /\ (i - 1) \div Quad \in Nat /\ (i - 1) % Quad \in Nat /\ ((i - 1) % Quad) + 1 \in 1..Quad
         /\ (i - 1) \div Quad + 1 \in 1..ControlLen(n)
         /\ ((i - 1) \div Quad) * Quad + (((i - 1) % Quad) + 1) = i
<1>1. i - 1 \in Nat /\ n - 1 \in Nat /\ i - 1 <= n - 1 /\ n # 0 /\ Quad \in Nat /\ Quad # 0
  BY Bases
<1> DEFINE d == (i - 1) \div Quad
           r == (i - 1) % Quad
<1>2. d \in Nat /\ r \in Nat /\ r < Quad /\ i - 1 = Quad * d + r
  BY <1>1, DivMod
<1>3. d <= (n - 1) \div Quad
  BY <1>1, DivGrows
<1>4. ControlLen(n) = (n - 1) \div Quad + 1 /\ ControlLen(n) \in Nat
  BY <1>1, RoundUp DEF ControlLen
<1>5. (n - 1) \div Quad \in Nat
  BY <1>1, DivMod
<1> HIDE DEF d, r
<1>6. d + 1 \in 1..ControlLen(n)
  BY <1>2, <1>3, <1>4, <1>5
<1>7. d * Quad = Quad * d /\ Quad * d \in Nat
  BY <1>1, <1>2, Times
<1>8. d * Quad + (r + 1) = i
  BY <1>1, <1>2, <1>7
<1>9. r + 1 \in 1..Quad
  BY <1>1, <1>2
<1> QED
  BY <1>2, <1>6, <1>8, <1>9 DEF d, r

\* More integers take no fewer control bytes.
LEMMA ControlGrows ==
  ASSUME NEW m \in Nat, NEW n \in Nat, m <= n
  PROVE  /\ ControlLen(m) \in Nat /\ ControlLen(n) \in Nat /\ ControlLen(m) <= ControlLen(n)
         /\ ControlLen(0) = 0
<1>1. m + Quad - 1 \in Nat /\ n + Quad - 1 \in Nat /\ m + Quad - 1 <= n + Quad - 1
      /\ Quad \in Nat /\ Quad # 0 /\ 0 \in Nat
  BY Bases
<1>2. ControlLen(m) <= ControlLen(n)
  BY <1>1, DivGrows DEF ControlLen
<1>3. ControlLen(m) \in Nat /\ ControlLen(n) \in Nat
  BY <1>1, RoundUp DEF ControlLen
<1>4. (0 + Quad - 1) \div Quad = 0
  BY <1>1, RoundUp
<1> QED
  BY <1>2, <1>3, <1>4 DEF ControlLen

-----------------------------------------------------------------------------
(* streamvbyte.                                                              *)

\* The codes of control byte q.
Codes(lens, q) ==
  [j \in 1..Quad |-> IF (q - 1) * Quad + j \in 1..Len(lens) THEN lens[(q - 1) * Quad + j] - 1 ELSE 0]

Control(lens) == [q \in 1..ControlLen(Len(lens)) |-> OfDigits(Codes(lens, q), 4)]

\* The bytes of each integer of a list, at these lengths.
Cells(list, lens) == [i \in 1..Len(list) |-> LittleEndian(list[i], lens[i])]

\* A payload is the control bytes, then the data.
LEMMA LayoutIs ==
  ASSUME NEW list, NEW lens, Len(lens) = Len(list), DOMAIN list = 1..Len(list)
  PROVE  Layout(list, lens) = Control(lens) \o FlattenSeq(Cells(list, lens))
BY DEF Layout, Control, Codes, Cells

\* The codes of a control byte are digits to base 4.
LEMMA CodesTyped ==
  ASSUME NEW lens \in Seq(1..4), NEW q \in Nat, q # 0
  PROVE  Codes(lens, q) \in Seq(0..4 - 1) /\ Len(Codes(lens, q)) = Quad
<1>1. ASSUME NEW j \in 1..Quad, (q - 1) * Quad + j \in 1..Len(lens)
      PROVE  lens[(q - 1) * Quad + j] - 1 \in 0..4 - 1
  <2> DEFINE i == (q - 1) * Quad + j
  <2>1. i \in 1..Len(lens)
    BY <1>1
  <2> HIDE DEF i
  <2>2. lens[i] \in 1..4
    BY <2>1
  <2>3. lens[i] - 1 \in 0..4 - 1
    BY <2>2
  <2> QED
    BY <2>3 DEF i
<1>2. ASSUME NEW j \in 1..Quad
      PROVE  Codes(lens, q)[j] \in 0..4 - 1
  BY <1>1 DEF Codes
<1>3. Codes(lens, q) = [j \in 1..Quad |-> Codes(lens, q)[j]]
  BY DEF Codes
<1>4. Quad \in Nat
  BY Bases
<1> DEFINE c == Codes(lens, q)
<1> HIDE DEF c
<1>5. c = [j \in 1..Quad |-> c[j]] /\ \A j \in 1..Quad : c[j] \in 0..4 - 1
  BY <1>2, <1>3 DEF c
<1>6. c \in Seq(0..4 - 1) /\ Len(c) = Quad
  BY <1>4, <1>5
<1> QED
  BY <1>6 DEF c

\* Control bytes are bytes.
LEMMA ControlTyped ==
  ASSUME NEW lens \in Seq(1..4)
  PROVE  Control(lens) \in Seq(Bytes) /\ Len(Control(lens)) = ControlLen(Len(lens))
<1> DEFINE m == ControlLen(Len(lens))
<1>1. m \in Nat
  BY ControlGrows
<1>2. ASSUME NEW q \in 1..m
      PROVE  OfDigits(Codes(lens, q), 4) \in Bytes
  <2>1. q \in Nat /\ q # 0 /\ 4 \in Nat /\ 4 # 0
    BY <1>1
  <2>2. Codes(lens, q) \in Seq(0..4 - 1) /\ Len(Codes(lens, q)) = Quad
    BY <2>1, CodesTyped
  <2>3. OfDigits(Codes(lens, q), 4) \in Nat /\ OfDigits(Codes(lens, q), 4) < Power(4, Quad)
    BY <2>1, <2>2, OfDigitsBelow
  <2> QED
    BY <2>3, Bases
<1> HIDE DEF m
<1>3. Control(lens) = [q \in 1..m |-> OfDigits(Codes(lens, q), 4)]
  BY DEF Control, m
<1> QED
  BY <1>1, <1>2, <1>3 DEF m

\* A control byte gives the lengths back.
LEMMA ControlReads ==
  ASSUME NEW lens \in Seq(1..4), NEW i \in 1..Len(lens)
  PROVE  1 + ((Control(lens)[((i - 1) \div Quad) + 1] \div Power(4, (i - 1) % Quad)) % 4) = lens[i]
<1> DEFINE q == ((i - 1) \div Quad) + 1
           j == ((i - 1) % Quad) + 1
           c == Codes(lens, q)
<1>0. Len(lens) \in Nat
  OBVIOUS
<1>1. /\ q - 1 = (i - 1) \div Quad /\ j - 1 = (i - 1) % Quad
      /\ q \in Nat /\ q # 0 /\ j \in 1..Quad /\ q \in 1..ControlLen(Len(lens))
      /\ (q - 1) * Quad + j = i
  <2>1. /\ (i - 1) \div Quad \in Nat /\ (i - 1) % Quad \in Nat /\ j \in 1..Quad
        /\ q \in 1..ControlLen(Len(lens))
        /\ ((i - 1) \div Quad) * Quad + j = i
    BY <1>0, ControlOf
  <2>2. q - 1 = (i - 1) \div Quad /\ j - 1 = (i - 1) % Quad /\ q \in Nat /\ q # 0
    BY <2>1
  <2> QED
    BY <2>1, <2>2
<1> HIDE DEF q, j
<1>2. Control(lens)[q] = OfDigits(c, 4)
  BY <1>1 DEF Control
<1>3. c \in Seq(0..4 - 1) /\ Len(c) = Quad
  BY <1>1, CodesTyped
<1>4. c[j] = lens[i] - 1
  BY <1>1 DEF Codes
<1> HIDE DEF c
<1>5. 4 \in Nat /\ 4 # 0 /\ j \in 1..Len(c)
  BY <1>1, <1>3
<1>6. (OfDigits(c, 4) \div Power(4, j - 1)) % 4 = c[j]
  BY <1>3, <1>5, DigitOf
<1>7. lens[i] \in 1..4
  OBVIOUS
<1>8. 1 + ((Control(lens)[q] \div Power(4, j - 1)) % 4) = lens[i]
  BY <1>2, <1>4, <1>6, <1>7
<1> QED
  BY <1>1, <1>8 DEF q

\* Each integer is as many bytes as its length.
LEMMA CellsTyped ==
  ASSUME NEW list \in Seq(Nat), NEW lens \in Seq(1..4), Len(lens) = Len(list)
  PROVE  /\ Cells(list, lens) \in Seq(Seq(Bytes)) /\ Len(Cells(list, lens)) = Len(list)
         /\ \A i \in 1..Len(list) : /\ Cells(list, lens)[i] = LittleEndian(list[i], lens[i])
                                    /\ Len(LittleEndian(list[i], lens[i])) = lens[i]
                                    /\ lens[i] \in Nat /\ lens[i] # 0 /\ lens[i] <= 4
<1>1. Len(list) \in Nat
  OBVIOUS
<1>2. ASSUME NEW i \in 1..Len(list)
      PROVE  list[i] \in Nat /\ lens[i] \in Nat /\ lens[i] # 0 /\ lens[i] <= 4
  <2>1. lens[i] \in 1..4
    OBVIOUS
  <2> QED
    BY <2>1
<1>3. ASSUME NEW i \in 1..Len(list)
      PROVE  LittleEndian(list[i], lens[i]) \in Seq(Bytes)
             /\ Len(LittleEndian(list[i], lens[i])) = lens[i]
  BY <1>2, LittleEndianIs
<1> DEFINE n == Len(list)
<1>4. Cells(list, lens) = [i \in 1..n |-> LittleEndian(list[i], lens[i])]
  BY DEF Cells
<1>5. \A i \in 1..n : LittleEndian(list[i], lens[i]) \in Seq(Bytes)
  BY <1>3
<1> DEFINE T == Seq(Bytes)
<1> HIDE DEF n, T
<1>6. \A i \in 1..n : LittleEndian(list[i], lens[i]) \in T
  BY <1>5 DEF T
<1>7. Cells(list, lens) \in Seq(T) /\ Len(Cells(list, lens)) = n
  BY <1>1, <1>4, <1>6 DEF n
<1>8. \A i \in 1..n : Cells(list, lens)[i] = LittleEndian(list[i], lens[i])
  BY <1>4
<1> QED
  BY <1>2, <1>3, <1>7, <1>8 DEF n, T

\* Where an integer starts is how far the ones before it reach.
LEMMA StartIsUpto ==
  ASSUME NEW list \in Seq(Nat), NEW lens \in Seq(1..4), Len(lens) = Len(list)
  PROVE  \A n \in Nat : n <= Len(list) => Start(lens, n + 1) = Upto(Cells(list, lens), n)
<1> DEFINE s == Cells(list, lens)
           P == {n \in Nat : n <= Len(list) => Start(lens, n + 1) = Upto(s, n)}
<1>1. s \in Seq(Seq(Bytes)) /\ Len(s) = Len(list) /\ Len(list) \in Nat
  BY CellsTyped
<1>2. \A i \in 1..Len(list) : Len(s[i]) = lens[i]
  BY CellsTyped
<1> HIDE DEF s
<1>3. lens \in Seq(Nat)
  OBVIOUS
<1>4. 0 \in P
  <2>1. Upto(s, 0) = 0
    BY JoinedNone DEF Upto
  <2>2. Start(lens, 1) = 0 /\ 0 + 1 = 1
    BY <1>3, StartNext
  <2> QED
    BY <2>1, <2>2
<1>5. ASSUME NEW n \in Nat, n \in P
      PROVE  n + 1 \in P
  <2> SUFFICES ASSUME n + 1 <= Len(list) PROVE Start(lens, (n + 1) + 1) = Upto(s, n + 1)
    OBVIOUS
  <2>1. n + 1 \in 1..Len(list) /\ n < Len(s) /\ n + 1 \in 1..Len(lens)
    BY <1>1
  <2>2. Start(lens, n + 1) = Upto(s, n)
    BY <1>1, <1>5, <2>1
  <2>3. Start(lens, (n + 1) + 1) = Start(lens, n + 1) + lens[n + 1]
    BY <1>3, <2>1, StartNext
  <2>4. Upto(s, n + 1) = Upto(s, n) + Len(s[n + 1])
    BY <1>1, <2>1, UptoStep
  <2> QED
    BY <1>2, <2>1, <2>2, <2>3, <2>4
<1> HIDE DEF P
<1>6. Nat \subseteq P
  BY <1>4, <1>5, NatSetInduction
<1> QED
  BY <1>6 DEF P, s

\* A part of what comes second.
LEMMA SubSeqBehind ==
  ASSUME NEW S, NEW x \in Seq(S), NEW y \in Seq(S), NEW a \in Nat, NEW e \in Nat,
         a <= e, e <= Len(y)
  PROVE  SubSeq(x \o y, Len(x) + a + 1, Len(x) + e) = SubSeq(y, a + 1, e)
<1> DEFINE u == SubSeq(x \o y, Len(x) + a + 1, Len(x) + e)
           v == SubSeq(y, a + 1, e)
           m == Len(x)
<1>1. /\ x \o y \in Seq(S) /\ Len(x \o y) = m + Len(y) /\ m \in Nat /\ Len(y) \in Nat
      /\ \A i \in 1..Len(y) : (x \o y)[m + i] = y[i]
  BY CatIs
<1>2. u \in Seq(S) /\ Len(u) = e - a /\ \A i \in 1..e - a : u[i] = (x \o y)[m + (a + i)]
  BY <1>1
<1>3. v \in Seq(S) /\ Len(v) = e - a /\ \A i \in 1..e - a : v[i] = y[a + i]
  BY <1>1
<1>4. \A i \in 1..e - a : a + i \in 1..Len(y)
  BY <1>1
<1> HIDE DEF u, v, m
<1>5. \A i \in 1..e - a : u[i] = v[i]
  BY <1>1, <1>2, <1>3, <1>4
<1>6. u = v
  BY <1>2, <1>3, <1>5, SeqSame
<1> QED
  BY <1>6 DEF u, v, m

\* What a payload of streamvbyte gives when it is read.
LaidOut(p, list, lens) ==
  LET n == Len(list) IN
  /\ p \in Seq(Bytes)
  /\ Lengths(p, n) = lens
  /\ Len(p) = ControlLen(n) + Start(lens, n + 1)
  /\ \A i \in 1..n :
       SubSeq(p, ControlLen(n) + Start(lens, i) + 1, ControlLen(n) + Start(lens, i) + lens[i])
         = LittleEndian(list[i], lens[i])

\* The lengths and the bytes of every integer are found again in a payload laid out.
LEMMA LayoutReads ==
  ASSUME NEW list \in Seq(Nat), NEW lens \in Seq(1..4), Len(lens) = Len(list)
  PROVE  LaidOut(Layout(list, lens), list, lens)
<1> DEFINE n == Len(list)
           c == Control(lens)
           s == Cells(list, lens)
           f == FlattenSeq(s)
           p == Layout(list, lens)
<1>1. p = c \o f
  BY LayoutIs
<1>2. c \in Seq(Bytes) /\ Len(c) = ControlLen(n)
  BY ControlTyped
<1>3. /\ s \in Seq(Seq(Bytes)) /\ Len(s) = n /\ n \in Nat
      /\ \A i \in 1..n : /\ s[i] = LittleEndian(list[i], lens[i])
                         /\ lens[i] \in Nat /\ Len(s[i]) = lens[i]
  BY CellsTyped
<1>4. f \in Seq(Bytes) /\ Len(f) = Upto(s, n)
  <2> HIDE DEF s
  <2>1. f \in Seq(Bytes) /\ Joined(s, Len(s)) = f
    BY <1>3, FlattenTyped, JoinedAll
  <2> QED
    BY <1>3, <2>1 DEF Upto
<1>5. \A i \in 1..n : lens[i] = 1 + ((c[((i - 1) \div Quad) + 1] \div Power(4, (i - 1) % Quad)) % 4)
  BY ControlReads
<1>6. \A k \in Nat : k <= n => Start(lens, k + 1) = Upto(s, k)
  BY StartIsUpto
<1>7. \A i \in 1..n : ((i - 1) \div Quad) + 1 \in 1..Len(c)
  BY <1>2, <1>3, ControlOf
<1>8. lens = [i \in 1..n |-> lens[i]]
  BY <1>3
<1>9. lens \in Seq(Nat)
  OBVIOUS
<1> HIDE DEF n, c, s, f, p
<1>10. /\ p \in Seq(Bytes) /\ Len(p) = Len(c) + Len(f) /\ Len(c) \in Nat /\ Len(f) \in Nat
       /\ \A i \in 1..Len(c) : p[i] = c[i]
  BY <1>1, <1>2, <1>4, CatIs
<1>11. Lengths(p, n) = lens
  <2>1. \A i \in 1..n : p[((i - 1) \div Quad) + 1] = c[((i - 1) \div Quad) + 1]
    BY <1>7, <1>10
  <2>2. \A i \in 1..n :
          1 + ((p[((i - 1) \div Quad) + 1] \div Power(4, (i - 1) % Quad)) % 4) = lens[i]
    BY <1>5, <2>1
  <2>3. Lengths(p, n) =
          [i \in 1..n |-> 1 + ((p[((i - 1) \div Quad) + 1] \div Power(4, (i - 1) % Quad)) % 4)]
    BY DEF Lengths
  <2> QED
    BY <1>8, <2>2, <2>3
<1>12. Len(p) = ControlLen(n) + Start(lens, n + 1)
  BY <1>2, <1>3, <1>4, <1>6, <1>10
<1>13. ASSUME NEW i \in 1..n
       PROVE  SubSeq(p, ControlLen(n) + Start(lens, i) + 1, ControlLen(n) + Start(lens, i) + lens[i])
                = LittleEndian(list[i], lens[i])
  <2> DEFINE k == i - 1
             a == Upto(s, k)
             e == Upto(s, k + 1)
  <2>1. k \in Nat /\ k < Len(s) /\ k + 1 = i /\ k <= n
    BY <1>3
  <2>2. s[i] = LittleEndian(list[i], lens[i]) /\ Len(s[i]) = lens[i]
    BY <1>3
  <2>3. Start(lens, i) = a
    BY <1>6, <2>1
  <2> HIDE DEF k
  <2>4. /\ a \in Nat /\ e \in Nat /\ e = a + Len(s[k + 1]) /\ e <= Len(f)
        /\ SubSeq(f, a + 1, e) = s[k + 1]
    BY <1>3, <2>1, PieceOf DEF f
  <2> HIDE DEF a, e
  <2>5. lens[i] \in Nat /\ e = a + lens[i]
    BY <1>3, <2>1, <2>2, <2>4
  <2>6. a <= e
    BY <2>4, <2>5
  <2>7. SubSeq(p, Len(c) + a + 1, Len(c) + e) = SubSeq(f, a + 1, e)
    <3>1. c \in Seq(Bytes) /\ f \in Seq(Bytes) /\ a \in Nat /\ e \in Nat /\ a <= e /\ e <= Len(f)
      BY <1>2, <1>4, <2>4, <2>6
    <3> DEFINE T == Bytes
    <3>2. c \in Seq(T) /\ f \in Seq(T)
      BY <3>1
    <3> HIDE DEF T
    <3>3. SubSeq(c \o f, Len(c) + a + 1, Len(c) + e) = SubSeq(f, a + 1, e)
      BY <3>1, <3>2, SubSeqBehind
    <3> QED
      BY <1>1, <3>3
  <2>8. Len(c) + e = Len(c) + a + lens[i]
    <3>1. \A u, v, w, z \in Nat : w = v + z => u + w = u + v + z
      OBVIOUS
    <3>2. Len(c) \in Nat /\ a \in Nat /\ e \in Nat /\ lens[i] \in Nat /\ e = a + lens[i]
      BY <1>10, <2>4, <2>5
    <3> QED
      BY <3>1, <3>2
  <2> QED
    BY <1>2, <2>1, <2>2, <2>3, <2>4, <2>7, <2>8
<1>14. LaidOut(p, list, lens)
  BY <1>10, <1>11, <1>12, <1>13 DEF LaidOut, n
<1> QED
  BY <1>14 DEF p

\* The number of bytes an integer takes.
SvbLen(x) ==
  CHOOSE n \in 1..4 : (n = 4 \/ x < Power(Base, n)) /\ (n = 1 \/ x >= Power(Base, n - 1))

\* The powers of Base grow.
LEMMA PowersGrow ==
  /\ \A n \in Nat : Power(Base, n) \in Nat
  /\ Power(Base, 1) <= Power(Base, 2) /\ Power(Base, 2) <= Power(Base, 3)
  /\ Power(Base, 3) <= Power(Base, 4)
<1>1. \A a \in Nat, b \in Nat : b # 0 => a <= b * a
  OBVIOUS
<1>2. 1 \in Nat /\ 2 \in Nat /\ 3 \in Nat /\ 1 + 1 = 2 /\ 2 + 1 = 3 /\ 3 + 1 = 4
  OBVIOUS
<1>3. \A n \in Nat : Power(Base, n) \in Nat /\ Power(Base, n + 1) = Base * Power(Base, n)
  BY Bases, PowerNext
<1>4. ASSUME NEW n \in Nat
      PROVE  Power(Base, n) <= Power(Base, n + 1)
  <2> DEFINE q == Power(Base, n)
             b == Base
  <2>1. q \in Nat /\ b \in Nat /\ b # 0 /\ Power(b, n + 1) = b * q
    BY <1>3, Bases
  <2> HIDE DEF q, b
  <2>2. q <= b * q
    BY <1>1, <2>1
  <2> QED
    BY <2>1, <2>2 DEF q, b
<1> QED
  BY <1>2, <1>3, <1>4

\* As many as it needs, and as many as the client's three comparisons count.
LEMMA SvbLenIs ==
  ASSUME NEW x \in U32
  PROVE  /\ SvbLen(x) \in 1..4 /\ x < Power(Base, SvbLen(x))
         /\ 1 + Cardinality({n \in 1..3 : x >= Power(Base, n)}) = SvbLen(x)
<1> DEFINE fits(n) == (n = 4 \/ x < Power(Base, n)) /\ (n = 1 \/ x >= Power(Base, n - 1))
           C == {n \in 1..3 : x >= Power(Base, n)}
<1>1. x \in Nat /\ \A n \in Nat : Power(Base, n) \in Nat
  BY PowersGrow, Bases
<1>2. x < Power(Base, 4)
  BY <1>1, Bases DEF U32
<1>3. Power(Base, 1) <= Power(Base, 2) /\ Power(Base, 2) <= Power(Base, 3)
  BY PowersGrow
<1>4. ASSUME NEW k \in 1..4, fits(k), \A n \in 1..4 : fits(n) => n = k
      PROVE  SvbLen(x) = k
  <2>1. SvbLen(x) \in 1..4 /\ fits(SvbLen(x))
    BY <1>4 DEF SvbLen
  <2> QED
    BY <1>4, <2>1
<1>5. Cardinality({}) = 0 /\ Cardinality({1}) = 1 /\ Cardinality({1, 2}) = 2
      /\ Cardinality({1, 2, 3}) = 3
  <2>1. IsFiniteSet({}) /\ Cardinality({}) = 0
    BY FS_EmptySet
  <2>2. IsFiniteSet({1}) /\ Cardinality({1}) = 1
    BY FS_Singleton
  <2>3. {1, 2} = {1} \cup {2} /\ {1, 2, 3} = {1, 2} \cup {3} /\ 2 \notin {1} /\ 3 \notin {1, 2}
    OBVIOUS
  <2>4. IsFiniteSet({1, 2}) /\ Cardinality({1, 2}) = 2
    BY <2>2, <2>3, FS_AddElement
  <2>5. Cardinality({1, 2, 3}) = 3
    BY <2>3, <2>4, FS_AddElement
  <2> QED
    BY <2>1, <2>2, <2>4, <2>5
<1> DEFINE p1 == Power(Base, 1)
           p2 == Power(Base, 2)
           p3 == Power(Base, 3)
<1>6. \A n \in 1..3 : Power(Base, n) = IF n = 1 THEN p1 ELSE IF n = 2 THEN p2 ELSE p3
  OBVIOUS
<1>7. /\ fits(1) <=> x < p1
      /\ fits(2) <=> x < p2 /\ x >= p1
      /\ fits(3) <=> x < p3 /\ x >= p2
      /\ fits(4) <=> x >= p3
  OBVIOUS
<1>8. p1 \in Nat /\ p2 \in Nat /\ p3 \in Nat /\ p1 <= p2 /\ p2 <= p3
  BY <1>1, <1>3
<1>9. \A n \in 1..4 : n = 1 \/ n = 2 \/ n = 3 \/ n = 4
  OBVIOUS
<1> HIDE DEF fits, p1, p2, p3
<1>10. CASE x < p1
  <2>1. SvbLen(x) = 1
    BY <1>1, <1>4, <1>7, <1>8, <1>9, <1>10
  <2>2. C = {}
    BY <1>1, <1>6, <1>8, <1>10
  <2> QED
    BY <1>5, <1>10, <2>1, <2>2 DEF p1
<1>11. CASE x >= p1 /\ x < p2
  <2>1. SvbLen(x) = 2
    BY <1>1, <1>4, <1>7, <1>8, <1>9, <1>11
  <2>2. C = {1}
    BY <1>1, <1>6, <1>8, <1>11
  <2> QED
    BY <1>5, <1>11, <2>1, <2>2 DEF p2
<1>12. CASE x >= p2 /\ x < p3
  <2>1. SvbLen(x) = 3
    BY <1>1, <1>4, <1>7, <1>8, <1>9, <1>12
  <2>2. C = {1, 2}
    BY <1>1, <1>6, <1>8, <1>12
  <2> QED
    BY <1>5, <1>12, <2>1, <2>2 DEF p3
<1>13. CASE x >= p3
  <2>1. SvbLen(x) = 4
    BY <1>1, <1>4, <1>7, <1>8, <1>9, <1>13
  <2>2. C = {1, 2, 3}
    BY <1>1, <1>6, <1>8, <1>13
  <2> QED
    BY <1>2, <1>5, <2>1, <2>2
<1> QED
  BY <1>1, <1>8, <1>10, <1>11, <1>12, <1>13

\* The lengths and the payload both sides choose for integers.
SvbLens(list) == [i \in 1..Len(list) |-> SvbLen(list[i])]
Packed(list) == Layout(list, SvbLens(list))

\* The lengths hold the integers.
LEMMA SvbLensTyped ==
  ASSUME NEW list \in Seq(U32)
  PROVE  /\ SvbLens(list) \in Seq(1..4) /\ Len(SvbLens(list)) = Len(list)
         /\ \A i \in 1..Len(list) : /\ SvbLens(list)[i] \in Nat /\ SvbLens(list)[i] # 0
                                    /\ list[i] \in Nat /\ list[i] < Power(Base, SvbLens(list)[i])
<1>1. \A i \in 1..Len(list) : list[i] \in U32 /\ SvbLens(list)[i] = SvbLen(list[i])
  BY DEF SvbLens
<1>2. \A i \in 1..Len(list) : SvbLen(list[i]) \in 1..4 /\ list[i] < Power(Base, SvbLen(list[i]))
  BY <1>1, SvbLenIs
<1>3. Len(list) \in Nat
  OBVIOUS
<1>4. SvbLens(list) \in [1..Len(list) -> 1..4]
  BY <1>2 DEF SvbLens
<1>5. SvbLens(list) \in Seq(1..4) /\ Len(SvbLens(list)) = Len(list)
  BY <1>3, <1>4
<1>6. \A n \in 1..4 : n \in Nat /\ n # 0
  OBVIOUS
<1> QED
  BY <1>1, <1>2, <1>5, <1>6, Bases

\* The extension's encoder and the client's write the same bytes.
THEOREM EncodersAgree ==
  ASSUME NEW list \in Seq(U32)
  PROVE  SvbEncode(list) = Packed(list) /\ ClientSvbEncode(list) = Packed(list)
<1>1. DOMAIN list = 1..Len(list)
  OBVIOUS
<1>2. \A i \in 1..Len(list) : list[i] \in U32
  OBVIOUS
<1>3. SvbLens(list) = [i \in DOMAIN list |->
        CHOOSE n \in 1..4 : (n = 4 \/ list[i] < Power(Base, n)) /\ (n = 1 \/ list[i] >= Power(Base, n - 1))]
  BY <1>1 DEF SvbLens, SvbLen
<1>4. SvbLens(list) = [i \in DOMAIN list |-> 1 + Cardinality({n \in 1..3 : list[i] >= Power(Base, n)})]
  <2>1. \A i \in 1..Len(list) :
          1 + Cardinality({n \in 1..3 : list[i] >= Power(Base, n)}) = SvbLen(list[i])
    BY <1>2, SvbLenIs
  <2> QED
    BY <1>1, <2>1 DEF SvbLens
<1>5. SvbEncode(list) = Packed(list)
  BY <1>3 DEF SvbEncode, Packed
<1>6. ClientSvbEncode(list) = Packed(list)
  BY <1>4 DEF ClientSvbEncode, Packed
<1> QED
  BY <1>5, <1>6

\* A sequence over a set is one over a larger set.
LEMMA SeqWider ==
  ASSUME NEW S, NEW T, S \subseteq T, NEW s \in Seq(S)
  PROVE  s \in Seq(T)
OBVIOUS

\* Packed integers are laid out.
LEMMA PackedIs ==
  ASSUME NEW list \in Seq(U32)
  PROVE  LaidOut(Packed(list), list, SvbLens(list))
<1>1. list \in Seq(Nat)
  BY Bases, SeqWider
<1> DEFINE lens == SvbLens(list)
<1>2. lens \in Seq(1..4) /\ Len(lens) = Len(list)
  BY SvbLensTyped
<1> HIDE DEF lens
<1>3. LaidOut(Layout(list, lens), list, lens)
  BY <1>1, <1>2, LayoutReads
<1> QED
  BY <1>3 DEF Packed, lens

-----------------------------------------------------------------------------
(* Reading packed integers.                                                  *)

\* The integers of a payload, at lengths lens.
Unpacked(p, n, lens) ==
  [i \in 1..n |-> OfDigits(SubSeq(p, ControlLen(n) + Start(lens, i) + 1,
                                     ControlLen(n) + Start(lens, i) + lens[i]), Base)]

\* They are the ones that were packed.
LEMMA UnpackedIs ==
  ASSUME NEW list \in Seq(U32)
  PROVE  Unpacked(Packed(list), Len(list), SvbLens(list)) = list
<1> DEFINE n == Len(list)
           p == Packed(list)
           lens == SvbLens(list)
<1>1. \A i \in 1..n :
        SubSeq(p, ControlLen(n) + Start(lens, i) + 1, ControlLen(n) + Start(lens, i) + lens[i])
          = LittleEndian(list[i], lens[i])
  BY PackedIs DEF LaidOut
<1>2. \A i \in 1..n : /\ lens[i] \in Nat /\ lens[i] # 0
                      /\ list[i] \in Nat /\ list[i] < Power(Base, lens[i])
  BY SvbLensTyped
<1>3. list = [i \in 1..n |-> list[i]]
  OBVIOUS
<1> HIDE DEF n, p, lens
<1>4. \A i \in 1..n : OfDigits(LittleEndian(list[i], lens[i]), Base) = list[i]
  BY <1>2, LittleEndianIs
<1>5. \A i \in 1..n :
        OfDigits(SubSeq(p, ControlLen(n) + Start(lens, i) + 1,
                           ControlLen(n) + Start(lens, i) + lens[i]), Base) = list[i]
  BY <1>1, <1>4
<1>6. Unpacked(p, n, lens) = list
  BY <1>3, <1>5 DEF Unpacked
<1> QED
  BY <1>6 DEF n, p, lens

\* Lengths read from bytes are lengths.
LEMMA LengthsTyped ==
  ASSUME NEW p \in Seq(Bytes), NEW n \in Nat, ControlLen(n) <= Len(p)
  PROVE  /\ Lengths(p, n) \in Seq(1..4) /\ Lengths(p, n) \in Seq(Nat) /\ Len(Lengths(p, n)) = n
         /\ \A i \in 1..n : /\ Lengths(p, n)[i] \in Nat
                            /\ Lengths(p, n)[i] # 0 /\ Lengths(p, n)[i] <= 4
<1>1. ASSUME NEW i \in 1..n
      PROVE  1 + ((p[((i - 1) \div Quad) + 1] \div Power(4, (i - 1) % Quad)) % 4) \in 1..4
  <2> DEFINE c == p[((i - 1) \div Quad) + 1]
             q == Power(4, (i - 1) % Quad)
  <2>1. /\ (i - 1) % Quad \in Nat
        /\ ((i - 1) \div Quad) + 1 \in 1..ControlLen(n)
    BY ControlOf
  <2>2. ControlLen(n) \in Nat
    BY ControlGrows
  <2>3. ((i - 1) \div Quad) + 1 \in 1..Len(p)
    <3> DEFINE a == ControlLen(n)
               k == ((i - 1) \div Quad) + 1
    <3>1. a \in Nat /\ k \in 1..a /\ a <= Len(p)
      BY <2>1, <2>2
    <3> HIDE DEF a, k
    <3>2. k \in 1..Len(p)
      BY <3>1
    <3> QED
      BY <3>2 DEF k
  <2>4. c \in Nat
    BY <2>3, Bases
  <2>5. q \in Nat /\ q # 0
    <3>1. 4 \in Nat /\ 4 # 0
      OBVIOUS
    <3>2. \A m \in Nat : Power(4, m) \in Nat /\ Power(4, m) # 0
      BY <3>1, PowerPositive
    <3> QED
      BY <2>1, <3>2
  <2> HIDE DEF c, q
  <2>6. c \div q \in Nat
    BY <2>4, <2>5, DivMod
  <2> DEFINE d == c \div q
  <2>7. d \in Nat
    BY <2>6
  <2> HIDE DEF d
  <2>8. 1 + (d % 4) \in 1..4
    BY <2>7
  <2> QED
    BY <2>8 DEF d, c, q
<1>2. Lengths(p, n) \in [1..n -> 1..4]
  BY <1>1 DEF Lengths
<1>3. Lengths(p, n) \in Seq(1..4) /\ Len(Lengths(p, n)) = n
  BY <1>2
<1> DEFINE l == Lengths(p, n)
<1>4. l \in Seq(1..4) /\ Len(l) = n
  BY <1>3
<1> HIDE DEF l
<1>5. l \in Seq(Nat) /\ \A i \in 1..n : l[i] \in Nat /\ l[i] # 0 /\ l[i] <= 4
  BY <1>4
<1> QED
  BY <1>4, <1>5 DEF l

\* What a part of a sequence is.
LEMMA SubSeqIs ==
  ASSUME NEW S, NEW s \in Seq(S), NEW a \in Nat, NEW e \in Nat, a <= e, e <= Len(s)
  PROVE  /\ SubSeq(s, a + 1, e) \in Seq(S) /\ Len(SubSeq(s, a + 1, e)) = e - a
         /\ \A i \in 1..e - a : SubSeq(s, a + 1, e)[i] = s[a + i]
OBVIOUS

\* What stands in the data stands in the payload behind the control bytes, zeros or none
\* behind it.
Ahead(p, z, c, a, e) ==
  SubSeq(SubSeq(p, c + 1, Len(p)) \o z, a + 1, e) = SubSeq(p, c + a + 1, c + e)

\* So they do.
LEMMA SubSeqAhead ==
  ASSUME NEW S, NEW p \in Seq(S), NEW z \in Seq(S), NEW c \in Nat, NEW a \in Nat, NEW e \in Nat,
         a <= e, c + e <= Len(p)
  PROVE  Ahead(p, z, c, a, e)
<1> DEFINE d == SubSeq(p, c + 1, Len(p))
           y == d \o z
           u == SubSeq(y, a + 1, e)
           v == SubSeq(p, c + a + 1, c + e)
           m == e - a
<1>1. m \in Nat /\ Len(p) \in Nat /\ c <= Len(p) /\ c + a <= c + e
  OBVIOUS
<1>2. /\ d \in Seq(S) /\ Len(d) = Len(p) - c
      /\ \A i \in 1..Len(p) - c : d[i] = p[c + i]
  BY <1>1
<1> HIDE DEF d
<1>3. /\ y \in Seq(S) /\ Len(y) = Len(d) + Len(z) /\ Len(d) \in Nat /\ Len(z) \in Nat
      /\ \A i \in 1..Len(d) : y[i] = d[i]
  BY <1>2, CatIs
<1> HIDE DEF y
<1>4. e <= Len(y) /\ e <= Len(p) - c
  BY <1>1, <1>2, <1>3
<1>5. /\ u \in Seq(S) /\ Len(u) = m
      /\ \A i \in 1..m : u[i] = y[a + i]
  BY <1>1, <1>3, <1>4
<1>6. /\ v \in Seq(S) /\ Len(v) = m
      /\ \A i \in 1..m : v[i] = p[c + a + i]
  <2> DEFINE lo == c + a
             hi == c + e
  <2>1. lo \in Nat /\ hi \in Nat /\ lo <= hi /\ hi <= Len(p) /\ hi - lo = m
    BY <1>1
  <2> HIDE DEF lo, hi, m
  <2>2. /\ SubSeq(p, lo + 1, hi) \in Seq(S) /\ Len(SubSeq(p, lo + 1, hi)) = hi - lo
        /\ \A i \in 1..hi - lo : SubSeq(p, lo + 1, hi)[i] = p[lo + i]
    BY <2>1, SubSeqIs
  <2> QED
    BY <2>1, <2>2 DEF lo, hi
<1>7. ASSUME NEW i \in 1..m
      PROVE  u[i] = v[i]
  <2>1. a + i \in 1..Len(d) /\ a + i \in 1..Len(p) - c /\ c + (a + i) = c + a + i
    BY <1>1, <1>2, <1>4
  <2>2. y[a + i] = p[c + (a + i)]
    BY <1>2, <1>3, <2>1
  <2> QED
    BY <1>5, <1>6, <2>1, <2>2
<1> HIDE DEF u, v, m
<1>8. u = v
  BY <1>5, <1>6, <1>7, SeqSame
<1> QED
  BY <1>8 DEF u, v, y, d, Ahead

\* The extension finds the payload of n integers complete.
Complete(p, n) ==
  ControlLen(n) <= Len(p) /\ Len(p) = ControlLen(n) + Start(Lengths(p, n), n + 1)

\* No integer reaches past the last one's end.
LEMMA WithinData ==
  ASSUME NEW p \in Seq(Bytes), NEW n \in Nat, Complete(p, n), NEW i \in 1..n
  PROVE  /\ Start(Lengths(p, n), i) \in Nat /\ Lengths(p, n)[i] \in Nat
         /\ ControlLen(n) \in Nat /\ Len(p) \in Nat
         /\ ControlLen(n) + (Start(Lengths(p, n), i) + Lengths(p, n)[i]) <= Len(p)
<1> DEFINE l == Lengths(p, n)
<1>1. /\ l \in Seq(Nat) /\ Len(l) = n
      /\ \A k \in 1..n : l[k] \in Nat /\ l[k] # 0
  BY LengthsTyped DEF Complete
<1>2. ControlLen(n) \in Nat /\ Len(p) \in Nat
  BY ControlGrows
<1>3. Len(p) = ControlLen(n) + Start(l, n + 1)
  BY DEF Complete
<1> HIDE DEF l
<1>4. i \in 1..Len(l) /\ i \in 1..Len(l) + 1 /\ i + 1 \in 1..Len(l) + 1 /\ n + 1 \in 1..Len(l) + 1
  BY <1>1
<1>5. Start(l, i) \in Nat /\ Start(l, n + 1) \in Nat /\ Start(l, i + 1) = Start(l, i) + l[i]
  BY <1>1, <1>4, StartNext
<1>6. l[i] \in Nat
  BY <1>1
<1>7. Start(l, i + 1) <= Start(l, n + 1)
  <2>1. CASE i = n
    BY <1>5, <1>6, <2>1
  <2>2. CASE i # n
    <3>1. i + 1 < n + 1
      BY <2>2
    <3>2. \A k \in 1..Len(l) : l[k] # 0
      BY <1>1
    <3>3. Start(l, i + 1) < Start(l, n + 1)
      BY <1>1, <1>4, <3>1, <3>2, StartGrows
    <3> QED
      BY <1>5, <1>6, <3>3
  <2> QED
    BY <2>1, <2>2
<1>8. ControlLen(n) + (Start(l, i) + l[i]) <= Len(p)
  BY <1>2, <1>3, <1>5, <1>6, <1>7
<1> QED
  BY <1>2, <1>5, <1>6, <1>8 DEF l

\* The client reads a complete payload as the extension does.
LEMMA ClientUnpacks ==
  ASSUME NEW p \in Seq(Bytes), NEW n \in Nat, n # 0, Complete(p, n)
  PROVE  ClientSvbDecode(p, n) = {Unpacked(p, n, Lengths(p, n))}
<1> DEFINE l == Lengths(p, n)
           c == ControlLen(n)
           data == SubSeq(p, c + 1, Len(p))
           z == <<0, 0, 0, 0>>
<1>1. c \in Nat /\ Len(p) \in Nat /\ c <= Len(p)
  BY ControlGrows DEF Complete
<1>2. ASSUME NEW i \in 1..n
      PROVE  /\ Start(l, i) \in Nat /\ l[i] \in Nat
             /\ c + (Start(l, i) + l[i]) <= Len(p)
  BY WithinData
<1>3. Len(data) = Len(p) - c
  BY <1>1
<1>4. z \in Seq(Bytes)
  BY Bases
<1>5. ClientSvbDecode(p, n) =
        IF \E i \in 1..n : Start(l, i) > Len(data) THEN {}
        ELSE {[i \in 1..n |-> OfDigits(SubSeq(data \o z, Start(l, i) + 1, Start(l, i) + l[i]), Base)]}
  BY <1>1 DEF ClientSvbDecode
<1>6. Unpacked(p, n, l) =
        [i \in 1..n |-> OfDigits(SubSeq(p, c + Start(l, i) + 1, c + Start(l, i) + l[i]), Base)]
  BY DEF Unpacked
<1> HIDE DEF l, c, z
<1>7. ~ \E i \in 1..n : Start(l, i) > Len(data)
  <2> SUFFICES ASSUME NEW i \in 1..n PROVE ~(Start(l, i) > Len(data))
    OBVIOUS
  <2> DEFINE a == Start(l, i)
  <2>1. a \in Nat /\ l[i] \in Nat /\ c + (a + l[i]) <= Len(p)
    BY <1>2
  <2> HIDE DEF a
  <2>2. ~(a > Len(p) - c)
    BY <1>1, <2>1
  <2> QED
    BY <1>3, <2>2 DEF a
<1>8. ASSUME NEW i \in 1..n
      PROVE  SubSeq(data \o z, Start(l, i) + 1, Start(l, i) + l[i])
               = SubSeq(p, c + Start(l, i) + 1, c + Start(l, i) + l[i])
  <2> DEFINE a == Start(l, i)
             e == a + l[i]
  <2>1. a \in Nat /\ l[i] \in Nat /\ c + (a + l[i]) <= Len(p)
    BY <1>2
  <2> HIDE DEF a
  <2>2. e \in Nat /\ a <= e /\ c + e <= Len(p) /\ c + e = c + a + l[i]
    BY <1>1, <2>1
  <2> HIDE DEF e
  <2> DEFINE T == Bytes
  <2>3. p \in Seq(T) /\ z \in Seq(T)
    BY <1>4
  <2> HIDE DEF T, data
  <2>4. SubSeq(SubSeq(p, c + 1, Len(p)) \o z, a + 1, e) = SubSeq(p, c + a + 1, c + e)
    <3>1. /\ p \in Seq(T) /\ z \in Seq(T) /\ c \in Nat /\ a \in Nat /\ e \in Nat
          /\ a <= e /\ c + e <= Len(p)
      BY <1>1, <2>1, <2>2, <2>3
    <3>2. Ahead(p, z, c, a, e)
      BY <3>1, SubSeqAhead
    <3> QED
      BY <3>2 DEF Ahead
  <2> QED
    BY <2>2, <2>4 DEF a, e, data
<1> HIDE DEF data
<1>9. [i \in 1..n |-> OfDigits(SubSeq(data \o z, Start(l, i) + 1, Start(l, i) + l[i]), Base)]
        = [i \in 1..n |-> OfDigits(SubSeq(p, c + Start(l, i) + 1, c + Start(l, i) + l[i]), Base)]
  BY <1>8
<1>10. ClientSvbDecode(p, n) = {Unpacked(p, n, l)}
  BY <1>5, <1>6, <1>7, <1>9
<1> QED
  BY <1>10 DEF l

\* The tokens of ranks.
Tokens(ranks, n) == [i \in 1..n |-> Token(Table, ranks[i])]

\* What the extension decodes.
LEMMA FreqDecodes ==
  ASSUME NEW p \in Seq(Bytes), NEW n \in Nat
  PROVE  DecodeFreq(p, n) = IF n = 0 THEN {<<>>}
                            ELSE IF Complete(p, n) THEN {Tokens(Unpacked(p, n, Lengths(p, n)), n)}
                            ELSE {}
<1>1. \A l : [i \in 1..n |->
        LET at == ControlLen(n) + Start(l, i) IN
        Token(Table, OfDigits(SubSeq(p, at + 1, at + l[i]), Base))] = Tokens(Unpacked(p, n, l), n)
  BY DEF Tokens, Unpacked
<1>2. ControlLen(n) \in Nat /\ Len(p) \in Nat
  BY ControlGrows
<1>3. Len(p) < ControlLen(n) <=> ~(ControlLen(n) <= Len(p))
  BY <1>2
<1> QED
  BY <1>1, <1>3 DEF DecodeFreq, Complete

\* What the client decodes of what the extension decodes.
LEMMA FreqFollows ==
  ASSUME NEW p \in Seq(Bytes), NEW n \in Nat, NEW list \in DecodeFreq(p, n)
  PROVE  {[i \in 1..n |-> ClientToken(ranks[i])] : ranks \in ClientSvbDecode(p, n)} = {list}
<1>1. CASE n = 0
  <2>1. list = <<>> /\ ClientSvbDecode(p, n) = {<<>>}
    BY <1>1 DEF DecodeFreq, ClientSvbDecode
  <2>2. \A r : [i \in 1..n |-> ClientToken(r[i])] = <<>>
    BY <1>1
  <2> QED
    BY <2>1, <2>2
<1>2. CASE n # 0
  <2>1. Complete(p, n) /\ list = Tokens(Unpacked(p, n, Lengths(p, n)), n)
    BY <1>2, FreqDecodes
  <2>2. ClientSvbDecode(p, n) = {Unpacked(p, n, Lengths(p, n))}
    BY <1>2, <2>1, ClientUnpacks
  <2>3. \A r : [i \in 1..n |-> ClientToken(r[i])] = Tokens(r, n)
    BY DEF Tokens, ClientToken, Token
  <2> QED
    BY <2>1, <2>2, <2>3
<1> QED
  BY <1>1, <1>2

\* Packed integers are complete and decode to their tokens.
LEMMA PackedReads ==
  ASSUME NEW list \in Seq(U32)
  PROVE  /\ Packed(list) \in Seq(Bytes) /\ Complete(Packed(list), Len(list))
         /\ Len(list) # 0 => Packed(list) # <<>>
         /\ DecodeFreq(Packed(list), Len(list)) = {Tokens(list, Len(list))}
<1> DEFINE n == Len(list)
           p == Packed(list)
           l == SvbLens(list)
<1>1. n \in Nat
  OBVIOUS
<1>2. p \in Seq(Bytes) /\ Lengths(p, n) = l /\ Len(p) = ControlLen(n) + Start(l, n + 1)
  BY PackedIs DEF LaidOut
<1>3. Unpacked(p, n, l) = list
  BY UnpackedIs
<1>4. l \in Seq(Nat) /\ Len(l) = n /\ \A i \in 1..n : l[i] # 0
  BY SvbLensTyped
<1> HIDE DEF n, p, l
<1>5. n + 1 \in 1..Len(l) + 1 /\ 1 \in 1..Len(l) + 1
  BY <1>1, <1>4
<1>6. Start(l, n + 1) \in Nat /\ Start(l, 1) = 0
  BY <1>4, <1>5, StartNext
<1>7. ControlLen(n) \in Nat /\ Len(p) \in Nat
  BY <1>1, <1>2, ControlGrows
<1>8. Complete(p, n)
  BY <1>2, <1>6, <1>7 DEF Complete
<1>9. n # 0 => Len(p) # 0
  <2> SUFFICES ASSUME n # 0 PROVE Len(p) # 0
    OBVIOUS
  <2>1. 1 < n + 1
    BY <1>1
  <2>2. Start(l, 1) < Start(l, n + 1)
    BY <1>4, <1>5, <2>1, StartGrows
  <2> QED
    BY <1>2, <1>6, <1>7, <2>2
<1>10. DecodeFreq(p, n) = {Tokens(list, n)}
  <2>1. CASE n = 0
    <3>1. Tokens(list, n) = <<>>
      BY <2>1 DEF Tokens
    <3> QED
      BY <1>1, <1>2, <2>1, <3>1, FreqDecodes
  <2>2. CASE n # 0
    BY <1>1, <1>2, <1>3, <1>8, <2>2, FreqDecodes
  <2> QED
    BY <2>1, <2>2
<1>11. Len(<<>>) = 0
  OBVIOUS
<1>12. n # 0 => p # <<>>
  BY <1>9, <1>11
<1> QED
  BY <1>2, <1>8, <1>10, <1>12 DEF n, p

-----------------------------------------------------------------------------
(* The raw codecs.                                                           *)

Raw == {"raw8", "raw16", "raw24"}

\* A raw codec takes one to three bytes, and what they hold is a u32.
LEMMA RawWidths ==
  ASSUME NEW codec \in Raw
  PROVE  /\ Width(codec) \in 1..3 /\ Width(codec) \in Nat /\ Width(codec) # 0
         /\ Power(Base, Width(codec)) \in Nat /\ Power(Base, Width(codec)) <= Power(Base, 4)
<1>1. Width(codec) = 1 \/ Width(codec) = 2 \/ Width(codec) = 3
  BY DEF Width, Raw
<1>2. 1 \in Nat /\ 2 \in Nat /\ 3 \in Nat /\ 4 \in Nat /\ 1 \in 1..3 /\ 2 \in 1..3 /\ 3 \in 1..3
      /\ 1 # 0 /\ 2 # 0 /\ 3 # 0
  OBVIOUS
<1>3. Width(codec) \in 1..3 /\ Width(codec) \in Nat /\ Width(codec) # 0
  BY <1>1, <1>2
<1> DEFINE p1 == Power(Base, 1)
           p2 == Power(Base, 2)
           p3 == Power(Base, 3)
           p4 == Power(Base, 4)
<1>4. p1 \in Nat /\ p2 \in Nat /\ p3 \in Nat /\ p4 \in Nat /\ p1 <= p2 /\ p2 <= p3 /\ p3 <= p4
  BY <1>2, PowersGrow
<1>5. Power(Base, Width(codec)) \in {p1, p2, p3}
  BY <1>1
<1> HIDE DEF p1, p2, p3, p4
<1>6. Power(Base, Width(codec)) \in Nat /\ Power(Base, Width(codec)) <= p4
  BY <1>4, <1>5
<1> QED
  BY <1>3, <1>6 DEF p4

\* What is below a power is a u32.
LEMMA FitsU32 ==
  ASSUME NEW q \in Nat, q <= Power(Base, 4), NEW x \in Nat, x < q
  PROVE  x \in U32
<1> DEFINE p4 == Power(Base, 4)
<1>1. p4 \in Nat /\ q <= p4 /\ MaxU32 = p4 - 1
  BY PowersGrow, Bases
<1> HIDE DEF p4
<1>2. x \in 0..MaxU32
  BY <1>1
<1> QED
  BY <1>2 DEF U32

\* What a reversed sequence is.
LEMMA ReverseIs ==
  ASSUME NEW S, NEW s \in Seq(S)
  PROVE  /\ Reverse(s) \in Seq(S) /\ Len(Reverse(s)) = Len(s) /\ Len(s) \in Nat
         /\ \A i \in 1..Len(s) : Reverse(s)[i] = s[(Len(s) - i) + 1]
BY DEF Reverse

\* Of three elements, the last becomes the first.
LEMMA ReverseOfThree ==
  ASSUME NEW S, NEW s \in Seq(S), Len(s) = 3
  PROVE  /\ Reverse(s) \in Seq(S) /\ Len(Reverse(s)) = 3
         /\ \A i \in 1..3 : Reverse(s)[i] = s[(3 - i) + 1]
<1>1. \A i \in 1..Len(s) : Reverse(s)[i] = s[(Len(s) - i) + 1]
  BY DEF Reverse
<1>2. Reverse(s) \in Seq(S) /\ Len(Reverse(s)) = Len(s)
  BY ReverseIs
<1> HIDE DEF Reverse
<1> QED
  BY <1>1, <1>2

\* Reversing twice changes nothing.
LEMMA ReverseTwice ==
  ASSUME NEW S, NEW s \in Seq(S)
  PROVE  Reverse(Reverse(s)) = s
<1> DEFINE r == Reverse(s)
           t == Reverse(r)
           n == Len(s)
<1>1. r \in Seq(S) /\ Len(r) = n /\ n \in Nat /\ \A i \in 1..n : r[i] = s[(n - i) + 1]
  BY ReverseIs
<1> HIDE DEF r, n
<1>2. t \in Seq(S) /\ Len(t) = n /\ \A i \in 1..n : t[i] = r[(n - i) + 1]
  BY <1>1, ReverseIs
<1>3. \A i \in 1..n : (n - i) + 1 \in 1..n /\ (n - ((n - i) + 1)) + 1 = i
  BY <1>1
<1> HIDE DEF t
<1>4. ASSUME NEW i \in 1..n
      PROVE  t[i] = s[i]
  <2>1. t[i] = r[(n - i) + 1]
    BY <1>2
  <2>2. r[(n - i) + 1] = s[(n - ((n - i) + 1)) + 1]
    BY <1>1, <1>3
  <2>3. (n - ((n - i) + 1)) + 1 = i
    BY <1>3
  <2> QED
    BY <2>1, <2>2, <2>3
<1>5. Len(s) = n
  BY DEF n
<1>6. t = s
  BY <1>2, <1>4, <1>5, SeqSame
<1> QED
  BY <1>6 DEF t, r

\* The bytes of an id, and of a list.
RawCells(codec, x) ==
  IF codec = "raw24" THEN Reverse(LittleEndian(x, Width(codec))) ELSE LittleEndian(x, Width(codec))

RawPayload(codec, list) == FlattenSeq([i \in 1..Len(list) |-> RawCells(codec, list[i])])

\* The number of bytes.
RawNumber(codec, cells) == OfDigits(IF codec = "raw24" THEN Reverse(cells) ELSE cells, Base)

\* Bytes of an id that fits give it again.
LEMMA RawCellsIs ==
  ASSUME NEW codec \in Raw, NEW x \in Nat
  PROVE  /\ RawCells(codec, x) \in Seq(Bytes) /\ Len(RawCells(codec, x)) = Width(codec)
         /\ x < Power(Base, Width(codec)) => RawNumber(codec, RawCells(codec, x)) = x
<1> DEFINE w == Width(codec)
           c == LittleEndian(x, w)
           T == Bytes
<1>1. w \in Nat
  BY RawWidths
<1> HIDE DEF w
<1>2. c \in Seq(Bytes) /\ Len(c) = w /\ (x < Power(Base, w) => OfDigits(c, Base) = x)
  BY <1>1, LittleEndianIs
<1>3. c \in Seq(T)
  BY <1>2
<1> HIDE DEF c, T
<1>4. Reverse(c) \in Seq(T) /\ Len(Reverse(c)) = w /\ Reverse(Reverse(c)) = c
  BY <1>2, <1>3, ReverseIs, ReverseTwice
<1>5. RawCells(codec, x) = IF codec = "raw24" THEN Reverse(c) ELSE c
  BY DEF RawCells, c, w
<1>6. RawCells(codec, x) \in Seq(Bytes) /\ Len(RawCells(codec, x)) = w
  BY <1>2, <1>4, <1>5 DEF T
<1>7. RawNumber(codec, RawCells(codec, x)) = OfDigits(c, Base)
  BY <1>4, <1>5 DEF RawNumber
<1> QED
  BY <1>2, <1>6, <1>7 DEF w

\* Joined pieces of one length lie at its multiples.
LEMMA FixedPieces ==
  ASSUME NEW S, NEW s \in Seq(Seq(S)), NEW w \in Nat, \A i \in 1..Len(s) : Len(s[i]) = w
  PROVE  /\ FlattenSeq(s) \in Seq(S) /\ Len(FlattenSeq(s)) = Len(s) * w
         /\ \A i \in 1..Len(s) : SubSeq(FlattenSeq(s), (i - 1) * w + 1, i * w) = s[i]
<1> DEFINE P == {n \in Nat : n <= Len(s) => Upto(s, n) = n * w}
<1>1. Len(s) \in Nat
  OBVIOUS
<1>2. 0 \in P
  <2>1. Upto(s, 0) = 0
    BY JoinedNone DEF Upto
  <2> QED
    BY <2>1
<1>3. ASSUME NEW n \in Nat, n \in P
      PROVE  n + 1 \in P
  <2> SUFFICES ASSUME n + 1 <= Len(s) PROVE Upto(s, n + 1) = (n + 1) * w
    OBVIOUS
  <2>1. n < Len(s) /\ n + 1 \in 1..Len(s) /\ Upto(s, n) = n * w
    BY <1>1, <1>3
  <2>2. Upto(s, n + 1) = Upto(s, n) + Len(s[n + 1])
    BY <2>1, PieceOf
  <2>3. Len(s[n + 1]) = w
    BY <2>1
  <2>4. (n + 1) * w = n * w + w
    OBVIOUS
  <2> QED
    BY <2>1, <2>2, <2>3, <2>4
<1> HIDE DEF P
<1>4. Nat \subseteq P
  BY <1>2, <1>3, NatSetInduction
<1>5. \A n \in Nat : n <= Len(s) => Upto(s, n) = n * w
  BY <1>4 DEF P
<1> DEFINE f == FlattenSeq(s)
<1>6. f \in Seq(S) /\ Joined(s, Len(s)) = f
  BY FlattenTyped, JoinedAll
<1>7. Len(f) = Len(s) * w
  BY <1>1, <1>5, <1>6 DEF Upto
<1>8. ASSUME NEW i \in 1..Len(s)
      PROVE  SubSeq(f, (i - 1) * w + 1, i * w) = s[i]
  <2> DEFINE k == i - 1
  <2>1. k \in Nat /\ k < Len(s) /\ k + 1 = i /\ i \in Nat /\ i <= Len(s) /\ k <= Len(s)
    BY <1>1
  <2>2. Upto(s, k) = k * w /\ Upto(s, i) = i * w
    BY <1>5, <2>1
  <2> HIDE DEF k, f
  <2>3. SubSeq(f, Upto(s, k) + 1, Upto(s, k + 1)) = s[k + 1]
    BY <2>1, PieceOf DEF f
  <2>4. SubSeq(f, k * w + 1, i * w) = s[i]
    BY <2>1, <2>2, <2>3
  <2> QED
    BY <2>4 DEF k
<1> QED
  BY <1>6, <1>7, <1>8

\* The multiples of a width up to n are in order, a width apart.
LEMMA TimesMore ==
  ASSUME NEW n \in Nat, NEW w \in Nat, NEW i \in 1..n
  PROVE  /\ (i - 1) * w \in Nat /\ i * w \in Nat /\ (i - 1) * w <= i * w /\ i * w <= n * w
         /\ i * w - (i - 1) * w = w
<1> DEFINE k == i - 1
           d == n - i
<1>1. k \in Nat /\ d \in Nat /\ i = k + 1 /\ n = i + d /\ i \in Nat
  OBVIOUS
<1> HIDE DEF k, d
<1>2. k * w \in Nat /\ i * w \in Nat /\ d * w \in Nat /\ i * w = k * w + w /\ n * w = i * w + d * w
  BY <1>1
<1>3. k * w <= i * w /\ i * w <= n * w /\ i * w - k * w = w
  BY <1>2
<1> QED
  BY <1>2, <1>3 DEF k

\* The chunks of a payload of the right length.
LEMMA ChunkTyped ==
  ASSUME NEW p \in Seq(Bytes), NEW n \in Nat, NEW w \in Nat, Len(p) = n * w, NEW i \in 1..n
  PROVE  Chunk(p, i, w) \in Seq(Bytes) /\ Len(Chunk(p, i, w)) = w
<1> DEFINE a == (i - 1) * w
           e == i * w
           T == Bytes
<1>1. a \in Nat /\ e \in Nat /\ a <= e /\ e <= Len(p) /\ e - a = w
  BY TimesMore
<1>2. p \in Seq(T)
  OBVIOUS
<1>3. Chunk(p, i, w) = SubSeq(p, a + 1, e)
  BY DEF Chunk
<1> HIDE DEF a, e, T
<1>4. SubSeq(p, a + 1, e) \in Seq(T) /\ Len(SubSeq(p, a + 1, e)) = e - a
  BY <1>1, <1>2, SubSeqIs
<1> QED
  BY <1>1, <1>3, <1>4 DEF T

\* Three digits to base b.
LEMMA Horner ==
  ASSUME NEW b \in Nat, NEW x \in Nat, NEW y \in Nat, NEW z \in Nat
  PROVE  ((0 * b + x) * b + y) * b + z = x * (b * b) + y * b + z
OBVIOUS

\* The elements of a sequence are in its set.
LEMMA SeqAt == \A S : \A s \in Seq(S) : \A i \in 1..Len(s) : s[i] \in S
OBVIOUS

\* Three digits.
LEMMA ThreeDigits ==
  ASSUME NEW b \in Nat, NEW ds \in Seq(Nat), Len(ds) = 3
  PROVE  OfDigits(ds, b) = ds[3] * (b * b) + ds[2] * b + ds[1]
<1>1. PICK f \in [0..3 -> Nat] : Values(ds, b, 3, f) /\ OfDigits(ds, b) = f[3]
  BY OfDigitsIs
<1>2. f[0] = 0 /\ \A k \in 1..3 : f[k] = f[k - 1] * b + ds[3 - k + 1]
  BY <1>1 DEF Values
<1>3. /\ f[1] = f[0] * b + ds[3] /\ f[2] = f[1] * b + ds[2] /\ f[3] = f[2] * b + ds[1]
  <2>1. /\ 1 \in 1..3 /\ 2 \in 1..3 /\ 3 \in 1..3 /\ 1 - 1 = 0 /\ 2 - 1 = 1 /\ 3 - 1 = 2
        /\ 3 - 1 + 1 = 3 /\ 3 - 2 + 1 = 2 /\ 3 - 3 + 1 = 1
    OBVIOUS
  <2> QED
    BY <1>2, <2>1
<1>4. ds[1] \in Nat /\ ds[2] \in Nat /\ ds[3] \in Nat
  <2>1. \A i \in 1..Len(ds) : ds[i] \in Nat
    BY SeqAt
  <2>2. \A i \in 1..3 : ds[i] \in Nat
    BY <2>1
  <2> QED
    BY <2>2
<1> DEFINE x == ds[3]
           y == ds[2]
           z == ds[1]
<1>5. f[3] = ((0 * b + x) * b + y) * b + z
  BY <1>2, <1>3
<1>6. x \in Nat /\ y \in Nat /\ z \in Nat
  BY <1>4
<1> HIDE DEF x, y, z
<1>7. ((0 * b + x) * b + y) * b + z = x * (b * b) + y * b + z
  BY <1>6, Horner
<1> QED
  BY <1>1, <1>5, <1>7 DEF x, y, z

\* The client's reading of a chunk.
ClientNumber(codec, b) ==
  IF codec = "raw24" THEN b[1] * Power(Base, 2) + b[2] * Base + b[3] ELSE OfDigits(b, Base)

\* Of any bytes, both sides read the same number, a u32.
LEMMA NumberTyped ==
  ASSUME NEW codec \in Raw, NEW c \in Seq(Bytes), Len(c) = Width(codec)
  PROVE  RawNumber(codec, c) \in U32 /\ ClientNumber(codec, c) = RawNumber(codec, c)
<1> DEFINE r == IF codec = "raw24" THEN Reverse(c) ELSE c
           w == Width(codec)
           T == Bytes
<1>1. c \in Seq(T)
  OBVIOUS
<1>2. r \in Seq(T) /\ Len(r) = w
  <2> HIDE DEF T
  <2>1. Reverse(c) \in Seq(T) /\ Len(Reverse(c)) = Len(c)
    BY <1>1, ReverseIs
  <2> QED
    BY <1>1, <2>1
<1>3. RawNumber(codec, c) = OfDigits(r, Base)
  BY DEF RawNumber
<1>4. r \in Seq(0..Base - 1)
  BY <1>2, Bases
<1> HIDE DEF r, T
<1>5. OfDigits(r, Base) \in Nat /\ OfDigits(r, Base) < Power(Base, w)
  BY <1>2, <1>4, OfDigitsBelow, Bases
<1>6. OfDigits(r, Base) \in U32
  BY <1>5, RawWidths, FitsU32
<1>7. CASE codec = "raw24"
  <2>1. Len(c) = 3
    BY <1>7 DEF Width
  <2>2. /\ r = Reverse(c) /\ r[1] = c[3] /\ r[2] = c[2] /\ r[3] = c[1] /\ Len(r) = 3
    <3>1. r = Reverse(c)
      BY <1>7 DEF r
    <3>2. \A i \in 1..3 : r[i] = c[(3 - i) + 1]
      BY <1>1, <2>1, <3>1, ReverseOfThree
    <3>3. 1 \in 1..3 /\ 2 \in 1..3 /\ 3 \in 1..3 /\ (3 - 1) + 1 = 3 /\ (3 - 2) + 1 = 2 /\ (3 - 3) + 1 = 1
      OBVIOUS
    <3>4. r[1] = c[3] /\ r[2] = c[2] /\ r[3] = c[1]
      BY <3>2, <3>3
    <3> QED
      BY <1>2, <2>1, <3>1, <3>4
  <2>3. r \in Seq(Nat)
    BY <1>2, SeqWider, Bases DEF T
  <2>4. OfDigits(r, Base) = r[3] * (Base * Base) + r[2] * Base + r[1]
    BY <2>2, <2>3, Bases, ThreeDigits
  <2>5. Power(Base, 2) = Base * Base
    BY Bases, PowersSmall
  <2>6. ClientNumber(codec, c) = c[1] * Power(Base, 2) + c[2] * Base + c[3]
    BY <1>7 DEF ClientNumber
  <2>7. ClientNumber(codec, c) = OfDigits(r, Base)
    BY <2>2, <2>4, <2>5, <2>6
  <2> QED
    BY <1>3, <1>6, <2>7
<1>8. CASE codec # "raw24"
  BY <1>3, <1>6, <1>8 DEF ClientNumber, r
<1> QED
  BY <1>7, <1>8

\* The numbers of a payload.
RawNumbers(codec, p, n) == [i \in 1..n |-> RawNumber(codec, Chunk(p, i, Width(codec)))]

\* What the extension decodes, the client decodes.
LEMMA RawFollows ==
  ASSUME NEW codec \in Raw, NEW p \in Seq(Bytes), NEW n \in Nat, Len(p) = n * Width(codec)
  PROVE  /\ DecodeRaw(codec, p, n) = {RawNumbers(codec, p, n)}
         /\ [i \in 1..n |->
              LET b == Chunk(p, i, Width(codec)) IN
              IF codec = "raw24" THEN b[1] * Power(Base, 2) + b[2] * Base + b[3] ELSE OfDigits(b, Base)]
              = RawNumbers(codec, p, n)
         /\ RawNumbers(codec, p, n) \in Seq(U32) /\ Len(RawNumbers(codec, p, n)) = n
<1> DEFINE c(i) == Chunk(p, i, Width(codec))
<1>1. \A i \in 1..n : /\ RawNumber(codec, c(i)) \in U32
                      /\ ClientNumber(codec, c(i)) = RawNumber(codec, c(i))
  <2> SUFFICES ASSUME NEW i \in 1..n
               PROVE  /\ RawNumber(codec, c(i)) \in U32
                      /\ ClientNumber(codec, c(i)) = RawNumber(codec, c(i))
    OBVIOUS
  <2>1. Width(codec) \in Nat
    BY RawWidths
  <2>2. c(i) \in Seq(Bytes) /\ Len(c(i)) = Width(codec)
    BY <2>1, ChunkTyped
  <2> HIDE DEF c
  <2> QED
    BY <2>2, NumberTyped
<1>2. DecodeRaw(codec, p, n) = {RawNumbers(codec, p, n)}
  BY DEF DecodeRaw, RawNumbers, RawNumber
<1>3. [i \in 1..n |->
        LET b == Chunk(p, i, Width(codec)) IN
        IF codec = "raw24" THEN b[1] * Power(Base, 2) + b[2] * Base + b[3] ELSE OfDigits(b, Base)]
        = [i \in 1..n |-> ClientNumber(codec, c(i))]
  BY DEF ClientNumber
<1>4. [i \in 1..n |-> ClientNumber(codec, c(i))] = RawNumbers(codec, p, n)
  BY <1>1 DEF RawNumbers
<1>5. RawNumbers(codec, p, n) \in [1..n -> U32]
  BY <1>1 DEF RawNumbers
<1>6. RawNumbers(codec, p, n) \in Seq(U32) /\ Len(RawNumbers(codec, p, n)) = n
  BY <1>5
<1> QED
  BY <1>2, <1>3, <1>4, <1>6

\* No id of a list is too wide.
Fits(codec, list) == \A i \in 1..Len(list) : list[i] < Power(Base, Width(codec))

\* The bytes of a list give it again, where every id fits.
LEMMA RawReads ==
  ASSUME NEW codec \in Raw, NEW list \in Seq(U32)
  PROVE  /\ RawPayload(codec, list) \in Seq(Bytes)
         /\ Len(RawPayload(codec, list)) = Len(list) * Width(codec)
         /\ Fits(codec, list) => RawNumbers(codec, RawPayload(codec, list), Len(list)) = list
<1> DEFINE n == Len(list)
           w == Width(codec)
           s == [i \in 1..n |-> RawCells(codec, list[i])]
           T == Bytes
<1>1. n \in Nat /\ \A i \in 1..n : list[i] \in Nat
  <2>1. list \in Seq(Nat)
    BY Bases, SeqWider
  <2> QED
    BY <2>1
<1>2. \A i \in 1..n : /\ RawCells(codec, list[i]) \in Seq(Bytes)
                      /\ Len(RawCells(codec, list[i])) = w
                      /\ list[i] < Power(Base, w) => RawNumber(codec, RawCells(codec, list[i])) = list[i]
  BY <1>1, RawCellsIs
<1>3. s \in [1..n -> Seq(T)]
  BY <1>2
<1>4. s \in Seq(Seq(T)) /\ Len(s) = n
  BY <1>1, <1>3
<1>5. \A i \in 1..n : Len(s[i]) = w /\ s[i] = RawCells(codec, list[i])
  BY <1>2
<1>6. w \in Nat
  BY RawWidths
<1>7. list = [i \in 1..n |-> list[i]]
  OBVIOUS
<1>8. RawPayload(codec, list) = FlattenSeq(s)
  BY DEF RawPayload
<1> HIDE DEF n, s, T
<1>9. /\ FlattenSeq(s) \in Seq(T) /\ Len(FlattenSeq(s)) = n * w
      /\ \A i \in 1..n : SubSeq(FlattenSeq(s), (i - 1) * w + 1, i * w) = s[i]
  <2> HIDE DEF w
  <2> QED
    BY <1>4, <1>5, <1>6, FixedPieces
<1>10. \A i \in 1..n : Chunk(FlattenSeq(s), i, w) = RawCells(codec, list[i])
  BY <1>5, <1>9 DEF Chunk
<1>11. ASSUME Fits(codec, list)
       PROVE  RawNumbers(codec, FlattenSeq(s), n) = list
  <2>1. \A i \in 1..n : RawNumber(codec, Chunk(FlattenSeq(s), i, w)) = list[i]
    BY <1>2, <1>10, <1>11 DEF Fits, n
  <2>2. RawNumbers(codec, FlattenSeq(s), n) = [i \in 1..n |-> list[i]]
    BY <2>1 DEF RawNumbers
  <2> QED
    BY <1>7, <2>2
<1> QED
  BY <1>8, <1>9, <1>11 DEF T, n

\* The client's bytes of an id are the extension's.
LEMMA ClientCellsAre ==
  ASSUME NEW codec \in Raw, NEW x \in Nat, x < Power(Base, Width(codec))
  PROVE  ClientCells(codec, x) = RawCells(codec, x)
<1> DEFINE w == Width(codec)
           c == LittleEndian(x, w)
<1>1. w \in Nat
  BY RawWidths
<1>2. c \in Seq(Bytes) /\ Len(c) = w /\ \A i \in 1..w : c[i] = (x \div Power(Base, i - 1)) % Base
  BY <1>1, LittleEndianIs
<1>3. Power(Base, 0) = 1 /\ Power(Base, 1) = Base /\ Base \in Nat /\ Base # 0
  BY Bases, PowersSmall
<1>4. x \div 1 = x
  OBVIOUS
<1>5. CASE codec = "raw8"
  <2>1. w = 1 /\ 1 \in 1..1 /\ 1 - 1 = 0
    BY <1>5 DEF Width
  <2>2. x < Base
    BY <1>3, <2>1
  <2>3. x % Base = x
    BY <1>3, <2>2, DivSmall
  <2>4. c[1] = x
    BY <1>2, <1>3, <1>4, <2>1, <2>3
  <2> HIDE DEF c
  <2>5. c = <<x>>
    BY <1>2, <2>1, <2>4
  <2>6. RawCells(codec, x) = c
    BY <1>5 DEF RawCells, c
  <2> QED
    BY <1>5, <2>5, <2>6 DEF ClientCells
<1>6. CASE codec = "raw16"
  BY <1>6 DEF ClientCells, RawCells, Width
<1>7. CASE codec = "raw24"
  <2>1. w = 3 /\ 1 \in 1..3 /\ 2 \in 1..3 /\ 3 \in 1..3 /\ 1 - 1 = 0 /\ 2 - 1 = 1 /\ 3 - 1 = 2
    BY <1>7 DEF Width
  <2>2. /\ c[1] = x % Base /\ c[2] = (x \div Base) % Base
        /\ c[3] = (x \div Power(Base, 2)) % Base
    BY <1>2, <1>3, <1>4, <2>1
  <2> DEFINE T == Bytes
             r == Reverse(c)
  <2>3. c \in Seq(T)
    BY <1>2
  <2>4. Len(c) = 3
    BY <1>2, <2>1
  <2> HIDE DEF c, T
  <2>5. r \in Seq(T) /\ Len(r) = 3 /\ \A i \in 1..3 : r[i] = c[(3 - i) + 1]
    BY <2>3, <2>4, ReverseOfThree
  <2>6. (3 - 1) + 1 = 3 /\ (3 - 2) + 1 = 2 /\ (3 - 3) + 1 = 1
    OBVIOUS
  <2>7. r[1] = c[3] /\ r[2] = c[2] /\ r[3] = c[1]
    BY <2>1, <2>5, <2>6
  <2>8. RawCells(codec, x) = r
    BY <1>7 DEF RawCells, c
  <2> HIDE DEF r
  <2>9. r = <<r[1], r[2], r[3]>>
    BY <2>5
  <2>10. ClientCells(codec, x) = <<r[1], r[2], r[3]>>
    BY <1>7, <2>2, <2>7 DEF ClientCells
  <2> QED
    BY <2>8, <2>9, <2>10
<1> QED
  BY <1>5, <1>6, <1>7 DEF Raw

-----------------------------------------------------------------------------
(* Writing.                                                                  *)

AllFit(list) == \A i \in 1..Len(list) : RankFits(Table, list[i])
ExtRanks(list) == [i \in 1..Len(list) |-> Rank(Table, list[i])]
ClientRanks(list) == [i \in 1..Len(list) |-> ClientRank(list[i])]

\* What the assumption on the constants says of the ranking.
LEMMA TableIs == IsTable(Table) /\ K(Table) \in Nat /\ K(Table) <= MaxU32 /\ MaxU32 \in Nat
BY CodecAssumption, MaxU32Assumption DEF IsTable, K, U32

\* The client's rank is a u32, and the extension's where the id has one.
LEMMA ClientRankIs ==
  ASSUME NEW id \in U32
  PROVE  /\ ClientRank(id) \in U32
         /\ RankFits(Table, id) => ClientRank(id) = Rank(Table, id) /\ Rank(Table, id) \in U32
<1>1. id \in Nat /\ id <= MaxU32
  BY TableIs DEF U32
<1>2. RankFits(Table, id) => Rank(Table, id) \in U32
  BY TableIs, RankRoundTrip
<1>3. CASE id \in Ranked(Table)
  <2>1. RankFits(Table, id) /\ ClientRank(id) = Rank(Table, id)
    BY <1>3 DEF RankFits, ClientRank, Rank
  <2> QED
    BY <1>2, <2>1
<1>4. CASE id \notin Ranked(Table)
  <2> DEFINE x == id + K(Table)
             m == MaxU32 + 1
  <2>1. x \in Nat /\ m \in Nat /\ m # 0 /\ m - 1 = MaxU32 /\ (x <= MaxU32 <=> x < m)
    BY <1>1, TableIs
  <2>2. ClientRank(id) = x % m /\ Rank(Table, id) = x /\ (RankFits(Table, id) => x <= MaxU32)
    BY <1>4 DEF ClientRank, Rank, RankFits
  <2> HIDE DEF x, m
  <2>3. x % m \in Nat /\ x % m < m
    BY <2>1, DivMod
  <2>4. x % m \in U32
    BY <2>1, <2>3 DEF U32
  <2>5. x < m => x % m = x
    BY <2>1, DivSmall
  <2> QED
    BY <1>2, <2>1, <2>2, <2>4, <2>5
<1> QED
  BY <1>3, <1>4

\* Ranks are u32s, and those of a list that fits lead back to it.
LEMMA RanksAre ==
  ASSUME NEW list \in Seq(U32)
  PROVE  /\ ClientRanks(list) \in Seq(U32) /\ Len(ClientRanks(list)) = Len(list)
         /\ AllFit(list) => /\ ExtRanks(list) = ClientRanks(list)
                            /\ Tokens(ExtRanks(list), Len(list)) = list
<1>1. \A i \in 1..Len(list) : list[i] \in U32
  BY SeqAt
<1>2. ClientRanks(list) \in [1..Len(list) -> U32]
  BY <1>1, ClientRankIs DEF ClientRanks
<1>3. ClientRanks(list) \in Seq(U32) /\ Len(ClientRanks(list)) = Len(list)
  BY <1>2
<1>4. ASSUME AllFit(list)
      PROVE  ExtRanks(list) = ClientRanks(list) /\ Tokens(ExtRanks(list), Len(list)) = list
  <2>1. \A i \in 1..Len(list) : RankFits(Table, list[i])
    BY <1>4 DEF AllFit
  <2>2. \A i \in 1..Len(list) : ClientRank(list[i]) = Rank(Table, list[i])
    BY <1>1, <2>1, ClientRankIs
  <2>3. \A i \in 1..Len(list) : Token(Table, Rank(Table, list[i])) = list[i]
    BY <1>1, <2>1, TableIs, RankRoundTrip
  <2>4. ExtRanks(list) = ClientRanks(list)
    BY <2>2 DEF ExtRanks, ClientRanks
  <2>5. Tokens(ExtRanks(list), Len(list)) = [i \in 1..Len(list) |-> list[i]]
    BY <2>3 DEF Tokens, ExtRanks
  <2>6. list = [i \in 1..Len(list) |-> list[i]]
    OBVIOUS
  <2> QED
    BY <2>4, <2>5, <2>6
<1> QED
  BY <1>3, <1>4

\* The value both sides write.
Payload(codec, list) ==
  IF codec = "freq" THEN Packed(ClientRanks(list)) ELSE RawPayload(codec, list)
Standard(codec, vocab, list) == Framed(codec, vocab, list, Payload(codec, list))

\* The codec holds the list.
Holds(codec, list) == codec = "freq" \/ Fits(codec, list)

\* A codec is freq or raw.
LEMMA CodecIs == \A codec \in Codec : codec = "freq" \/ (codec # "freq" /\ codec \in Raw)
BY DEF Codec, Raw

\* What each side writes with freq.
LEMMA FreqWrites ==
  ASSUME NEW list \in Seq(U32), NEW vocab
  PROVE  /\ ValueEncode("freq", vocab, list) =
              IF AllFit(list) THEN {Standard("freq", vocab, list)} ELSE {}
         /\ ClientEncode("freq", vocab, list) =
              IF K(Table) = 0 /\ list # <<>> THEN {} ELSE {Standard("freq", vocab, list)}
<1>1. DOMAIN list = 1..Len(list)
  OBVIOUS
<1>2. [i \in DOMAIN list |-> ClientRank(list[i])] = ClientRanks(list)
  BY <1>1 DEF ClientRanks
<1>3. [i \in DOMAIN list |-> Rank(Table, list[i])] = ExtRanks(list)
  BY <1>1 DEF ExtRanks
<1>4. (\A i \in DOMAIN list : RankFits(Table, list[i])) <=> AllFit(list)
  BY <1>1 DEF AllFit
<1>5. ClientSvbEncode(ClientRanks(list)) = Payload("freq", list)
  BY RanksAre, EncodersAgree DEF Payload
<1>6. ASSUME AllFit(list)
      PROVE  SvbEncode(ExtRanks(list)) = Payload("freq", list)
  BY <1>6, RanksAre, EncodersAgree DEF Payload
<1>7. EncodeFreq(list) = IF AllFit(list) THEN {Payload("freq", list)} ELSE {}
  BY <1>3, <1>4, <1>6 DEF EncodeFreq
<1>8. ValueEncode("freq", vocab, list) = {Framed("freq", vocab, list, p) : p \in EncodeFreq(list)}
  BY DEF ValueEncode
<1>9. ClientEncode("freq", vocab, list) =
        IF K(Table) = 0 /\ list # <<>> THEN {}
        ELSE {Framed("freq", vocab, list, ClientSvbEncode(ClientRanks(list)))}
  BY <1>2 DEF ClientEncode
<1> QED
  BY <1>5, <1>7, <1>8, <1>9 DEF Standard

\* What each side writes with a raw codec.
LEMMA RawWrites ==
  ASSUME NEW list \in Seq(U32), NEW vocab, NEW codec \in Raw
  PROVE  /\ ValueEncode(codec, vocab, list) =
              IF Fits(codec, list) THEN {Standard(codec, vocab, list)} ELSE {}
         /\ ClientEncode(codec, vocab, list) =
              IF Fits(codec, list) THEN {Standard(codec, vocab, list)} ELSE {}
<1> DEFINE w == Width(codec)
           q == Power(Base, w)
<1>1. DOMAIN list = 1..Len(list)
  OBVIOUS
<1>2. codec # "freq"
  BY DEF Raw
<1>3. q \in Nat
  BY RawWidths
<1>4. \A i \in 1..Len(list) : list[i] \in Nat
  BY SeqAt, Bases
<1>5. Fits(codec, list) <=> \A i \in 1..Len(list) : list[i] < q
  BY DEF Fits
<1> HIDE DEF q
<1>6. \A i \in 1..Len(list) : (list[i] > q - 1 <=> ~(list[i] < q)) /\ (list[i] >= q <=> ~(list[i] < q))
  BY <1>3, <1>4
<1>7. (\E i \in DOMAIN list : list[i] > q - 1) <=> ~Fits(codec, list)
  BY <1>1, <1>5, <1>6
<1>8. (\E i \in DOMAIN list : list[i] >= q) <=> ~Fits(codec, list)
  BY <1>1, <1>5, <1>6
<1>9. FlattenSeq([i \in DOMAIN list |->
        LET cells == LittleEndian(list[i], w) IN
        IF codec = "raw24" THEN Reverse(cells) ELSE cells]) = Payload(codec, list)
  BY <1>1, <1>2 DEF Payload, RawPayload, RawCells
<1>10. ASSUME Fits(codec, list)
       PROVE  FlattenSeq([i \in DOMAIN list |-> ClientCells(codec, list[i])]) = Payload(codec, list)
  <2>1. \A i \in 1..Len(list) : list[i] < Power(Base, Width(codec))
    BY <1>10 DEF Fits
  <2>2. \A i \in 1..Len(list) : ClientCells(codec, list[i]) = RawCells(codec, list[i])
    BY <1>4, <2>1, ClientCellsAre
  <2>3. [i \in DOMAIN list |-> ClientCells(codec, list[i])]
          = [i \in 1..Len(list) |-> RawCells(codec, list[i])]
    BY <1>1, <2>2
  <2> QED
    BY <1>2, <2>3 DEF Payload, RawPayload
<1>11. EncodeRaw(codec, list) = IF Fits(codec, list) THEN {Payload(codec, list)} ELSE {}
  BY <1>7, <1>9 DEF EncodeRaw, q
<1>12. ValueEncode(codec, vocab, list) = {Framed(codec, vocab, list, p) : p \in EncodeRaw(codec, list)}
  BY <1>2 DEF ValueEncode
<1>13. ClientEncode(codec, vocab, list) =
         IF \E i \in DOMAIN list : list[i] >= q THEN {}
         ELSE {Framed(codec, vocab, list,
                 FlattenSeq([i \in DOMAIN list |-> ClientCells(codec, list[i])]))}
  BY <1>2 DEF ClientEncode, q
<1>14. ValueEncode(codec, vocab, list) =
         IF Fits(codec, list) THEN {Standard(codec, vocab, list)} ELSE {}
  BY <1>11, <1>12 DEF Standard
<1>15. ClientEncode(codec, vocab, list) =
         IF Fits(codec, list) THEN {Standard(codec, vocab, list)} ELSE {}
  BY <1>8, <1>10, <1>13 DEF Standard
<1> QED
  BY <1>14, <1>15

\* Whoever writes a list writes the standard value, of a codec that holds it.
THEOREM WritersAgree ==
  ASSUME NEW list \in Seq(U32), NEW vocab, NEW codec \in Codec,
         NEW v \in ValueEncode(codec, vocab, list) \cup ClientEncode(codec, vocab, list)
  PROVE  v = Standard(codec, vocab, list) /\ Holds(codec, list)
<1>1. CASE codec = "freq"
  BY <1>1, FreqWrites DEF Holds
<1>2. CASE codec # "freq"
  <2>1. codec \in Raw
    BY <1>2, CodecIs
  <2> QED
    BY <2>1, RawWrites DEF Holds
<1> QED
  BY <1>1, <1>2

-----------------------------------------------------------------------------
(* Reading.                                                                  *)

\* The token of any u32 is a u32.
LEMMA TokenTyped ==
  ASSUME NEW rank \in U32
  PROVE  Token(Table, rank) \in U32
<1>1. rank \in Nat /\ rank <= MaxU32 /\ U32 = 0..MaxU32
  BY TableIs DEF U32
<1>2. CASE rank < K(Table)
  <2>1. rank + 1 \in 1..K(Table) /\ Token(Table, rank) = Table[rank + 1]
    BY <1>1, <1>2, TableIs DEF Token
  <2>2. Table \in Seq(U32) /\ K(Table) = Len(Table)
    BY TableIs DEF IsTable, K
  <2> QED
    BY <2>1, <2>2, SeqAt
<1>3. CASE ~(rank < K(Table))
  BY <1>1, <1>3, TableIs DEF Token
<1> QED
  BY <1>2, <1>3

\* Integers of any complete payload are u32s.
LEMMA UnpackedTyped ==
  ASSUME NEW p \in Seq(Bytes), NEW n \in Nat, Complete(p, n)
  PROVE  \A i \in 1..n : Unpacked(p, n, Lengths(p, n))[i] \in U32
<1> SUFFICES ASSUME NEW i \in 1..n PROVE Unpacked(p, n, Lengths(p, n))[i] \in U32
  OBVIOUS
<1> DEFINE m == Lengths(p, n)[i]
           a == ControlLen(n) + Start(Lengths(p, n), i)
           e == a + m
           d == SubSeq(p, a + 1, e)
           T == Bytes
<1>1. a \in Nat /\ e \in Nat /\ m \in Nat /\ a <= e /\ e - a = m /\ e <= Len(p)
  <2> DEFINE st == Start(Lengths(p, n), i)
             c == ControlLen(n)
  <2>1. st \in Nat /\ m \in Nat /\ c \in Nat /\ Len(p) \in Nat /\ c + (st + m) <= Len(p)
    BY WithinData
  <2> HIDE DEF st, c, m
  <2>2. (c + st) + m = c + (st + m)
    BY <2>1
  <2>3. c + st \in Nat /\ (c + st) + m \in Nat /\ c + st <= (c + st) + m /\ ((c + st) + m) - (c + st) = m
    BY <2>1
  <2>4. (c + st) + m <= Len(p)
    BY <2>1, <2>2
  <2> QED
    BY <2>1, <2>3, <2>4 DEF c, st
<1>2. Unpacked(p, n, Lengths(p, n))[i] = OfDigits(d, Base)
  BY DEF Unpacked
<1>3. m \in {1, 2, 3, 4}
  <2>1. m \in Nat /\ m # 0 /\ m <= 4
    BY LengthsTyped DEF Complete
  <2> QED
    BY <2>1
<1>4. p \in Seq(T)
  OBVIOUS
<1> HIDE DEF a, e, T, m
<1>5. d \in Seq(T) /\ Len(d) = m
  BY <1>1, <1>4, SubSeqIs
<1> HIDE DEF d
<1>6. d \in Seq(0..Base - 1)
  BY <1>5, Bases DEF T
<1>7. OfDigits(d, Base) \in Nat /\ OfDigits(d, Base) < Power(Base, m)
  BY <1>5, <1>6, OfDigitsBelow, Bases
<1>8. Power(Base, m) \in Nat /\ Power(Base, m) <= Power(Base, 4)
  <2> DEFINE p1 == Power(Base, 1)
             p2 == Power(Base, 2)
             p3 == Power(Base, 3)
             p4 == Power(Base, 4)
  <2>1. 1 \in Nat /\ 2 \in Nat /\ 3 \in Nat /\ 4 \in Nat
    OBVIOUS
  <2>2. p1 \in Nat /\ p2 \in Nat /\ p3 \in Nat /\ p4 \in Nat /\ p1 <= p2 /\ p2 <= p3 /\ p3 <= p4
    BY <2>1, PowersGrow
  <2>3. Power(Base, m) \in {p1, p2, p3, p4}
    BY <1>3
  <2> HIDE DEF p1, p2, p3, p4
  <2>4. Power(Base, m) \in Nat /\ Power(Base, m) <= p4
    BY <2>2, <2>3
  <2> QED
    BY <2>4 DEF p4
<1> QED
  BY <1>2, <1>7, <1>8, FitsU32

\* What the extension decodes with freq is as many u32s as it was asked for.
LEMMA FreqTyped ==
  ASSUME NEW p \in Seq(Bytes), NEW n \in Nat, NEW list \in DecodeFreq(p, n)
  PROVE  list \in Seq(U32) /\ Len(list) = n
<1>1. CASE n = 0
  <2>1. list = <<>>
    BY <1>1 DEF DecodeFreq
  <2> QED
    BY <1>1, <2>1
<1>2. CASE n # 0
  <2> DEFINE r == Unpacked(p, n, Lengths(p, n))
  <2>1. Complete(p, n) /\ list = Tokens(r, n)
    BY <1>2, FreqDecodes
  <2>2. \A i \in 1..n : r[i] \in U32
    BY <2>1, UnpackedTyped
  <2> HIDE DEF r
  <2>3. list \in [1..n -> U32]
    BY <2>1, <2>2, TokenTyped DEF Tokens
  <2> QED
    BY <2>3
<1> QED
  BY <1>1, <1>2

\* The fields of a value.
LEMMA ValueIs ==
  ASSUME NEW v \in Value
  PROVE  /\ v.payload \in Seq(Bytes) /\ v.n \in Nat /\ v.codec \in Codec \cup {"unknown"}
         /\ v.sound \in BOOLEAN /\ v.vocab \in Vocabs
         /\ v = [sound |-> v.sound, codec |-> v.codec, vocab |-> v.vocab, n |-> v.n,
                 payload |-> v.payload]
BY DEF Value

\* A raw value of any length, or a value of the freq codec.
LEMMA DecodesRaw ==
  ASSUME NEW v \in Value, v.codec \in Raw, Len(v.payload) = v.n * Width(v.codec), v.sound
  PROVE  /\ ValueDecode(v) = {RawNumbers(v.codec, v.payload, v.n)}
         /\ ClientDecode(v) = {RawNumbers(v.codec, v.payload, v.n)}
         /\ RawNumbers(v.codec, v.payload, v.n) \in Seq(U32)
         /\ Len(RawNumbers(v.codec, v.payload, v.n)) = v.n
<1> DEFINE codec == v.codec
           p == v.payload
           n == v.n
           w == Width(codec)
<1>1. codec \in Raw /\ p \in Seq(Bytes) /\ n \in Nat /\ Len(p) = n * w
  BY ValueIs
<1>2. codec # "freq" /\ codec \in Codec
  BY DEF Raw, Codec
<1>3. HeaderParses(v) /\ ClientParses(v)
  BY <1>1, <1>2 DEF HeaderParses, ClientParses
<1>4. w \in Nat /\ Len(p) \in Nat
  BY <1>1, RawWidths
<1>5. ~(Len(p) < n * w)
  BY <1>1, <1>4
<1>6. ValueDecode(v) = DecodeRaw(codec, p, n)
  BY <1>2, <1>3 DEF ValueDecode
<1>7. ClientDecode(v) = {[i \in 1..n |->
          LET b == Chunk(p, i, w) IN
          IF codec = "raw24" THEN b[1] * Power(Base, 2) + b[2] * Base + b[3] ELSE OfDigits(b, Base)]}
  BY <1>2, <1>3, <1>5 DEF ClientDecode
<1> HIDE DEF codec, p, n
<1>8. /\ DecodeRaw(codec, p, n) = {RawNumbers(codec, p, n)}
      /\ [i \in 1..n |->
              LET b == Chunk(p, i, w) IN
              IF codec = "raw24" THEN b[1] * Power(Base, 2) + b[2] * Base + b[3] ELSE OfDigits(b, Base)]
              = RawNumbers(codec, p, n)
      /\ RawNumbers(codec, p, n) \in Seq(U32) /\ Len(RawNumbers(codec, p, n)) = n
  BY <1>1, RawFollows
<1>9. /\ ValueDecode(v) = {RawNumbers(codec, p, n)} /\ ClientDecode(v) = {RawNumbers(codec, p, n)}
  BY <1>6, <1>7, <1>8
<1> QED
  BY <1>8, <1>9 DEF codec, p, n

\* A freq value the extension can decode is read by the client as the same list.
LEMMA DecodesFreq ==
  ASSUME NEW v \in Value, v.codec = "freq", v.sound, NEW list \in DecodeFreq(v.payload, v.n)
  PROVE  /\ ClientDecode(v) = {list}
         /\ list \in Seq(U32) /\ Len(list) = v.n
<1>1. v.payload \in Seq(Bytes) /\ v.n \in Nat
  BY ValueIs
<1>2. list \in Seq(U32) /\ Len(list) = v.n
  BY <1>1, FreqTyped
<1>3. {[i \in 1..v.n |-> ClientToken(ranks[i])] : ranks \in ClientSvbDecode(v.payload, v.n)} = {list}
  BY <1>1, FreqFollows
<1>4. ClientParses(v)
  BY DEF ClientParses, Codec
<1> QED
  BY <1>2, <1>3, <1>4 DEF ClientDecode

\* Of any bytes at all, what the extension decodes the client decodes, and it is a list of as
\* many u32s as the header counts.
THEOREM Follows ==
  ASSUME NEW v \in Value, NEW list \in ValueDecode(v)
  PROVE  list \in Seq(U32) /\ Len(list) = v.n /\ ClientDecode(v) = {list}
<1>1. HeaderParses(v)
  BY DEF ValueDecode
<1>2. v.codec \in Codec /\ v.sound
  BY <1>1 DEF HeaderParses
<1>3. CASE v.codec = "freq"
  <2>1. list \in DecodeFreq(v.payload, v.n)
    BY <1>1, <1>3 DEF ValueDecode
  <2> QED
    BY <1>2, <1>3, <2>1, DecodesFreq
<1>4. CASE v.codec # "freq"
  <2>1. v.codec \in Raw
    BY <1>2, <1>4, CodecIs
  <2>2. Len(v.payload) = v.n * Width(v.codec)
    BY <1>1, <1>4 DEF HeaderParses
  <2> QED
    BY <1>2, <2>1, <2>2, DecodesRaw
<1> QED
  BY <1>3, <1>4

-----------------------------------------------------------------------------
(* What is written can be read.                                              *)

\* The standard value is a value of the length its count implies.
LEMMA StandardTyped ==
  ASSUME NEW list \in Seq(U32), NEW vocab \in Vocabs, NEW codec \in Codec
  PROVE  /\ Standard(codec, vocab, list) \in Value
         /\ codec = "freq" => Complete(Payload(codec, list), Len(list))
         /\ codec # "freq" => Len(Payload(codec, list)) = Len(list) * Width(codec)
<1>1. Len(list) \in Nat
  OBVIOUS
<1>2. /\ Payload(codec, list) \in Seq(Bytes)
      /\ codec = "freq" => Complete(Payload(codec, list), Len(list))
      /\ codec # "freq" => Len(Payload(codec, list)) = Len(list) * Width(codec)
  <2>1. CASE codec = "freq"
    BY <2>1, RanksAre, PackedReads DEF Payload
  <2>2. CASE codec # "freq"
    BY <2>2, CodecIs, RawReads DEF Payload
  <2> QED
    BY <2>1, <2>2
<1> HIDE DEF Payload
<1>3. Standard(codec, vocab, list) \in Value
  BY <1>1, <1>2 DEF Standard, Framed, Value
<1> QED
  BY <1>2, <1>3

\* The standard value of a list that fits reads as the list, to the extension where it names a
\* vocabulary.
THEOREM StandardReads ==
  ASSUME NEW list \in Seq(U32), AllFit(list), NEW vocab \in Vocabs, NEW codec \in Codec,
         Holds(codec, list)
  PROVE  /\ ClientDecode(Standard(codec, vocab, list)) = {list}
         /\ ~(codec = "freq" /\ vocab = 0) => ValueDecode(Standard(codec, vocab, list)) = {list}
<1> DEFINE v == Standard(codec, vocab, list)
<1>1. v \in Value
  BY StandardTyped
<1>2. /\ v.sound = TRUE /\ v.codec = codec /\ v.vocab = vocab /\ v.n = Len(list)
      /\ v.payload = Payload(codec, list)
  <2> HIDE DEF Payload
  <2> QED
    BY DEF Standard, Framed
<1> HIDE DEF v
<1>3. CASE codec = "freq"
  <2> DEFINE r == ClientRanks(list)
  <2>1. /\ r \in Seq(U32) /\ Len(r) = Len(list) /\ Tokens(r, Len(list)) = list
        /\ Payload(codec, list) = Packed(r)
    BY <1>3, RanksAre DEF Payload
  <2> HIDE DEF r
  <2>2. DecodeFreq(v.payload, v.n) = {list} /\ (Len(list) # 0 => v.payload # <<>>)
    BY <1>2, <2>1, PackedReads
  <2>3. ClientDecode(v) = {list}
    BY <1>1, <1>2, <1>3, <2>2, DecodesFreq
  <2>4. ASSUME vocab # 0
        PROVE  HeaderParses(v)
    <3>1. v.n > 0 => v.payload # <<>>
      BY <1>2, <2>2
    <3> QED
      BY <1>2, <1>3, <2>4, <3>1 DEF HeaderParses
  <2>5. HeaderParses(v) => ValueDecode(v) = DecodeFreq(v.payload, v.n)
    BY <1>2, <1>3 DEF ValueDecode
  <2> QED
    BY <1>3, <2>2, <2>3, <2>4, <2>5 DEF v
<1>4. CASE codec # "freq"
  <2>1. codec \in Raw /\ Payload(codec, list) = RawPayload(codec, list) /\ Fits(codec, list)
    BY <1>4, CodecIs DEF Payload, Holds
  <2>2. /\ Len(v.payload) = v.n * Width(v.codec)
        /\ RawNumbers(v.codec, v.payload, v.n) = list
    BY <1>2, <2>1, RawReads
  <2>3. ValueDecode(v) = {list} /\ ClientDecode(v) = {list}
    BY <1>1, <1>2, <2>1, <2>2, DecodesRaw
  <2> QED
    BY <2>3 DEF v
<1> QED
  BY <1>3, <1>4

-----------------------------------------------------------------------------
(* Damaged lengths.                                                          *)

\* Two payloads with the same control bytes give the integers they both have the same lengths.
LEMMA LengthsAgree ==
  ASSUME NEW p \in Seq(Bytes), NEW q \in Seq(Bytes), NEW m \in Nat, NEW n \in Nat, m <= n,
         ControlLen(m) <= Len(p), ControlLen(n) <= Len(q),
         \A i \in 1..ControlLen(m) : p[i] = q[i]
  PROVE  \A i \in 1..m + 1 : Start(Lengths(p, m), i) = Start(Lengths(q, n), i)
<1> DEFINE l == Lengths(p, m)
           k == Lengths(q, n)
<1>1. l \in Seq(Nat) /\ Len(l) = m
  BY LengthsTyped
<1>2. k \in Seq(Nat) /\ Len(k) = n
  BY LengthsTyped
<1>3. ASSUME NEW i \in 1..m
      PROVE  l[i] = k[i]
  <2>1. i \in 1..n
    OBVIOUS
  <2>2. ((i - 1) \div Quad) + 1 \in 1..ControlLen(m)
    BY ControlOf
  <2> DEFINE at == ((i - 1) \div Quad) + 1
             e == Power(4, (i - 1) % Quad)
  <2>3. l[i] = 1 + ((p[at] \div e) % 4)
    BY DEF Lengths
  <2>4. k[i] = 1 + ((q[at] \div e) % 4)
    BY <2>1 DEF Lengths
  <2>5. p[at] = q[at]
    BY <2>2
  <2> HIDE DEF at, e, l, k
  <2> QED
    BY <2>3, <2>4, <2>5
<1> HIDE DEF l, k
<1>4. m <= Len(l) /\ m <= Len(k)
  BY <1>1, <1>2
<1>5. \A i \in 1..m + 1 : Start(l, i) = Start(k, i)
  BY <1>1, <1>2, <1>3, <1>4, StartAgrees
<1> QED
  BY <1>5 DEF l, k

\* A payload cut or extended behind its control bytes has not the length they give.
LEMMA NotResized ==
  ASSUME NEW p \in Seq(Bytes), NEW q \in Seq(Bytes), NEW n \in Nat, Complete(p, n),
         Len(q) # Len(p), \A i \in 1..Len(p) : i <= Len(q) => p[i] = q[i]
  PROVE  ~Complete(q, n)
<1> SUFFICES ASSUME Complete(q, n) PROVE FALSE
  OBVIOUS
<1>1. n <= n /\ ControlLen(n) \in Nat /\ n + 1 \in 1..n + 1 /\ Len(p) \in Nat /\ Len(q) \in Nat
  BY ControlGrows
<1>2. ControlLen(n) <= Len(p) /\ ControlLen(n) <= Len(q)
  BY DEF Complete
<1>3. \A i \in 1..ControlLen(n) : p[i] = q[i]
  BY <1>1, <1>2
<1>4. Start(Lengths(p, n), n + 1) = Start(Lengths(q, n), n + 1)
  BY <1>1, <1>2, <1>3, LengthsAgree
<1> QED
  BY <1>4 DEF Complete

\* A payload is complete for one count at most.
LEMMA FewerAreShorter ==
  ASSUME NEW p \in Seq(Bytes), NEW m \in Nat, NEW n \in Nat, m < n, Complete(p, m)
  PROVE  ~Complete(p, n)
<1> SUFFICES ASSUME Complete(p, n) PROVE FALSE
  OBVIOUS
<1>1. /\ ControlLen(m) \in Nat /\ ControlLen(n) \in Nat /\ ControlLen(m) <= ControlLen(n)
      /\ m <= n
  BY ControlGrows
<1> DEFINE l == Lengths(p, m)
           k == Lengths(p, n)
<1>2. /\ ControlLen(m) <= Len(p) /\ Len(p) = ControlLen(m) + Start(l, m + 1)
      /\ ControlLen(n) <= Len(p) /\ Len(p) = ControlLen(n) + Start(k, n + 1)
  BY DEF Complete
<1>3. \A i \in 1..m + 1 : Start(l, i) = Start(k, i)
  <2>1. \A i \in 1..ControlLen(m) : p[i] = p[i]
    OBVIOUS
  <2> HIDE DEF l, k
  <2> QED
    BY <1>1, <1>2, <2>1, LengthsAgree DEF l, k
<1>4. k \in Seq(Nat) /\ Len(k) = n /\ \A i \in 1..n : k[i] # 0
  BY <1>2, LengthsTyped
<1> HIDE DEF l, k
<1>5. /\ m + 1 \in 1..Len(k) + 1 /\ n + 1 \in 1..Len(k) + 1 /\ m + 1 < n + 1 /\ m + 1 \in 1..m + 1
      /\ \A i \in 1..Len(k) : k[i] # 0
  BY <1>4
<1>6. Start(k, m + 1) < Start(k, n + 1) /\ Start(k, m + 1) \in Nat /\ Start(k, n + 1) \in Nat
  BY <1>4, <1>5, StartGrows, StartNext
<1>7. Start(l, m + 1) = Start(k, m + 1)
  BY <1>3, <1>5
<1> QED
  BY <1>1, <1>2, <1>6, <1>7

\* What an undamaged value is: a length that its count implies.
Shaped(v) ==
  /\ v.sound /\ v.codec \in Codec
  /\ IF v.codec = "freq" THEN Complete(v.payload, v.n) ELSE Len(v.payload) = v.n * Width(v.codec)

Guarded(v) ==
  ValueDecode(v) = {} \/ (v.codec = "freq" /\ v.n = 0 /\ ValueDecode(v) = {<<>>})

\* A freq value that counts none or is not complete is decoded to nothing or not at all.
LEMMA FreqGuarded ==
  ASSUME NEW v \in Value, v.codec = "freq", v.n = 0 \/ ~Complete(v.payload, v.n)
  PROVE  Guarded(v)
<1>1. v.payload \in Seq(Bytes) /\ v.n \in Nat
  BY ValueIs
<1>2. ValueDecode(v) = {} \/ ValueDecode(v) = DecodeFreq(v.payload, v.n)
  BY DEF ValueDecode
<1>3. CASE v.n = 0
  <2>1. DecodeFreq(v.payload, v.n) = {<<>>}
    BY <1>1, <1>3, FreqDecodes
  <2> QED
    BY <1>2, <1>3, <2>1 DEF Guarded
<1>4. CASE v.n # 0 /\ ~Complete(v.payload, v.n)
  <2>1. DecodeFreq(v.payload, v.n) = {}
    BY <1>1, <1>4, FreqDecodes
  <2> QED
    BY <1>2, <2>1 DEF Guarded
<1> QED
  BY <1>3, <1>4

\* A raw value of another length is not decoded.
LEMMA RawGuarded ==
  ASSUME NEW v \in Value, v.codec # "freq", v.codec \in Codec => Len(v.payload) # v.n * Width(v.codec)
  PROVE  Guarded(v)
BY DEF Guarded, ValueDecode, HeaderParses

\* Another count in the header.
LEMMA RecountGuarded ==
  ASSUME NEW v \in Value, Shaped(v), NEW v2 \in Value, v2.codec = v.codec,
         v2.payload = v.payload, v2.n # v.n
  PROVE  Guarded(v2)
<1>1. v.payload \in Seq(Bytes) /\ v.n \in Nat /\ v2.n \in Nat
  BY ValueIs
<1>2. CASE v.codec = "freq"
  <2>1. Complete(v.payload, v.n)
    BY <1>2 DEF Shaped
  <2>2. v2.n < v.n \/ v.n < v2.n
    BY <1>1
  <2>3. ~Complete(v.payload, v2.n)
    BY <1>1, <2>1, <2>2, FewerAreShorter
  <2> QED
    BY <1>2, <2>3, FreqGuarded
<1>3. CASE v.codec # "freq"
  <2> DEFINE w == Width(v.codec)
  <2>1. v.codec \in Raw /\ Len(v.payload) = v.n * w
    BY <1>3, CodecIs DEF Shaped
  <2>2. w \in Nat /\ w # 0
    BY <2>1, RawWidths
  <2> HIDE DEF w
  <2>3. \A a, b, c \in Nat : c # 0 /\ a * c = b * c => a = b
    OBVIOUS
  <2>4. Len(v.payload) # v2.n * w
    BY <1>1, <2>1, <2>2, <2>3
  <2> QED
    BY <1>3, <2>4, RawGuarded DEF w
<1> QED
  BY <1>2, <1>3

\* Another length of the payload.
LEMMA ResizeGuarded ==
  ASSUME NEW v \in Value, Shaped(v), NEW v2 \in Value, v2.codec = v.codec, v2.n = v.n,
         Len(v2.payload) # Len(v.payload),
         \A i \in 1..Len(v.payload) : i <= Len(v2.payload) => v.payload[i] = v2.payload[i]
  PROVE  Guarded(v2)
<1>1. v.payload \in Seq(Bytes) /\ v.n \in Nat /\ v2.payload \in Seq(Bytes)
  BY ValueIs
<1>2. CASE v.codec = "freq"
  <2>1. Complete(v.payload, v.n)
    BY <1>2 DEF Shaped
  <2>2. ~Complete(v2.payload, v.n)
    BY <1>1, <2>1, NotResized
  <2> QED
    BY <1>2, <2>2, FreqGuarded
<1>3. CASE v.codec # "freq"
  <2>1. Len(v.payload) = v.n * Width(v.codec)
    BY <1>3 DEF Shaped
  <2>2. Len(v2.payload) # v2.n * Width(v2.codec)
    BY <2>1
  <2> QED
    BY <1>3, <2>2, RawGuarded
<1> QED
  BY <1>2, <1>3

-----------------------------------------------------------------------------
(* The invariant.                                                            *)

\* An undamaged value is one that was written: of the length its count implies, and, where every
\* id of the list it was made from has a rank, the standard value of that list under the
\* codec and vocabulary it now has, after whichever detour.
Written(v, list) ==
  /\ Shaped(v)
  /\ AllFit(list) => v = Standard(v.codec, v.vocab, list) /\ Holds(v.codec, list)

IInv ==
  /\ ids \in Seq(U32) /\ value \in Value \cup {None} /\ damage \in {"none", "length", "content"}
  /\ value = None => damage = "none"
  /\ value # None /\ damage = "none" => Written(value, ids)
  /\ value # None /\ damage = "length" => Guarded(value)

\* The standard value of a list is an undamaged one.
LEMMA StandardWritten ==
  ASSUME NEW list \in Seq(U32), NEW vocab \in Vocabs, NEW codec \in Codec, Holds(codec, list),
         NEW v, v = Standard(codec, vocab, list)
  PROVE  v \in Value /\ Written(v, list) /\ v.codec = codec /\ v.vocab = vocab
<1>1. v \in Value
  BY StandardTyped
<1>2. /\ v.sound = TRUE /\ v.codec = codec /\ v.vocab = vocab /\ v.n = Len(list)
      /\ v.payload = Payload(codec, list)
  <2> HIDE DEF Payload
  <2> QED
    BY DEF Standard, Framed
<1>3. Shaped(v)
  BY <1>2, StandardTyped DEF Shaped
<1> QED
  BY <1>1, <1>2, <1>3 DEF Written

\* What either side reads of an undamaged value is a list of ids, the one it was made from
\* where that has ranks.
LEMMA WrittenReads ==
  ASSUME NEW v \in Value, NEW list \in Seq(U32), Written(v, list),
         NEW read \in ValueDecode(v) \cup ClientDecode(v)
  PROVE  read \in Seq(U32) /\ (AllFit(list) => read = list)
<1>1. Shaped(v) /\ v.sound /\ v.codec \in Codec /\ v.payload \in Seq(Bytes) /\ v.n \in Nat
      /\ v.vocab \in Vocabs
  BY ValueIs DEF Written, Shaped
<1>2. read \in ClientDecode(v)
  BY Follows
<1>3. read \in Seq(U32)
  <2>1. CASE v.codec = "freq"
    <3>1. Complete(v.payload, v.n)
      BY <1>1, <2>1 DEF Shaped
    <3>2. DecodeFreq(v.payload, v.n) # {}
      BY <1>1, <3>1, FreqDecodes
    <3>3. PICK other \in DecodeFreq(v.payload, v.n) : TRUE
      BY <3>2
    <3>4. ClientDecode(v) = {other} /\ other \in Seq(U32)
      BY <1>1, <2>1, DecodesFreq
    <3> QED
      BY <1>2, <3>4
  <2>2. CASE v.codec # "freq"
    <3>1. v.codec \in Raw /\ Len(v.payload) = v.n * Width(v.codec)
      BY <1>1, <2>2, CodecIs DEF Shaped
    <3> QED
      BY <1>1, <1>2, <3>1, DecodesRaw
  <2> QED
    BY <2>1, <2>2
<1>4. ASSUME AllFit(list)
      PROVE  read = list
  <2>1. v = Standard(v.codec, v.vocab, list) /\ Holds(v.codec, list)
    BY <1>4 DEF Written
  <2>2. ClientDecode(Standard(v.codec, v.vocab, list)) = {list}
    BY <1>1, <1>4, <2>1, StandardReads
  <2> QED
    BY <1>2, <2>1, <2>2
<1> QED
  BY <1>3, <1>4

\* Writing the list that was read, or a new one, keeps the invariant.
LEMMA WriteStep ==
  ASSUME NEW list \in Seq(U32), NEW codec \in Codec, NEW vocab \in Vocabs,
         value' \in ValueEncode(codec, vocab, list) \cup ClientEncode(codec, vocab, list),
         ids' \in Seq(U32), AllFit(ids') => list = ids', damage' = "none"
  PROVE  IInv'
<1> DEFINE v == value'
<1>1. v = Standard(codec, vocab, list) /\ Holds(codec, list)
  BY WritersAgree
<1>2. v \in Value /\ Written(v, list) /\ v.codec = codec /\ v.vocab = vocab
  BY <1>1, StandardWritten
<1>3. Written(v, ids')
  BY <1>1, <1>2 DEF Written
<1> QED
  BY <1>2, <1>3 DEF IInv

\* The invariant holds at first.
LEMMA InitInvariant == Init => IInv
<1> SUFFICES ASSUME Init PROVE IInv
  OBVIOUS
<1>1. ids = <<>> /\ value = None /\ damage = "none"
  BY DEF Init
<1>2. <<>> \in Seq(U32)
  OBVIOUS
<1> QED
  BY <1>1, <1>2 DEF IInv

\* A damaged length keeps it: every value so damaged is refused.
LEMMA LengthStep ==
  ASSUME IInv, ChangeLength
  PROVE  IInv'
<1>1. /\ value # None /\ value \in Value /\ damage = "none" /\ damage' = "length" /\ ids' = ids
      /\ ids \in Seq(U32) /\ Shaped(value)
  BY DEF ChangeLength, IInv, Written
<1>2. value.payload \in Seq(Bytes) /\ value.n \in Nat /\ Len(value.payload) \in Nat
  BY <1>1, ValueIs
<1> DEFINE p == value.payload
<1>3. SUFFICES value' \in Value /\ Guarded(value')
  <2>1. ASSUME value' \in Value, Guarded(value')
        PROVE  IInv'
    BY <1>1, <2>1, NoneAssumption DEF IInv
  <2> QED
    BY <2>1
<1>4. CASE \E n \in 0..(Len(p) - 1) : value' = [value EXCEPT !.payload = SubSeq(@, 1, n)]
  <2>1. PICK n \in 0..(Len(p) - 1) : value' = [value EXCEPT !.payload = SubSeq(@, 1, n)]
    BY <1>4
  <2> DEFINE q == SubSeq(p, 1, n)
  <2>2. /\ q \in Seq(Bytes) /\ Len(q) = n /\ n # Len(p)
        /\ \A i \in 1..Len(p) : i <= Len(q) => p[i] = q[i]
    <3>1. n \in Nat /\ n <= Len(p) /\ n # Len(p) /\ 0 \in Nat /\ 0 <= n
      BY <1>2
    <3>2. /\ SubSeq(p, 0 + 1, n) \in Seq(Bytes) /\ Len(SubSeq(p, 0 + 1, n)) = n - 0
          /\ \A i \in 1..n - 0 : SubSeq(p, 0 + 1, n)[i] = p[0 + i]
      <4> DEFINE T == Bytes
      <4>1. p \in Seq(T)
        BY <1>2
      <4> HIDE DEF T, p
      <4>2. /\ SubSeq(p, 0 + 1, n) \in Seq(T) /\ Len(SubSeq(p, 0 + 1, n)) = n - 0
            /\ \A i \in 1..n - 0 : SubSeq(p, 0 + 1, n)[i] = p[0 + i]
        BY <3>1, <4>1, SubSeqIs
      <4> QED
        BY <4>2 DEF T
    <3>3. q = SubSeq(p, 0 + 1, n) /\ n - 0 = n /\ \A i \in Nat : 0 + i = i
      BY <3>1
    <3> QED
      BY <3>1, <3>2, <3>3
  <2> HIDE DEF q
  <2>3. value' = [value EXCEPT !.payload = q]
    BY <2>1 DEF q
  <2>4. /\ value' \in Value /\ value'.payload = q /\ value'.codec = value.codec
        /\ value'.n = value.n
    BY <1>1, <2>2, <2>3 DEF Value
  <2> DEFINE v2 == value'
  <2> HIDE DEF v2
  <2>5. /\ v2 \in Value /\ v2.codec = value.codec /\ v2.n = value.n
        /\ Len(v2.payload) # Len(value.payload)
        /\ \A i \in 1..Len(value.payload) : i <= Len(v2.payload) => value.payload[i] = v2.payload[i]
    BY <2>2, <2>4 DEF v2
  <2>6. Guarded(v2)
    BY <1>1, <2>5, ResizeGuarded
  <2> QED
    BY <2>4, <2>6 DEF v2
<1>5. CASE \E c \in Noise : value' = [value EXCEPT !.payload = Append(@, c)]
  <2>1. PICK c \in Noise : value' = [value EXCEPT !.payload = Append(@, c)]
    BY <1>5
  <2> DEFINE q == Append(p, c)
  <2>2. c \in Bytes
    BY CodecAssumption
  <2>3. /\ q \in Seq(Bytes) /\ Len(q) # Len(p)
        /\ \A i \in 1..Len(p) : i <= Len(q) => p[i] = q[i]
    <3> DEFINE T == Bytes
    <3>1. p \in Seq(T) /\ c \in T
      BY <1>2, <2>2
    <3> HIDE DEF T, p
    <3>2. /\ q \in Seq(T) /\ Len(q) # Len(p)
          /\ \A i \in 1..Len(p) : i <= Len(q) => p[i] = q[i]
      BY <3>1
    <3> QED
      BY <3>2 DEF T
  <2> HIDE DEF q
  <2>4. value' = [value EXCEPT !.payload = q]
    BY <2>1 DEF q
  <2>5. /\ value' \in Value /\ value'.payload = q /\ value'.codec = value.codec
        /\ value'.n = value.n
    BY <1>1, <2>3, <2>4 DEF Value
  <2> DEFINE v2 == value'
  <2> HIDE DEF v2
  <2>6. /\ v2 \in Value /\ v2.codec = value.codec /\ v2.n = value.n
        /\ Len(v2.payload) # Len(value.payload)
        /\ \A i \in 1..Len(value.payload) : i <= Len(v2.payload) => value.payload[i] = v2.payload[i]
    BY <2>3, <2>5 DEF v2
  <2>7. Guarded(v2)
    BY <1>1, <2>6, ResizeGuarded
  <2> QED
    BY <2>5, <2>7 DEF v2
<1>6. CASE \E n \in Counts \ {value.n} : value' = [value EXCEPT !.n = n]
  <2>1. PICK n \in Counts \ {value.n} : value' = [value EXCEPT !.n = n]
    BY <1>6
  <2>2. n \in Nat /\ n # value.n
    BY CodecAssumption
  <2>3. /\ value' \in Value /\ value'.payload = value.payload /\ value'.codec = value.codec
        /\ value'.n = n
    BY <1>1, <2>1, <2>2 DEF Value
  <2> DEFINE v2 == value'
  <2> HIDE DEF v2
  <2>4. /\ v2 \in Value /\ v2.codec = value.codec /\ v2.payload = value.payload /\ v2.n # value.n
    BY <2>2, <2>3 DEF v2
  <2>5. Guarded(v2)
    BY <1>1, <2>4, RecountGuarded
  <2> QED
    BY <2>3, <2>5 DEF v2
<1> QED
  BY <1>4, <1>5, <1>6 DEF ChangeLength

\* Other damage keeps it.
LEMMA ContentStep ==
  ASSUME IInv, ChangeContent
  PROVE  IInv'
<1>1. /\ value # None /\ value \in Value /\ damage' = "content" /\ ids' = ids /\ ids \in Seq(U32)
  BY DEF ChangeContent, IInv
<1>2. value.payload \in Seq(Bytes)
  BY <1>1, ValueIs
<1>3. value' \in Value
  <2>1. CASE \E k \in DOMAIN value.payload, c \in Noise : value' = [value EXCEPT !.payload[k] = c]
    <3>1. PICK k \in DOMAIN value.payload, c \in Noise : value' = [value EXCEPT !.payload[k] = c]
      BY <2>1
    <3> DEFINE q == [value.payload EXCEPT ![k] = c]
    <3>2. c \in Bytes
      BY CodecAssumption
    <3>3. q \in Seq(Bytes)
      BY <1>2, <3>2
    <3>4. value' = [value EXCEPT !.payload = q]
      BY <3>1
    <3> HIDE DEF q
    <3> QED
      BY <1>1, <3>3, <3>4 DEF Value
  <2>2. CASE \E codec \in Codec \cup {"unknown"} : value' = [value EXCEPT !.codec = codec]
    BY <1>1, <2>2 DEF Value
  <2>3. CASE \E vocab \in Vocabs : value' = [value EXCEPT !.vocab = vocab]
    BY <1>1, <2>3 DEF Value
  <2>4. CASE value' = [value EXCEPT !.sound = FALSE]
    BY <1>1, <2>4 DEF Value
  <2> QED
    BY <2>1, <2>2, <2>3, <2>4 DEF ChangeContent
<1> QED
  BY <1>1, <1>3, NoneAssumption DEF IInv

\* Every step keeps the invariant.
LEMMA NextInvariant == IInv /\ [Next]_vars => IInv'
<1> SUFFICES ASSUME IInv, [Next]_vars PROVE IInv'
  OBVIOUS
<1>1. ASSUME NEW codec \in Codec, NEW vocab \in Vocabs, NEW list \in Lists, Make(codec, vocab, list)
      PROVE  IInv'
  <2>1. list \in Seq(U32)
    BY CodecAssumption
  <2>2. /\ value' \in ValueEncode(codec, vocab, list) \cup ClientEncode(codec, vocab, list)
        /\ ids' = list /\ damage' = "none"
    BY <1>1 DEF Make, IInv
  <2> QED
    BY <2>1, <2>2, WriteStep
<1>2. ASSUME NEW codec \in Codec, NEW vocab \in Vocabs, Recode(codec, vocab)
      PROVE  IInv'
  <2>1. /\ value \in Value /\ Written(value, ids) /\ ids' = ids /\ damage' = "none"
        /\ ids \in Seq(U32)
    BY <1>2 DEF Recode, IInv
  <2>2. PICK list \in ValueDecode(value) \cup ClientDecode(value) :
          value' \in ValueEncode(codec, vocab, list) \cup ClientEncode(codec, vocab, list)
    BY <1>2 DEF Recode
  <2>3. list \in Seq(U32) /\ (AllFit(ids) => list = ids)
    BY <2>1, WrittenReads
  <2> QED
    BY <2>1, <2>2, <2>3, WriteStep
<1>3. CASE ChangeLength
  BY <1>3, LengthStep
<1>4. CASE ChangeContent
  BY <1>4, ContentStep
<1>5. CASE Delete
  <2>1. value' = None /\ ids' = <<>> /\ damage' = "none" /\ <<>> \in Seq(U32)
    BY <1>5 DEF Delete
  <2> QED
    BY <2>1 DEF IInv
<1>6. CASE UNCHANGED vars
  BY <1>6 DEF IInv, vars
<1> QED
  BY <1>1, <1>2, <1>3, <1>4, <1>5, <1>6 DEF Next

\* The invariant: every undamaged value is the standard one of its list, and every value whose
\* length was damaged is refused.
THEOREM Invariant == Spec => []IInv
<1>1. Init => IInv
  BY InitInvariant
<1>2. IInv /\ [Next]_vars => IInv'
  BY NextInvariant
<1> QED
  BY <1>1, <1>2, PTL DEF Spec

-----------------------------------------------------------------------------
(* The properties.                                                           *)

\* The variables have their types, and what the extension decodes of any value is a list of
\* u32s (value.rs, codec/): no damage makes it read an id that is not one.
THEOREM TypeCorrect == Spec => []TypeOK
<1>1. IInv => TypeOK
  <2> SUFFICES ASSUME IInv PROVE TypeOK
    OBVIOUS
  <2>1. ids \in Seq(U32) /\ value \in Value \cup {None} /\ damage \in {"none", "length", "content"}
    BY DEF IInv
  <2>2. \A list \in IF value = None THEN {} ELSE ValueDecode(value) : list \in Seq(U32)
    BY <2>1, Follows
  <2> QED
    BY <2>1, <2>2 DEF TypeOK
<1> QED
  BY <1>1, Invariant, PTL

\* What a writable value is, by the invariant.
LEMMA WritableIs ==
  ASSUME IInv, Writable
  PROVE  /\ value \in Value /\ ids \in Seq(U32) /\ AllFit(ids) /\ value.codec \in Codec
         /\ value.vocab \in Vocabs /\ value = Standard(value.codec, value.vocab, ids)
         /\ Holds(value.codec, ids) /\ ~(value.codec = "freq" /\ value.vocab = 0)
<1>1. value \in Value /\ ids \in Seq(U32) /\ Written(value, ids)
      /\ ~(value.codec = "freq" /\ value.vocab = 0)
  BY DEF IInv, Writable
<1>2. DOMAIN ids = 1..Len(ids)
  BY <1>1
<1>3. AllFit(ids)
  BY <1>2 DEF Writable, AllFit
<1> QED
  BY <1>1, <1>3, ValueIs DEF Written, Shaped

\* freq.rs:5-6 and raw.rs:3-4: a value written by the extension or the client, and written anew
\* however often by either, is read as the list it was made from by both.
THEOREM RoundTripHolds == Spec => []RoundTrip
<1>1. IInv => RoundTrip
  <2> SUFFICES ASSUME IInv, Writable PROVE ValueDecode(value) = {ids} /\ ClientDecode(value) = {ids}
    BY DEF RoundTrip
  <2> DEFINE v == Standard(value.codec, value.vocab, ids)
  <2>1. value = v
    BY WritableIs
  <2>2. ClientDecode(v) = {ids} /\ ValueDecode(v) = {ids}
    BY WritableIs, StandardReads
  <2> HIDE DEF v
  <2> QED
    BY <2>1, <2>2
<1> QED
  BY <1>1, Invariant, PTL

\* tokens.rs:555-557: one list under one vocabulary and codec has one string of bytes, whoever
\* wrote it and after whichever detour, so that equal bytes are equal values.
THEOREM CanonicalHolds == Spec => []Canonical
<1>1. IInv => Canonical
  <2> SUFFICES ASSUME IInv, Writable
               PROVE  /\ ValueEncode(value.codec, value.vocab, ids) = {value}
                      /\ ClientEncode(value.codec, value.vocab, ids) =
                           IF value.codec = "freq" /\ K(Table) = 0 /\ ids # <<>> THEN {} ELSE {value}
    BY DEF Canonical
  <2> DEFINE codec == value.codec
             vocab == value.vocab
  <2>1. /\ ids \in Seq(U32) /\ AllFit(ids) /\ codec \in Codec
        /\ value = Standard(codec, vocab, ids) /\ Holds(codec, ids)
    BY WritableIs
  <2> HIDE DEF codec, vocab
  <2>2. CASE codec = "freq"
    BY <2>1, <2>2, FreqWrites DEF codec, vocab
  <2>3. CASE codec # "freq"
    <3>1. codec \in Raw /\ Fits(codec, ids)
      BY <2>1, <2>3, CodecIs DEF Holds
    <3> QED
      BY <2>1, <2>3, <3>1, RawWrites DEF codec, vocab
  <2> QED
    BY <2>2, <2>3
<1> QED
  BY <1>1, Invariant, PTL

\* header.rs:147-149, freq.rs:28-30: a payload that lost or gained bytes, or a count that
\* changed, is never decoded to ids.
THEOREM LengthGuardedHolds == Spec => []LengthGuarded
<1>1. IInv => LengthGuarded
  BY DEF IInv, LengthGuarded, Guarded
<1> QED
  BY <1>1, Invariant, PTL

\* pgtoken_client.py:3-4: of any bytes at all, what the extension decodes the client decodes to
\* the same list.
THEOREM ClientFollowsHolds == Spec => []ClientFollows
<1>1. IInv => ClientFollows
  <2> SUFFICES ASSUME IInv, value # None, NEW list \in ValueDecode(value)
               PROVE  list \in ClientDecode(value)
    BY DEF ClientFollows
  <2>1. value \in Value
    BY DEF IInv
  <2> QED
    BY <2>1, Follows
<1> QED
  BY <1>1, Invariant, PTL

\* lib.rs:69-86: inspection that decodes nothing is right about what it would find.
THEOREM CountHonestHolds == Spec => []CountHonest
<1>1. IInv => CountHonest
  <2> SUFFICES ASSUME IInv, value # None
               PROVE  /\ value.codec # "freq" => (Describe(value) # {} <=> ValueDecode(value) # {})
                      /\ \A list \in ValueDecode(value) :
                           /\ \A d \in Describe(value) : d.n = Len(list)
                           /\ \A list2 \in ClientDecode(value) : Len(list2) = Len(list)
    BY DEF CountHonest
  <2>1. value \in Value
    BY DEF IInv
  <2>2. ASSUME value.codec # "freq"
        PROVE  Describe(value) # {} <=> ValueDecode(value) # {}
    <3>1. CASE HeaderParses(value)
      <4>1. /\ value.codec \in Raw /\ value.sound
            /\ Len(value.payload) = value.n * Width(value.codec)
        BY <2>2, <3>1, CodecIs DEF HeaderParses
      <4>2. ValueDecode(value) # {}
        BY <2>1, <4>1, DecodesRaw
      <4>3. Describe(value) # {}
        BY <3>1 DEF Describe
      <4> QED
        BY <4>2, <4>3
    <3>2. CASE ~HeaderParses(value)
      BY <3>2 DEF Describe, ValueDecode
    <3> QED
      BY <3>1, <3>2
  <2>3. ASSUME NEW list \in ValueDecode(value)
        PROVE  /\ \A d \in Describe(value) : d.n = Len(list)
               /\ \A list2 \in ClientDecode(value) : Len(list2) = Len(list)
    <3>1. Len(list) = value.n /\ ClientDecode(value) = {list}
      BY <2>1, Follows
    <3>2. \A d \in Describe(value) : d.n = value.n
      BY DEF Describe
    <3> QED
      BY <3>1, <3>2
  <2> QED
    BY <2>2, <2>3
<1> QED
  BY <1>1, Invariant, PTL

=============================================================================
