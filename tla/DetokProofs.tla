------------------------------ MODULE DetokProofs ------------------------------
(***************************************************************************)
(* For every vocabulary size, all entries, corpora and caps, and whatever  *)
(* happens to the file: what a load or a training wrote is read back as it *)
(* was given; no accepted map leads outside its blob; an accepted ranking  *)
(* is one, and what the client reads; a text is the whole characters of    *)
(* the bytes, however the document is cut.                                 *)
(*                                                                         *)
(* The invariant is FInv: an undamaged file is the image of some rows that *)
(* build took or of the ranking trained, and what a backend holds was      *)
(* parsed from the file as it is.  The rest is about operators: FlattenSeq *)
(* by induction on the pieces, from_utf8 by induction on the bytes.        *)
(***************************************************************************)
EXTENDS Detok, OperatorProofs

-----------------------------------------------------------------------------
(* The map built from rows.                                                  *)

\* What the proofs need of the numbers, and of the cast to u32.
LEMMA Numbers ==
  /\ VocabSize \in Nat /\ VocabSize # 0 /\ VocabSize <= MaxU32
  /\ MaxU32 \in Nat /\ Cont \in Nat /\ Cont <= MaxU32
  /\ 0..Cont \subseteq Cells
  /\ \A x \in Nat : x % (MaxU32 + 1) \in Cells /\ (x <= MaxU32 => x % (MaxU32 + 1) = x)
<1>1. VocabSize \in 1..MaxU32 /\ Cont <= MaxU32
  BY DetokAssumption
<1>2. MaxU32 \in Nat
  BY MaxU32Assumption
<1>3. VocabSize \in Nat /\ VocabSize # 0 /\ VocabSize <= MaxU32
  BY <1>1, <1>2
<1>4. Cont \in Nat /\ 0..Cont \subseteq Cells
  BY <1>1, <1>2 DEF Cont, Cells
<1>5. \A c \in Nat : \A x \in Nat : x % (c + 1) \in 0..c /\ (x <= c => x % (c + 1) = x)
  OBVIOUS
<1>6. \A x \in Nat : x % (MaxU32 + 1) \in Cells /\ (x <= MaxU32 => x % (MaxU32 + 1) = x)
  BY <1>2, <1>5 DEF Cells
<1> QED
  BY <1>1, <1>2, <1>3, <1>4, <1>6

LEMMA RowParts ==
  ASSUME NEW p \in Seq(Row), NEW i \in DOMAIN p
  PROVE  /\ i \in 1..Len(p) /\ p[i] \in Row /\ p[i].id \in 0..VocabSize
         /\ p[i].bytes \in Seq(0..Cont)
<1>1. i \in 1..Len(p) /\ p[i] \in Row
  OBVIOUS
<1> QED
  BY <1>1, DetokAssumption DEF Row, Ids

\* What the ids own is a sequence of bytes each.
LEMMA OwnedTyped ==
  ASSUME NEW p \in Seq(Row)
  PROVE  Owned(p) \in Seq(Seq(0..Cont)) /\ Len(Owned(p)) = VocabSize
<1> DEFINE owned(i) == IF \E j \in DOMAIN p : p[j].id = i - 1
                       THEN p[CHOOSE j \in DOMAIN p : p[j].id = i - 1].bytes
                       ELSE <<>>
<1>1. <<>> \in Seq(0..Cont)
  OBVIOUS
<1>2. \A i \in 1..VocabSize : owned(i) \in Seq(0..Cont)
  BY <1>1, RowParts
<1>3. Owned(p) = [i \in 1..VocabSize |-> owned(i)]
  BY DEF Owned
<1> HIDE DEF owned
<1>4. VocabSize \in Nat
  BY Numbers
<1> QED
  BY <1>2, <1>3, <1>4

\* Each row's bytes are what its id owns; an id without a row owns nothing.
LEMMA OwnedOf ==
  ASSUME NEW p \in Seq(Row), ~Refused(p)
  PROVE  /\ \A j \in DOMAIN p : /\ p[j].id + 1 \in 1..VocabSize /\ p[j].bytes # <<>>
                                /\ Owned(p)[p[j].id + 1] = p[j].bytes
         /\ \A i \in 1..VocabSize : (\A j \in DOMAIN p : p[j].id # i - 1) => Owned(p)[i] = <<>>
<1>1. \A i, j \in DOMAIN p : p[i].id = p[j].id => i = j
  BY DEF Refused
<1>2. \A j \in DOMAIN p : p[j].id < VocabSize /\ p[j].bytes # <<>>
  <2> SUFFICES ASSUME NEW j \in DOMAIN p PROVE p[j].id < VocabSize /\ p[j].bytes # <<>>
    OBVIOUS
  <2>1. ~(p[j].id >= VocabSize) /\ p[j].bytes # <<>>
    BY DEF Refused
  <2>2. p[j].id \in 0..VocabSize /\ VocabSize \in Nat
    BY RowParts, Numbers
  <2> QED
    BY <2>1, <2>2
<1>3. ASSUME NEW j \in DOMAIN p
      PROVE  p[j].id + 1 \in 1..VocabSize /\ Owned(p)[p[j].id + 1] = p[j].bytes
  <2>0. p[j].id \in 0..VocabSize /\ VocabSize \in Nat
    BY RowParts, Numbers
  <2>1. p[j].id \in Nat /\ p[j].id < VocabSize
    BY <1>2, <2>0
  <2>2. p[j].id + 1 \in 1..VocabSize /\ (p[j].id + 1) - 1 = p[j].id
    BY <2>0, <2>1
  <2>3. (CHOOSE i \in DOMAIN p : p[i].id = p[j].id) = j
    BY <1>1
  <2> DEFINE n == p[j].id + 1
  <2>4. n - 1 = p[j].id /\ n \in 1..VocabSize
    BY <2>2
  <2> HIDE DEF n
  <2>5. Owned(p)[n] = p[j].bytes
    BY <2>3, <2>4 DEF Owned
  <2> QED
    BY <2>2, <2>5 DEF n
<1>4. ASSUME NEW i \in 1..VocabSize, \A j \in DOMAIN p : p[j].id # i - 1
      PROVE  Owned(p)[i] = <<>>
  BY <1>4 DEF Owned
<1> QED
  BY <1>2, <1>3, <1>4

\* tables.rs:226: the sum of the rows' lengths is the length of the blob.
LEMMA BlobIsAsLong ==
  ASSUME NEW p \in Seq(Row), ~Refused(p)
  PROVE  Len(FlattenSeq(Owned(p))) = BlobLen(p)
<1> DEFINE S == 0..Cont
           b == [i \in DOMAIN p |-> p[i].bytes]
           own(n) == [i \in 1..VocabSize |->
                        IF \E j \in 1..n : p[j].id = i - 1 THEN Owned(p)[i] ELSE <<>>]
           P == {n \in Nat : n <= Len(p) => Len(FlattenSeq(own(n))) = Upto(b, n)}
<1>1. b \in Seq(Seq(S)) /\ Len(b) = Len(p) /\ Len(p) \in Nat
      /\ \A i \in 1..Len(p) : b[i] = p[i].bytes
  <2>1. DOMAIN p = 1..Len(p) /\ Len(p) \in Nat
    OBVIOUS
  <2>2. \A i \in 1..Len(p) : p[i].bytes \in Seq(S)
    BY <2>1, RowParts
  <2> HIDE DEF S
  <2>3. b = [i \in 1..Len(p) |-> p[i].bytes]
    BY <2>1
  <2>4. Len(b) = Len(p)
    BY <2>1, <2>3
  <2>5. b \in Seq(Seq(S))
    BY <2>1, <2>2, <2>3
  <2> QED
    BY <2>1, <2>3, <2>4, <2>5
<1>2. \A n \in Nat : own(n) \in Seq(Seq(S)) /\ Len(own(n)) = VocabSize
  <2>1. <<>> \in Seq(S) /\ \A i \in 1..VocabSize : Owned(p)[i] \in Seq(S)
    BY OwnedTyped
  <2>2. VocabSize \in Nat
    BY Numbers
  <2> HIDE DEF S
  <2> QED
    BY <2>1, <2>2
<1>3. 0 \in P
  <2>1. \A i \in 1..VocabSize : own(0)[i] = <<>>
    OBVIOUS
  <2>2. Len(FlattenSeq(own(0))) = 0
    <3> DEFINE s == own(0)
    <3>1. s \in Seq(Seq({})) /\ Len(s) = VocabSize
      <4>1. <<>> \in Seq({})
        OBVIOUS
      <4> QED
        BY <2>1, <4>1, Numbers
    <3> HIDE DEF s
    <3>2. FlattenSeq(s) \in Seq({})
      BY <3>1, FlattenTyped
    <3>3. \A u \in Seq({}) : Len(u) = 0
      OBVIOUS
    <3> QED
      BY <3>2, <3>3 DEF s
  <2>3. Upto(b, 0) = 0
    BY JoinedNone DEF Upto
  <2> QED
    BY <2>2, <2>3
<1>4. ASSUME NEW n \in Nat, n \in P
      PROVE  n + 1 \in P
  <2> SUFFICES ASSUME n + 1 <= Len(p) PROVE Len(FlattenSeq(own(n + 1))) = Upto(b, n + 1)
    OBVIOUS
  <2>1. n < Len(p) /\ n + 1 \in Nat /\ n + 1 \in 1..Len(p) /\ n + 1 \in DOMAIN p
    BY <1>1
  <2>2. Len(FlattenSeq(own(n))) = Upto(b, n)
    BY <1>4, <2>1
  <2> DEFINE k == p[n + 1].id + 1
  <2>3. k \in 1..VocabSize /\ Owned(p)[k] = p[n + 1].bytes /\ k - 1 = p[n + 1].id
    <3>1. p[n + 1].id \in Nat
      BY <2>1, RowParts
    <3> QED
      BY <2>1, <3>1, OwnedOf
  <2> HIDE DEF k
  <2>4. \A j \in 1..n : p[j].id # k - 1
    BY <2>1, <2>3 DEF Refused
  <2>5. own(n)[k] = <<>>
    BY <2>3, <2>4
  <2>6. own(n + 1)[k] = p[n + 1].bytes
    BY <2>1, <2>3
  <2>7. ASSUME NEW i \in 1..VocabSize, i # k
        PROVE  own(n)[i] = own(n + 1)[i]
    <3>1. p[n + 1].id # i - 1
      BY <2>3, <2>7, Numbers, RowParts, <2>1
    <3>2. (\E j \in 1..n : p[j].id = i - 1) <=> (\E j \in 1..n + 1 : p[j].id = i - 1)
      BY <3>1
    <3> QED
      BY <3>2
  <2>8. own(n) \in Seq(Seq(S)) /\ own(n + 1) \in Seq(Seq(S))
        /\ Len(own(n)) = VocabSize /\ Len(own(n + 1)) = VocabSize
    BY <1>2, <2>1
  <2> DEFINE s == own(n)
             t == own(n + 1)
  <2>11. k \in 1..Len(s) /\ s[k] = <<>> /\ \A i \in 1..Len(s) : i # k => s[i] = t[i]
    BY <2>3, <2>5, <2>7, <2>8
  <2> HIDE DEF own, S, b, s, t
  <2>12. s \in Seq(Seq(S)) /\ t \in Seq(Seq(S)) /\ Len(s) = Len(t)
    BY <2>8 DEF s, t
  <2>13. Len(FlattenSeq(t)) = Len(FlattenSeq(s)) + Len(t[k])
    BY <2>11, <2>12, PieceMore
  <2>9. Len(FlattenSeq(own(n + 1))) = Len(FlattenSeq(own(n))) + Len(own(n + 1)[k])
    BY <2>13 DEF s, t
  <2>10. Upto(b, n + 1) = Upto(b, n) + Len(b[n + 1])
    BY <1>1, <2>1, UptoStep
  <2> QED
    BY <1>1, <2>1, <2>2, <2>6, <2>9, <2>10
<1> HIDE DEF P, own, b, S
<1>5. Nat \subseteq P
  BY <1>3, <1>4, NatSetInduction
<1>6. Len(FlattenSeq(own(Len(p)))) = Upto(b, Len(p))
  BY <1>1, <1>5 DEF P
<1>7. own(Len(p)) = Owned(p)
  <2> USE DEF own
  <2>1. \A i \in 1..VocabSize : own(Len(p))[i] = Owned(p)[i]
    <3> SUFFICES ASSUME NEW i \in 1..VocabSize PROVE own(Len(p))[i] = Owned(p)[i]
      OBVIOUS
    <3>1. DOMAIN p = 1..Len(p)
      OBVIOUS
    <3>2. (\A j \in DOMAIN p : p[j].id # i - 1) => Owned(p)[i] = <<>>
      BY OwnedOf
    <3> QED
      BY <3>1, <3>2
  <2>2. Owned(p) = [i \in 1..VocabSize |-> Owned(p)[i]]
    BY DEF Owned
  <2> QED
    BY <2>1, <2>2
<1> HIDE DEF own, b
<1>8. Upto(b, Len(p)) = Len(FlattenSeq(b))
  BY <1>1, JoinedAll DEF Upto
<1> QED
  BY <1>6, <1>7, <1>8 DEF BlobLen, b

\* No offset of a map that build makes is cut to u32's width, and what get then reads is what
\* the id owns.
LEMMA BuildIs ==
  ASSUME NEW p \in Seq(Row), ~Refused(p)
  PROVE  /\ Build(p).offsets \in Seq(Cells) /\ Len(Build(p).offsets) = VocabSize + 1
         /\ Build(p).blob \in Seq(0..Cont) /\ Len(Build(p).blob) \in Nat
         /\ Build(p).offsets[1] = 0
         /\ Build(p).offsets[VocabSize + 1] = Len(Build(p).blob)
         /\ \A k \in 1..VocabSize :
              /\ Build(p).offsets[k + 1] = Build(p).offsets[k] + Len(Owned(p)[k])
              /\ SubSeq(Build(p).blob, Build(p).offsets[k] + 1, Build(p).offsets[k + 1])
                   = Owned(p)[k]
<1> DEFINE o == Owned(p)
           S == 0..Cont
<1>1. o \in Seq(Seq(S)) /\ Len(o) = VocabSize
  BY OwnedTyped
<1>2. VocabSize \in Nat /\ VocabSize # 0
  BY Numbers
<1>3. Len(FlattenSeq(o)) <= MaxU32
  <2>1. ~(BlobLen(p) > MaxU32)
    BY DEF Refused
  <2>2. Len(FlattenSeq(o)) = BlobLen(p)
    BY BlobIsAsLong
  <2>3. FlattenSeq(o) \in Seq(S)
    BY <1>1, FlattenTyped
  <2>4. Len(FlattenSeq(o)) \in Nat
    BY <2>3
  <2> QED
    BY <2>1, <2>2, <2>4, Numbers
<1>4. Build(p) = [offsets |-> [k \in 1..VocabSize + 1 |-> Upto(o, k - 1) % (MaxU32 + 1)],
                  blob |-> FlattenSeq(o)]
  BY DEF Build, Upto, Joined
<1> HIDE DEF o, S
<1>5. \A n \in 0..VocabSize : Upto(o, n) \in Nat /\ Upto(o, n) <= MaxU32
  <2> SUFFICES ASSUME NEW n \in 0..VocabSize
               PROVE  Upto(o, n) \in Nat /\ Upto(o, n) <= MaxU32
    OBVIOUS
  <2>1. n \in Nat /\ n <= Len(o) /\ Len(o) \in Nat
    BY <1>1, <1>2
  <2>2. Joined(o, n) \in Seq(S)
    BY <1>1, <2>1, JoinedTyped
  <2>3. Upto(o, n) \in Nat
    BY <2>2 DEF Upto
  <2>4. Upto(o, n) <= Upto(o, Len(o))
    BY <1>1, <2>1, JoinedStays
  <2>5. Upto(o, Len(o)) = Len(FlattenSeq(o))
    BY <1>1, JoinedAll DEF Upto
  <2>6. FlattenSeq(o) \in Seq(S)
    BY <1>1, FlattenTyped
  <2>7. Len(FlattenSeq(o)) \in Nat
    BY <2>6
  <2> QED
    BY <1>3, <2>3, <2>4, <2>5, <2>7, Numbers
<1>6. \A k \in 1..VocabSize + 1 : k - 1 \in 0..VocabSize
  BY <1>2
<1> DEFINE f == [k \in 1..VocabSize + 1 |-> Upto(o, k - 1) % (MaxU32 + 1)]
           b == FlattenSeq(o)
<1>7. \A k \in 1..VocabSize + 1 : f[k] = Upto(o, k - 1) /\ f[k] \in Cells
  <2> SUFFICES ASSUME NEW k \in 1..VocabSize + 1
               PROVE  f[k] = Upto(o, k - 1) /\ f[k] \in Cells
    OBVIOUS
  <2>1. Upto(o, k - 1) \in Nat /\ Upto(o, k - 1) <= MaxU32
    BY <1>5, <1>6
  <2> DEFINE u == Upto(o, k - 1)
  <2>2. f[k] = u % (MaxU32 + 1)
    OBVIOUS
  <2> HIDE DEF u, f
  <2>3. u % (MaxU32 + 1) \in Cells /\ u % (MaxU32 + 1) = u
    BY <2>1, Numbers DEF u
  <2> QED
    BY <2>2, <2>3 DEF u
<1>8. f \in Seq(Cells) /\ Len(f) = VocabSize + 1
  <2>1. VocabSize + 1 \in Nat
    BY <1>2
  <2>2. f = [k \in 1..VocabSize + 1 |-> f[k]]
    OBVIOUS
  <2> HIDE DEF f
  <2> QED
    BY <1>7, <2>1, <2>2
<1>9. b \in Seq(S)
  BY <1>1, FlattenTyped
<1>10. Len(b) \in Nat
  BY <1>9
<1> HIDE DEF f, b
<1>11. f[1] = 0
  <2>1. 1 \in 1..VocabSize + 1 /\ 1 - 1 = 0
    BY <1>2
  <2>2. Upto(o, 0) = 0
    BY JoinedNone DEF Upto
  <2> QED
    BY <1>7, <2>1, <2>2
<1>12. f[VocabSize + 1] = Len(b)
  <2>1. VocabSize + 1 \in 1..VocabSize + 1 /\ (VocabSize + 1) - 1 = VocabSize
    BY <1>2
  <2>2. f[VocabSize + 1] = Upto(o, VocabSize)
    BY <1>7, <2>1
  <2> QED
    BY <1>1, <2>2, JoinedAll DEF Upto, b
<1>13. ASSUME NEW k \in 1..VocabSize
       PROVE  /\ f[k + 1] = f[k] + Len(o[k])
              /\ SubSeq(b, f[k] + 1, f[k + 1]) = o[k]
  <2>1. /\ k \in 1..VocabSize + 1 /\ k + 1 \in 1..VocabSize + 1 /\ (k + 1) - 1 = k
        /\ k - 1 \in Nat /\ k - 1 < VocabSize /\ (k - 1) + 1 = k
    BY <1>2
  <2>2. f[k] = Upto(o, k - 1) /\ f[k + 1] = Upto(o, k)
    BY <1>7, <2>1
  <2> DEFINE n == k - 1
  <2>3. n \in Nat /\ n < Len(o) /\ n + 1 = k
    BY <1>1, <2>1
  <2> HIDE DEF n
  <2>4. /\ Upto(o, n + 1) = Upto(o, n) + Len(o[n + 1])
        /\ SubSeq(FlattenSeq(o), Upto(o, n) + 1, Upto(o, n + 1)) = o[n + 1]
    BY <1>1, <2>3, PieceOf
  <2> QED
    BY <2>2, <2>3, <2>4 DEF n, b
<1>14. Build(p).offsets = f /\ Build(p).blob = b
  BY <1>4 DEF f, b
<1> QED
  BY <1>8, <1>9, <1>10, <1>11, <1>12, <1>13, <1>14 DEF o, S

LEMMA SeqWider ==
  ASSUME NEW S, NEW T, S \subseteq T, NEW u \in Seq(S)
  PROVE  u \in Seq(T)
OBVIOUS

\* Reading back what was written.
LEMMA Halves ==
  ASSUME NEW S, NEW u \in Seq(S), NEW v \in Seq(S), NEW n \in Nat, Len(u) = n + 1
  PROVE  /\ SubSeq(u \o v, 1, n + 1) = u
         /\ SubSeq(u \o v, n + 2, Len(u \o v)) = v
         /\ u \o v \in Seq(S) /\ Len(u \o v) >= n + 1
<1>1. u \o v \in Seq(S) /\ Len(u \o v) = n + 1 + Len(v) /\ Len(v) \in Nat
  OBVIOUS
<1> DEFINE f == SubSeq(u \o v, 1, n + 1)
           g == SubSeq(u \o v, n + 2, Len(u \o v))
<1>2. f \in Seq(S) /\ Len(f) = Len(u) /\ \A i \in 1..Len(f) : f[i] = u[i]
  BY <1>1
<1>3. g \in Seq(S) /\ Len(g) = Len(v) /\ \A i \in 1..Len(g) : g[i] = v[i]
  BY <1>1
<1> HIDE DEF f, g
<1>4. f = u
  BY <1>2, SeqSame
<1>5. g = v
  BY <1>3, SeqSame
<1> QED
  BY <1>1, <1>4, <1>5 DEF f, g

\* tables.rs:256-346: a mapping written is accepted, as the map that was built.
LEMMA MappingReadBack ==
  ASSUME NEW p \in Seq(Row), ~Refused(p)
  PROVE  /\ ToBytes(Build(p)) \in File /\ ToBytes(Build(p)).size = VocabSize
         /\ Accepted(ToBytes(Build(p))) /\ FromBytes(ToBytes(Build(p))) = Build(p)
<1> DEFINE m == Build(p)
           f == ToBytes(m)
           n == VocabSize
<1>1. /\ m.offsets \in Seq(Cells) /\ Len(m.offsets) = n + 1 /\ m.blob \in Seq(0..Cont)
      /\ Len(m.blob) \in Nat /\ m.offsets[1] = 0 /\ m.offsets[n + 1] = Len(m.blob)
      /\ \A k \in 1..n : m.offsets[k + 1] = m.offsets[k] + Len(Owned(p)[k])
  BY BuildIs
<1>2. m = [offsets |-> m.offsets, blob |-> m.blob]
  BY DEF Build
<1>3. n \in Nat /\ n # 0 /\ n <= MaxU32 /\ MaxU32 \in Nat
  BY Numbers
<1>4. m.blob \in Seq(Cells)
  BY <1>1, Numbers, SeqWider
<1>5. \A k \in 1..n : Len(Owned(p)[k]) \in Nat
  <2>1. Owned(p) \in Seq(Seq(0..Cont)) /\ Len(Owned(p)) = n
    BY OwnedTyped
  <2> QED
    BY <2>1
<1> HIDE DEF m
<1>6. f = [envelope |-> "sound", kind |-> "map", size |-> n, payload |-> m.offsets \o m.blob]
  BY <1>1, <1>3 DEF ToBytes, Sound
<1> HIDE DEF f, n
<1>7. f \in File /\ f.size = n
  <2>1. m.offsets \o m.blob \in Seq(Cells)
    BY <1>1, <1>4
  <2> QED
    BY <1>3, <1>6, <2>1 DEF File, Cells
<1>8. Offsets(f) = m.offsets /\ Blob(f) = m.blob /\ Len(f.payload) >= n + 1
  <2> DEFINE u == m.offsets
             v == m.blob
  <2>1. u \in Seq(Cells) /\ v \in Seq(Cells) /\ Len(u) = n + 1
    BY <1>1, <1>4
  <2>2. f.payload = u \o v /\ f.size = n
    BY <1>6
  <2> HIDE DEF u, v
  <2>3. /\ SubSeq(u \o v, 1, n + 1) = u
        /\ SubSeq(u \o v, n + 2, Len(u \o v)) = v
        /\ Len(u \o v) >= n + 1
    BY <1>3, <2>1, Halves
  <2> QED
    BY <2>2, <2>3 DEF Offsets, Blob, u, v
<1>9. FromBytes(f) = m
  BY <1>2, <1>8 DEF FromBytes
<1>10. Last(Offsets(f)) = Len(Blob(f))
  BY <1>1, <1>8 DEF Last
<1>11. \A k \in 1..n : m.offsets[k] <= m.offsets[k + 1]
  <2>1. \A k \in 1..n : m.offsets[k] \in Nat
    <3>1. \A k \in 1..n : k \in 1..n + 1
      BY <1>3
    <3>2. \A k \in 1..n + 1 : m.offsets[k] \in Cells
      BY <1>1
    <3> QED
      BY <3>1, <3>2 DEF Cells
  <2> QED
    BY <1>1, <1>5, <2>1
<1>12. Accepted(f)
  BY <1>1, <1>6, <1>7, <1>8, <1>10, <1>11 DEF Accepted
<1> QED
  BY <1>7, <1>9, <1>12 DEF f, m, n

\* Every row's bytes, and nothing where no row was.
LEMMA MappingAnswers ==
  ASSUME NEW p \in Seq(Row), ~Refused(p)
  PROVE  /\ \A j \in DOMAIN p : Get(Build(p), p[j].id) = p[j].bytes
         /\ \A id \in Ids : (\A j \in DOMAIN p : p[j].id # id) => Get(Build(p), id) = Absent
<1> DEFINE m == Build(p)
           o == Owned(p)
<1>1. /\ Len(m.offsets) = VocabSize + 1 /\ m.offsets \in Seq(Cells)
      /\ \A k \in 1..VocabSize :
           /\ m.offsets[k + 1] = m.offsets[k] + Len(o[k])
           /\ SubSeq(m.blob, m.offsets[k] + 1, m.offsets[k + 1]) = o[k]
  BY BuildIs
<1>2. o \in Seq(Seq(0..Cont)) /\ Len(o) = VocabSize
  BY OwnedTyped
<1>3. VocabSize \in Nat
  BY Numbers
<1>4. \A j \in DOMAIN p : p[j].id + 1 \in 1..VocabSize /\ p[j].bytes # <<>>
                          /\ o[p[j].id + 1] = p[j].bytes /\ p[j].id \in Nat
  BY OwnedOf, RowParts
<1>5. \A i \in 1..VocabSize : (\A j \in DOMAIN p : p[j].id # i - 1) => o[i] = <<>>
  BY OwnedOf
<1> HIDE DEF m, o
<1>6. ASSUME NEW id \in Nat, id < VocabSize
      PROVE  Get(m, id) = IF o[id + 1] = <<>> THEN Absent ELSE o[id + 1]
  <2>1. id + 1 \in 1..VocabSize /\ id + 1 \in 1..Len(m.offsets) /\ (id + 1) + 1 = id + 2
        /\ ~(id >= Len(m.offsets) - 1)
    BY <1>1, <1>3, <1>6
  <2> DEFINE k == id + 1
  <2>7. \A i \in 1..Len(m.offsets) : m.offsets[i] \in Cells
    BY <1>1
  <2>2. m.offsets[k] \in Nat
    BY <2>1, <2>7 DEF Cells
  <2>3. /\ m.offsets[k + 1] = m.offsets[k] + Len(o[k])
        /\ SubSeq(m.blob, m.offsets[k] + 1, m.offsets[k + 1]) = o[k]
    BY <1>1, <2>1
  <2>4. o[k] \in Seq(0..Cont)
    BY <1>2, <2>1
  <2>5. Len(o[k]) \in Nat /\ (Len(o[k]) = 0 <=> o[k] = <<>>)
    BY <2>4
  <2>6. m.offsets[k] = m.offsets[k + 1] <=> o[k] = <<>>
    BY <2>2, <2>3, <2>5
  <2> QED
    BY <2>1, <2>3, <2>6 DEF Get
<1>7. ASSUME NEW j \in DOMAIN p
      PROVE  Get(m, p[j].id) = p[j].bytes
  <2>1. p[j].id \in Nat /\ p[j].id < VocabSize
    BY <1>3, <1>4
  <2> QED
    BY <1>4, <1>6, <2>1
<1>8. ASSUME NEW id \in Ids, \A j \in DOMAIN p : p[j].id # id
      PROVE  Get(m, id) = Absent
  <2>0. id \in Nat /\ id <= VocabSize
    BY <1>3 DEF Ids
  <2>1. CASE id = VocabSize
    BY <1>1, <1>3, <2>1 DEF Get
  <2>2. CASE id # VocabSize
    <3>1. id + 1 \in 1..VocabSize /\ (id + 1) - 1 = id
      BY <1>3, <2>0, <2>2
    <3> DEFINE i == id + 1
    <3>2. o[i] = <<>>
      BY <1>5, <1>8, <3>1
    <3>3. id < VocabSize
      BY <1>3, <2>0, <2>2
    <3> QED
      BY <1>6, <2>0, <3>2, <3>3
  <2> QED
    BY <2>1, <2>2
<1> QED
  BY <1>7, <1>8 DEF m

\* lib.rs:159-166: a ranking trained is one that is read back.
LEMMA RankingReadBack ==
  ASSUME NEW ids \in Corpora, NEW cap \in Caps
  PROVE  IsTable(TrainTable(ids, cap))
<1>1. MaxU32 - 1 \in Nat /\ MaxU32 - 1 < MaxU32
  BY Numbers
<1>2. ids \in Seq(0..(MaxU32 - 1)) /\ cap \in Nat
  BY DetokAssumption
<1> QED
  BY <1>1, <1>2, TrainTableIsTable

\* What ascends ends at its largest.
LEMMA LastIsLargest ==
  ASSUME NEW n \in Nat, NEW u \in Seq(Nat), Len(u) = n + 1,
         \A k \in 1..n : u[k] <= u[k + 1]
  PROVE  \A k \in 1..n + 1 : u[k] <= u[n + 1]
<1> DEFINE P == {j \in Nat : j <= n => u[n + 1 - j] <= u[n + 1]}
<1>1. \A k \in 1..n + 1 : u[k] \in Nat
  OBVIOUS
<1>2. 0 \in P
  <2>1. n + 1 \in 1..n + 1 /\ n + 1 - 0 = n + 1
    OBVIOUS
  <2> QED
    BY <1>1, <2>1
<1>3. ASSUME NEW j \in Nat, j \in P
      PROVE  j + 1 \in P
  <2> SUFFICES ASSUME j + 1 <= n PROVE u[n + 1 - (j + 1)] <= u[n + 1]
    OBVIOUS
  <2> DEFINE k == n + 1 - (j + 1)
  <2>1. k \in 1..n /\ k \in 1..n + 1 /\ k + 1 \in 1..n + 1 /\ n + 1 \in 1..n + 1
        /\ k + 1 = n + 1 - j
    OBVIOUS
  <2>2. u[n + 1 - j] <= u[n + 1]
    BY <1>3
  <2>3. u[k] <= u[k + 1] /\ u[k] \in Nat /\ u[k + 1] \in Nat /\ u[n + 1] \in Nat
    BY <1>1, <2>1
  <2> HIDE DEF k
  <2>4. u[k] <= u[n + 1]
    BY <2>1, <2>2, <2>3
  <2> QED
    BY <2>4 DEF k
<1> HIDE DEF P
<1>4. Nat \subseteq P
  BY <1>2, <1>3, NatSetInduction
<1>5. ASSUME NEW k \in 1..n + 1 PROVE u[k] <= u[n + 1]
  <2>1. n + 1 - k \in Nat /\ n + 1 - k <= n /\ n + 1 - (n + 1 - k) = k
    OBVIOUS
  <2> DEFINE j == n + 1 - k
  <2>2. j \in P
    BY <1>4, <2>1
  <2> QED
    BY <2>1, <2>2 DEF P
<1> QED
  BY <1>5

\* tables.rs:440-457: the ranges of an accepted file lie in its blob.
LEMMA AcceptedInRange ==
  ASSUME NEW f \in File, Accepted(f)
  PROVE  LET m == FromBytes(f) IN
         /\ m.offsets \in Seq(Cells) /\ m.blob \in Seq(Cells) /\ Len(m.offsets) = f.size + 1
         /\ \A k \in 1..f.size :
              m.offsets[k] <= m.offsets[k + 1] /\ m.offsets[k + 1] <= Len(m.blob)
<1> DEFINE u == Offsets(f)
           b == Blob(f)
           n == f.size
<1>1. f.payload \in Seq(Cells) /\ n \in Nat /\ Len(f.payload) \in Nat
  BY Numbers DEF File, Cells
<1>2. /\ Len(f.payload) >= n + 1
      /\ \A k \in 1..n : u[k] <= u[k + 1]
      /\ Last(u) = Len(b)
  BY DEF Accepted
<1>3. u \in Seq(Cells) /\ Len(u) = n + 1
  BY <1>1, <1>2 DEF Offsets
<1>4. b \in Seq(Cells)
  BY <1>1, <1>2 DEF Blob
<1> HIDE DEF u, b, n
<1>5. u \in Seq(Nat)
  <2>1. Cells \subseteq Nat
    BY Numbers DEF Cells
  <2> QED
    BY <1>3, <2>1, SeqWider
<1>6. u[n + 1] = Len(b)
  BY <1>2, <1>3 DEF Last
<1>7. \A k \in 1..n + 1 : u[k] <= u[n + 1]
  BY <1>1, <1>2, <1>3, <1>5, LastIsLargest
<1>8. \A k \in 1..n : k + 1 \in 1..n + 1
  BY <1>1
<1>9. \A k \in 1..n : u[k] <= u[k + 1] /\ u[k + 1] <= Len(b)
  BY <1>2, <1>6, <1>7, <1>8
<1> QED
  BY <1>3, <1>4, <1>9 DEF FromBytes, u, b, n

-----------------------------------------------------------------------------
(* The invariant.                                                            *)

\* The rows a mapping was built from, which build did not refuse.
BuiltFrom(f, p) ==
  /\ p \in Seq(Row) /\ ~Refused(p)
  /\ f = ToBytes(Build(p)) /\ given = {p[i] : i \in DOMAIN p}

\* A file that the disk left alone is the mapping of the rows given or the ranking trained.
Written ==
  /\ file = Absent => trained = Absent /\ ~damaged
  /\ file # Absent /\ ~damaged =>
       IF trained = Absent THEN \E p : BuiltFrom(file, p)
       ELSE IsTable(trained) /\ file = RankToBytes(trained)

\* What a backend holds was accepted from the file as it is now.
TableFromFile == table # Absent => file # Absent /\ table \in RankFromBytes(file)
MapFromFile == map # Absent => file # Absent /\ Accepted(file) /\ map = FromBytes(file)

FInv == TypeOK /\ Written /\ TableFromFile /\ MapFromFile

\* A ranking written is read back, by the extension and by the client.
LEMMA RankingFileTyped ==
  ASSUME NEW t, IsTable(t)
  PROVE  /\ t \in Seq(Cells) /\ RankToBytes(t) \in File /\ RankToBytes(t).size = K(t)
         /\ t # Absent /\ RankToBytes(t) # Absent
         /\ RankFromBytes(RankToBytes(t)) = {t} /\ ClientLoad(RankToBytes(t)) = {t}
<1>1. t \in Seq(Cells) /\ K(t) \in Cells
  BY DEF IsTable, U32, Cells
<1>2. RankToBytes(t) = [envelope |-> "sound", kind |-> "ranking", size |-> K(t), payload |-> t]
  BY DEF RankToBytes, Sound
<1>3. RankToBytes(t) \in File
  BY <1>1, <1>2 DEF File
<1>4. t # Absent /\ RankToBytes(t) # Absent
  BY <1>1, <1>3, DetokAssumption
<1>5. RankFromBytes(RankToBytes(t)) = {t} /\ ClientLoad(RankToBytes(t)) = {t}
  BY <1>2 DEF RankFromBytes, ClientLoad, K
<1> QED
  BY <1>1, <1>2, <1>3, <1>4, <1>5

\* A damaged file is still one.
LEMMA DamagedTyped ==
  ASSUME file \in File, Damage
  PROVE  file' \in File
<1>1. file.payload \in Seq(Cells)
  BY DEF File
<1>2. CASE \E k \in DOMAIN file.payload, c \in Cells : file' = [file EXCEPT !.payload[k] = c]
  <2>1. PICK k \in DOMAIN file.payload, c \in Cells : file' = [file EXCEPT !.payload[k] = c]
    BY <1>2
  <2>2. [file.payload EXCEPT ![k] = c] \in Seq(Cells)
    BY <1>1, <2>1
  <2> QED
    BY <2>1, <2>2 DEF File
<1>3. CASE \E n \in 0..(Len(file.payload) - 1) :
             file' = [file EXCEPT !.payload = SubSeq(file.payload, 1, n)]
  <2>1. PICK n \in 0..(Len(file.payload) - 1) :
          file' = [file EXCEPT !.payload = SubSeq(file.payload, 1, n)]
    BY <1>3
  <2>2. SubSeq(file.payload, 1, n) \in Seq(Cells)
    BY <1>1, <2>1
  <2> QED
    BY <2>1, <2>2 DEF File
<1>4. CASE \E c \in Cells : file' = [file EXCEPT !.payload = Append(file.payload, c)]
  <2>1. PICK c \in Cells : file' = [file EXCEPT !.payload = Append(file.payload, c)]
    BY <1>4
  <2>2. Append(file.payload, c) \in Seq(Cells)
    BY <1>1, <2>1
  <2> QED
    BY <2>1, <2>2 DEF File
<1>5. CASE \/ \E n \in Cells : file' = [file EXCEPT !.size = n]
           \/ \E kind \in {"map", "ranking"} \ {file.kind} : file' = [file EXCEPT !.kind = kind]
           \/ \E envelope \in {"foreign", "reserved"} :
                file' = [file EXCEPT !.envelope = envelope]
  BY <1>5 DEF File
<1>6. \/ \E k \in DOMAIN file.payload, c \in Cells : file' = [file EXCEPT !.payload[k] = c]
      \/ \E n \in 0..(Len(file.payload) - 1) :
           file' = [file EXCEPT !.payload = SubSeq(file.payload, 1, n)]
      \/ \E c \in Cells : file' = [file EXCEPT !.payload = Append(file.payload, c)]
      \/ \E n \in Cells : file' = [file EXCEPT !.size = n]
      \/ \E kind \in {"map", "ranking"} \ {file.kind} : file' = [file EXCEPT !.kind = kind]
      \/ \E envelope \in {"foreign", "reserved"} :
           file' = [file EXCEPT !.envelope = envelope]
  <2> HIDE DEF File, Cells
  <2> QED
    BY SMT DEF Damage
<1> QED
  BY <1>2, <1>3, <1>4, <1>5, <1>6

\* FInv is inductive.
LEMMA FInvInit == Init => FInv
<1> SUFFICES ASSUME Init PROVE FInv
  OBVIOUS
<1>1. MaxRows \in Nat /\ MaxDoc \in Nat
  BY DetokAssumption
<1>2. TypeOK
  <2>1. rows \in Seq(Row) /\ Len(rows) <= MaxRows
    BY <1>1 DEF Init
  <2>2. doc \in Seq(Ids) /\ Len(doc) <= MaxDoc /\ cut \in 0..Len(doc)
    BY <1>1 DEF Init
  <2>3. given \subseteq Row /\ damaged \in BOOLEAN /\ file = Absent
        /\ map = Absent /\ trained = Absent /\ table = Absent
    BY DEF Init
  <2> QED
    BY <2>1, <2>2, <2>3 DEF TypeOK
<1> QED
  BY <1>2 DEF Init, FInv, Written, TableFromFile, MapFromFile

LEMMA FInvStep == FInv /\ [Next]_vars => FInv'
<1> SUFFICES ASSUME FInv, [Next]_vars
             PROVE  FInv'
  OBVIOUS
<1> USE DEF FInv
<1>1. ASSUME NEW id \in Ids, NEW bytes \in Entries, Fetch(id, bytes)
      PROVE  FInv'
  <2>1. [id |-> id, bytes |-> bytes] \in Row
    BY DEF Row
  <2> DEFINE r == [id |-> id, bytes |-> bytes]
  <2> HIDE DEF r
  <2>2. rows \in Seq(Row) /\ Len(rows) < MaxRows /\ MaxRows \in Nat /\ rows' = Append(rows, r)
    BY <1>1, DetokAssumption DEF Fetch, TypeOK, r
  <2>3. rows' \in Seq(Row) /\ Len(rows') <= MaxRows
    BY <2>1, <2>2 DEF r
  <2>4. UNCHANGED <<given, trained, file, damaged, map, table, doc, cut>>
    BY <1>1 DEF Fetch
  <2>5. TypeOK'
    BY <2>3, <2>4 DEF TypeOK
  <2> QED
    BY <2>4, <2>5 DEF Written, BuiltFrom, TableFromFile, MapFromFile
<1>2. CASE FetchFails \/ BuildFails
  <2>1. rows' = <<>> /\ UNCHANGED <<given, trained, file, damaged, map, table, doc, cut>>
    BY <1>2 DEF FetchFails, BuildFails
  <2>2. <<>> \in Seq(Row) /\ Len(<<>>) <= MaxRows
    BY DetokAssumption
  <2>3. TypeOK'
    BY <2>1, <2>2 DEF TypeOK
  <2> QED
    BY <2>1, <2>3 DEF Written, BuiltFrom, TableFromFile, MapFromFile
<1>3. CASE LoadMapping
  <2>1. /\ file = Absent /\ ~Refused(rows) /\ file' = ToBytes(Build(rows))
        /\ given' = {rows[i] : i \in DOMAIN rows} /\ rows' = <<>>
        /\ UNCHANGED <<trained, damaged, map, table, doc, cut>>
    BY <1>3 DEF LoadMapping
  <2>2. rows \in Seq(Row)
    BY DEF TypeOK
  <2>3. file' \in File /\ file'.size = VocabSize
    BY <2>1, <2>2, MappingReadBack
  <2>4. <<>> \in Seq(Row) /\ Len(<<>>) <= MaxRows
    BY DetokAssumption
  <2>5. given' \subseteq Row
    BY <2>1, <2>2
  <2>6. trained = Absent /\ ~damaged /\ map = Absent /\ table = Absent
    BY <2>1 DEF Written, TableFromFile, MapFromFile
  <2>7. TypeOK'
    BY <2>1, <2>3, <2>4, <2>5, <2>6 DEF TypeOK
  <2>8. file' # Absent
    BY <2>3, DetokAssumption
  <2>9. (\E p : BuiltFrom(file, p))'
    BY <2>1, <2>2 DEF BuiltFrom
  <2>10. Written'
    BY <2>1, <2>6, <2>8, <2>9 DEF Written
  <2> QED
    BY <2>1, <2>6, <2>7, <2>10 DEF TableFromFile, MapFromFile
<1>4. ASSUME NEW ids \in Corpora, NEW cap \in Caps, Train(ids, cap)
      PROVE  FInv'
  <2>1. /\ file = Absent /\ rows = <<>> /\ trained' = TrainTable(ids, cap)
        /\ file' = RankToBytes(trained')
        /\ UNCHANGED <<rows, given, damaged, map, table, doc, cut>>
    BY <1>4 DEF Train
  <2>2. IsTable(trained')
    BY <2>1, RankingReadBack
  <2>3. /\ trained' \in Seq(Cells) /\ file' \in File /\ file'.size = K(trained')
        /\ trained' # Absent /\ file' # Absent
    BY <2>1, <2>2, RankingFileTyped
  <2>4. ~damaged /\ map = Absent /\ table = Absent
    BY <2>1 DEF Written, TableFromFile, MapFromFile
  <2>5. TypeOK'
    BY <2>1, <2>3 DEF TypeOK
  <2>6. Written'
    BY <2>1, <2>2, <2>3 DEF Written
  <2> QED
    BY <2>1, <2>4, <2>5, <2>6 DEF TableFromFile, MapFromFile
<1>5. CASE Damage
  <2>1. /\ file # Absent /\ map = Absent /\ table = Absent /\ damaged' = TRUE
        /\ UNCHANGED <<rows, given, trained, map, table, doc, cut>>
    BY <1>5 DEF Damage
  <2>2. file' \in File
    BY <1>5, <2>1, DamagedTyped DEF TypeOK
  <2>3. file' # Absent
    BY <2>2, DetokAssumption
  <2>4. TypeOK'
    BY <2>1, <2>2 DEF TypeOK
  <2> QED
    BY <2>1, <2>3, <2>4 DEF Written, TableFromFile, MapFromFile
<1>6. CASE ByteMap
  <2>1. /\ file # Absent /\ Accepted(file) /\ map' = FromBytes(file)
        /\ UNCHANGED <<rows, given, trained, file, damaged, table, doc, cut>>
    BY <1>6 DEF ByteMap
  <2>2. map'.offsets \in Seq(Cells) /\ map'.blob \in Seq(Cells)
    BY <2>1, AcceptedInRange DEF TypeOK
  <2>3. map' \in [offsets : Seq(Cells), blob : Seq(Cells)]
    BY <2>1, <2>2 DEF FromBytes
  <2>4. TypeOK'
    BY <2>1, <2>3 DEF TypeOK
  <2> QED
    BY <2>1, <2>4 DEF Written, BuiltFrom, TableFromFile, MapFromFile
<1>7. CASE ReadRanking
  <2>1. /\ file # Absent /\ UNCHANGED <<rows, given, trained, file, damaged, map, doc, cut>>
        /\ table' \in RankFromBytes(file)
    BY <1>7 DEF ReadRanking
  <2>2. table' \in Seq(Cells)
    BY <2>1 DEF RankFromBytes, IsTable, U32, Cells
  <2>3. TypeOK'
    BY <2>1, <2>2 DEF TypeOK
  <2> QED
    BY <2>1, <2>3 DEF Written, BuiltFrom, TableFromFile, MapFromFile
<1>8. ASSUME NEW id \in Ids, Tokenize(id)
      PROVE  FInv'
  <2>1. /\ Len(doc) < MaxDoc /\ cut = 0 /\ doc' = Append(doc, id)
        /\ UNCHANGED <<rows, given, trained, file, damaged, map, table, cut>>
    BY <1>8 DEF Tokenize
  <2>2. doc \in Seq(Ids) /\ MaxDoc \in Nat
    BY DetokAssumption DEF TypeOK
  <2>3. doc' \in Seq(Ids) /\ Len(doc') <= MaxDoc /\ 0 \in 0..Len(doc')
    BY <2>1, <2>2
  <2>4. TypeOK'
    BY <2>1, <2>3 DEF TypeOK
  <2> QED
    BY <2>1, <2>4 DEF Written, BuiltFrom, TableFromFile, MapFromFile
<1>9. ASSUME NEW n \in 1..Len(doc), Cut(n)
      PROVE  FInv'
  <2>1. cut' = n /\ UNCHANGED <<rows, given, trained, file, damaged, map, table, doc>>
    BY <1>9 DEF Cut
  <2>2. n \in 0..Len(doc)
    OBVIOUS
  <2>3. TypeOK'
    BY <2>1, <2>2 DEF TypeOK
  <2> QED
    BY <2>1, <2>3 DEF Written, BuiltFrom, TableFromFile, MapFromFile
<1>10. CASE Reconnect
  <2>1. /\ map' = Absent /\ table' = Absent /\ doc' = <<>> /\ cut' = 0
        /\ UNCHANGED <<rows, given, trained, file, damaged>>
    BY <1>10 DEF Reconnect
  <2>2. <<>> \in Seq(Ids) /\ Len(<<>>) <= MaxDoc /\ 0 \in 0..Len(<<>>)
    BY DetokAssumption
  <2>3. TypeOK'
    BY <2>1, <2>2 DEF TypeOK
  <2> QED
    BY <2>1, <2>3 DEF Written, BuiltFrom, TableFromFile, MapFromFile
<1>11. CASE UNCHANGED vars
  BY <1>11 DEF vars, TypeOK, Written, BuiltFrom, TableFromFile, MapFromFile
<1> QED
  BY <1>1, <1>2, <1>3, <1>4, <1>5, <1>6, <1>7, <1>8, <1>9, <1>10, <1>11 DEF Next

\* tables.rs:256-346: every step keeps a written file and what was parsed from it together.
THEOREM FileInvariant == Spec => []FInv
BY FInvInit, FInvStep, PTL DEF Spec

\* The types of all that a load, a training, a damage and a reading leave, whatever their
\* order.
THEOREM TypeCorrect == Spec => []TypeOK
<1>1. FInv => TypeOK
  BY DEF FInv
<1> QED
  BY <1>1, FileInvariant, PTL

\* tables.rs:298-299: what the extension accepts ranks no token twice, and the client, which
\* does not look, reads the same, whatever happened to the file before.
THEOREM RankingAgreesHolds == Spec => []RankingAgrees
<1>1. FInv => RankingAgrees
  BY DEF FInv, TableFromFile, RankingAgrees, RankFromBytes, ClientLoad
<1> QED
  BY <1>1, FileInvariant, PTL

\* tables.rs:440-457: no offset of a parsed map leaves its blob, whatever happened to the file
\* before.
THEOREM NeverOutOfRangeHolds == Spec => []NeverOutOfRange
<1>1. FInv => NeverOutOfRange
  <2> SUFFICES ASSUME FInv, map # Absent
               PROVE  \A k \in 1..(Len(map.offsets) - 1) :
                        map.offsets[k] <= map.offsets[k + 1] /\ map.offsets[k + 1] <= Len(map.blob)
    BY DEF NeverOutOfRange
  <2>1. file \in File /\ Accepted(file) /\ map = FromBytes(file)
    BY DEF FInv, TypeOK, MapFromFile
  <2>2. Len(map.offsets) = file.size + 1 /\ file.size \in Nat
    BY <2>1, AcceptedInRange, Numbers DEF File, Cells
  <2>3. \A k \in 1..file.size :
          map.offsets[k] <= map.offsets[k + 1] /\ map.offsets[k + 1] <= Len(map.blob)
    BY <2>1, AcceptedInRange
  <2>4. Len(map.offsets) - 1 = file.size
    BY <2>2
  <2> QED
    BY <2>3, <2>4
<1> QED
  BY <1>1, FileInvariant, PTL

\* tables.rs:212-346: what is written and left alone is accepted as what was given, for every
\* number of rows and every length of their bytes: the blob is measured before its offsets
\* are cut to u32, so none is, and what is measured is what is laid out.
THEOREM ArtefactIsKeptHolds == Spec => []ArtefactIsKept
<1>1. FInv => ArtefactIsKept
  <2> SUFFICES ASSUME FInv, file # Absent, ~damaged
               PROVE  ArtefactIsKept
    BY DEF ArtefactIsKept
  <2>1. CASE trained # Absent
    <3>1. IsTable(trained) /\ file = RankToBytes(trained)
      BY <2>1 DEF FInv, Written
    <3>2. RankFromBytes(file) = {trained} /\ ClientLoad(file) = {trained}
      BY <3>1, RankingFileTyped
    <3> QED
      BY <2>1, <3>2 DEF ArtefactIsKept
  <2>2. CASE trained = Absent
    <3>1. PICK p : BuiltFrom(file, p)
      BY <2>2 DEF FInv, Written
    <3>2. /\ p \in Seq(Row) /\ ~Refused(p) /\ file = ToBytes(Build(p))
          /\ given = {p[i] : i \in DOMAIN p}
      BY <3>1 DEF BuiltFrom
    <3>3. Accepted(file) /\ FromBytes(file) = Build(p)
      BY <3>2, MappingReadBack
    <3>4. \A r \in given : Get(FromBytes(file), r.id) = r.bytes
      BY <3>2, <3>3, MappingAnswers
    <3>5. \A id \in Ids : (\A r \in given : r.id # id) => Get(FromBytes(file), id) = Absent
      BY <3>2, <3>3, MappingAnswers
    <3>6. \A id \in Ids :
            LET entries == {r \in given : r.id = id} IN
            IF entries = {} THEN Get(FromBytes(file), id) = Absent
            ELSE \A r \in entries : Get(FromBytes(file), id) = r.bytes
      BY <3>4, <3>5
    <3> QED
      BY <2>2, <3>3, <3>6 DEF ArtefactIsKept
  <2> QED
    BY <2>1, <2>2
<1> QED
  BY <1>1, FileInvariant, PTL

-----------------------------------------------------------------------------
(* UTF-8, by index: Whole and Begun of a front and of what follows it.       *)

\* The first n bytes are whole characters.
WholeTo(b, n) ==
  /\ n # 0 => b[1] # Cont
  /\ \A i \in 1..n : b[i] # Cont =>
       /\ b[i] < Cont /\ i + b[i] <= n
       /\ \A j \in (i + 1)..(i + b[i]) : b[j] = Cont
       /\ i + b[i] < n => b[i + b[i] + 1] # Cont

\* The bytes after the first n, up to the m-th, are the front of one character.
BegunFrom(b, n, m) ==
  n < m => /\ b[n + 1] < Cont /\ m - n <= b[n + 1]
           /\ \A j \in (n + 2)..m : b[j] = Cont

\* One whole character takes the bytes after the n-th up to the m-th.
OneFrom(b, n, m) ==
  /\ b[n + 1] < Cont /\ n + 1 + b[n + 1] = m
  /\ \A j \in (n + 2)..m : b[j] = Cont

\* The first m bytes split after the n-th.
Splits(b, n, m) == WholeTo(b, n) /\ BegunFrom(b, n, m)

LEMMA ContIs == Cont = 3
BY DEF Cont

\* Whole characters end with a whole character.
LEMMA WholeEnds ==
  ASSUME NEW b \in Seq(Nat), NEW m \in Nat, m # 0, m <= Len(b), WholeTo(b, m)
  PROVE  \E n \in Nat : n < m /\ WholeTo(b, n) /\ OneFrom(b, n, m)
<1> DEFINE opens == {d \in Nat : d < m /\ b[m - d] # Cont}
<1>1. /\ b[1] # Cont
      /\ \A i \in 1..m : b[i] # Cont =>
           /\ b[i] < Cont /\ i + b[i] <= m
           /\ \A j \in (i + 1)..(i + b[i]) : b[j] = Cont
           /\ i + b[i] < m => b[i + b[i] + 1] # Cont
  BY DEF WholeTo
<1>2. \A i \in 1..m : b[i] \in Nat
  OBVIOUS
<1>3. PICK d \in opens : \A e \in opens : d <= e
  <2>1. m - 1 \in opens
    <3>1. m - 1 \in Nat /\ m - 1 < m /\ m - (m - 1) = 1
      OBVIOUS
    <3> QED
      BY <1>1, <3>1
  <2>2. opens \subseteq Nat
    OBVIOUS
  <2> HIDE DEF opens
  <2> QED
    BY <2>1, <2>2, Least
<1> DEFINE k == m - d
<1>4. k \in 1..m /\ b[k] # Cont
  BY <1>3
<1>5. \A j \in (k + 1)..m : b[j] = Cont
  <2> SUFFICES ASSUME NEW j \in (k + 1)..m, b[j] # Cont PROVE FALSE
    OBVIOUS
  <2>1. m - j \in Nat /\ m - j < m /\ m - (m - j) = j /\ ~(d <= m - j)
    BY <1>3
  <2>2. m - j \in opens
    BY <2>1
  <2> QED
    BY <1>3, <2>1, <2>2
<1> HIDE DEF k, opens
<1>6. b[k] < Cont /\ k + b[k] <= m /\ (k + b[k] < m => b[k + b[k] + 1] # Cont) /\ b[k] \in Nat
  BY <1>1, <1>2, <1>4
<1>7. k + b[k] = m
  <2> SUFFICES ASSUME k + b[k] # m PROVE FALSE
    OBVIOUS
  <2>0. \A a, c, t \in Nat : a + c <= t /\ a + c # t => a + c + 1 \in (a + 1)..t /\ a + c < t
    OBVIOUS
  <2>2. k \in Nat
    BY <1>4
  <2>1. k + b[k] + 1 \in (k + 1)..m /\ k + b[k] < m
    BY <1>6, <2>0, <2>2
  <2> QED
    BY <1>5, <1>6, <2>1
<1> DEFINE n == k - 1
<1>8. n \in Nat /\ n < m /\ n + 1 = k /\ n + 2 = k + 1
  BY <1>4
<1>9. WholeTo(b, n)
  <2> SUFFICES ASSUME NEW i \in 1..n, b[i] # Cont
               PROVE  /\ b[i] < Cont /\ i + b[i] <= n
                      /\ \A j \in (i + 1)..(i + b[i]) : b[j] = Cont
                      /\ i + b[i] < n => b[i + b[i] + 1] # Cont
    BY <1>1 DEF WholeTo
  <2>1. i \in 1..m
    BY <1>8
  <2>2. /\ b[i] < Cont /\ i + b[i] <= m /\ b[i] \in Nat
        /\ \A j \in (i + 1)..(i + b[i]) : b[j] = Cont
        /\ i + b[i] < m => b[i + b[i] + 1] # Cont
    BY <1>1, <1>2, <2>1
  <2>3. i + b[i] <= n
    <3> SUFFICES ASSUME i + b[i] > n PROVE FALSE
      BY <1>8, <2>2
    <3>1. k \in (i + 1)..(i + b[i])
      BY <1>4, <1>8, <2>2
    <3> QED
      BY <1>4, <2>2, <3>1
  <2>4. i + b[i] < n => i + b[i] < m
    BY <1>8, <2>2
  <2> QED
    BY <2>2, <2>3, <2>4
<1>10. OneFrom(b, n, m)
  BY <1>5, <1>6, <1>7, <1>8 DEF OneFrom
<1> QED
  BY <1>8, <1>9, <1>10

\* And with a whole character more they are whole.
LEMMA WholeGrows ==
  ASSUME NEW b \in Seq(Nat), NEW n \in Nat, NEW m \in Nat, n < m, m <= Len(b),
         WholeTo(b, n), OneFrom(b, n, m)
  PROVE  WholeTo(b, m)
<1>1. /\ n # 0 => b[1] # Cont
      /\ \A i \in 1..n : b[i] # Cont =>
           /\ b[i] < Cont /\ i + b[i] <= n
           /\ \A j \in (i + 1)..(i + b[i]) : b[j] = Cont
           /\ i + b[i] < n => b[i + b[i] + 1] # Cont
  BY DEF WholeTo
<1>2. \A i \in 1..m : b[i] \in Nat
  OBVIOUS
<1> DEFINE k == n + 1
<1>3. /\ b[k] < Cont /\ k + b[k] = m
      /\ \A j \in (k + 1)..m : b[j] = Cont
  BY DEF OneFrom
<1>4. k \in 1..m /\ Cont \in Nat
  BY ContIs
<1>5. b[1] # Cont
  BY <1>1, <1>3, ContIs
<1>6. ASSUME NEW i \in 1..m, b[i] # Cont
      PROVE  /\ b[i] < Cont /\ i + b[i] <= m
             /\ \A j \in (i + 1)..(i + b[i]) : b[j] = Cont
             /\ i + b[i] < m => b[i + b[i] + 1] # Cont
  <2>1. CASE i \in 1..n
    <3>1. /\ b[i] < Cont /\ i + b[i] <= n /\ b[i] \in Nat
          /\ \A j \in (i + 1)..(i + b[i]) : b[j] = Cont
          /\ i + b[i] < n => b[i + b[i] + 1] # Cont
      BY <1>1, <1>2, <1>6, <2>1
    <3>2. i + b[i] = n => b[i + b[i] + 1] # Cont
      BY <1>3, ContIs
    <3>4. \A e \in Nat : e <= n => e <= m /\ (e < n \/ e = n)
      OBVIOUS
    <3>5. i + b[i] \in Nat /\ i + b[i] <= n
      <4>1. \A a, c \in Nat : a + c \in Nat
        OBVIOUS
      <4> QED
        BY <3>1, <4>1
    <3>3. i + b[i] <= m /\ (i + b[i] < n \/ i + b[i] = n)
      BY <3>4, <3>5
    <3> QED
      BY <3>1, <3>2, <3>3
  <2>2. CASE i = k
    BY <1>2, <1>3, <1>4, <2>2
  <2>3. CASE i \in (k + 1)..m
    BY <1>3, <1>6, <2>3
  <2> QED
    BY <2>1, <2>2, <2>3
<1> QED
  BY <1>5, <1>6 DEF WholeTo

\* A split of one byte more comes from a split, whose character goes on or ends.
LEMMA SplitBefore ==
  ASSUME NEW b \in Seq(Nat), NEW i \in Nat, i < Len(b), NEW n \in 0..(i + 1), Splits(b, n, i + 1)
  PROVE  \E u \in 0..i : Splits(b, u, i) /\ (n = u \/ (n = i + 1 /\ OneFrom(b, u, i + 1)))
<1>0. i + 1 \in Nat /\ i + 1 # 0 /\ i + 1 <= Len(b)
  OBVIOUS
<1>1. CASE n # i + 1
  <2>1. n \in 0..i
    BY <1>1
  <2>2. BegunFrom(b, n, i)
    <3> SUFFICES ASSUME n < i
                 PROVE  /\ b[n + 1] < Cont /\ i - n <= b[n + 1]
                        /\ \A j \in (n + 2)..i : b[j] = Cont
      BY DEF BegunFrom
    <3>1. n < i + 1 /\ n + 1 \in 1..Len(b)
      BY <2>1
    <3>2. /\ b[n + 1] < Cont /\ (i + 1) - n <= b[n + 1]
          /\ \A j \in (n + 2)..(i + 1) : b[j] = Cont
      BY <3>1 DEF Splits, BegunFrom
    <3>3. b[n + 1] \in Nat
      BY <3>1
    <3> QED
      BY <2>1, <3>2, <3>3
  <2> QED
    BY <2>1, <2>2 DEF Splits
<1>2. CASE n = i + 1
  <2>1. PICK u \in Nat : u < i + 1 /\ WholeTo(b, u) /\ OneFrom(b, u, i + 1)
    BY <1>0, <1>2, WholeEnds DEF Splits
  <2>2. u \in 0..i /\ u + 1 \in 1..Len(b)
    BY <2>1
  <2>3. BegunFrom(b, u, i)
    <3>1. b[u + 1] \in Nat
      BY <2>2
    <3> QED
      BY <2>1, <2>2, <3>1 DEF OneFrom, BegunFrom
  <2> QED
    BY <1>2, <2>1, <2>2, <2>3 DEF Splits
<1> QED
  BY <1>1, <1>2

\* A character that goes on has not ended.
LEMMA OneNotBegun ==
  ASSUME NEW b \in Seq(Nat), NEW n \in Nat, NEW m \in Nat, n < m, m <= Len(b),
         OneFrom(b, n, m)
  PROVE  ~BegunFrom(b, n, m)
<1>1. n + 1 \in 1..Len(b)
  OBVIOUS
<1>2. b[n + 1] \in Nat
  BY <1>1
<1> QED
  BY <1>2 DEF OneFrom, BegunFrom

\* There is one split at most.
LEMMA SplitIsOne ==
  ASSUME NEW b \in Seq(Nat)
  PROVE  \A i \in Nat : i <= Len(b) =>
           \A n, k \in 0..i : Splits(b, n, i) /\ Splits(b, k, i) => n = k
<1> DEFINE One(i) == \A n, k \in 0..i : Splits(b, n, i) /\ Splits(b, k, i) => n = k
           P == {i \in Nat : i <= Len(b) => One(i)}
<1>1. 0 \in P
  OBVIOUS
<1>2. ASSUME NEW i \in Nat, i \in P
      PROVE  i + 1 \in P
  <2> SUFFICES ASSUME i + 1 <= Len(b), NEW n \in 0..(i + 1), NEW k \in 0..(i + 1),
                      Splits(b, n, i + 1), Splits(b, k, i + 1)
               PROVE  n = k
    BY DEF P
  <2>1. i < Len(b) /\ i + 1 \in Nat
    OBVIOUS
  <2>2. One(i)
    BY <1>2, <2>1
  <2> HIDE DEF P
  <2>3. PICK u \in 0..i : Splits(b, u, i) /\ (n = u \/ (n = i + 1 /\ OneFrom(b, u, i + 1)))
    BY <2>1, SplitBefore
  <2>4. PICK v \in 0..i : Splits(b, v, i) /\ (k = v \/ (k = i + 1 /\ OneFrom(b, v, i + 1)))
    BY <2>1, SplitBefore
  <2>5. u = v
    BY <2>2, <2>3, <2>4
  <2>6. u \in Nat /\ u < i + 1
    OBVIOUS
  <2>7. OneFrom(b, u, i + 1) => ~BegunFrom(b, u, i + 1)
    BY <2>1, <2>6, OneNotBegun
  <2> QED
    BY <2>3, <2>4, <2>5, <2>7 DEF Splits
<1> HIDE DEF P, One
<1>3. Nat \subseteq P
  BY <1>1, <1>2, NatSetInduction
<1> QED
  BY <1>3 DEF P, One

\* Where all of it splits every front of it does.
LEMMA SplitFronts ==
  ASSUME NEW b \in Seq(Nat), NEW n \in 0..Len(b), Splits(b, n, Len(b))
  PROVE  \A i \in Nat : i <= Len(b) => \E u \in 0..i : Splits(b, u, i)
<1> DEFINE Some(i) == \E u \in 0..i : Splits(b, u, i)
           P == {d \in Nat : d <= Len(b) => Some(Len(b) - d)}
<1>1. 0 \in P
  <2>1. Len(b) - 0 = Len(b)
    OBVIOUS
  <2> QED
    BY <2>1
<1>2. ASSUME NEW d \in Nat, d \in P
      PROVE  d + 1 \in P
  <2> SUFFICES ASSUME d + 1 <= Len(b) PROVE Some(Len(b) - (d + 1))
    BY DEF P
  <2> DEFINE i == Len(b) - (d + 1)
  <2>1. i \in Nat /\ i < Len(b) /\ Len(b) - d = i + 1
    OBVIOUS
  <2>2. Some(i + 1)
    BY <1>2, <2>1
  <2> HIDE DEF i, P
  <2>3. Some(i)
    BY <2>1, <2>2, SplitBefore
  <2> QED
    BY <2>3 DEF i
<1> HIDE DEF P, Some
<1>3. Nat \subseteq P
  BY <1>1, <1>2, NatSetInduction
<1>4. ASSUME NEW i \in Nat, i <= Len(b) PROVE Some(i)
  <2>1. Len(b) - i \in Nat /\ Len(b) - i <= Len(b) /\ Len(b) - (Len(b) - i) = i
    BY <1>4
  <2> DEFINE d == Len(b) - i
  <2>2. d \in P
    BY <1>3, <2>1
  <2> QED
    BY <2>1, <2>2 DEF P
<1> QED
  BY <1>4 DEF Some

\* from_utf8's states, after each byte.
Start == [bad |-> FALSE, need |-> 0, seen |-> 0, upto |-> 0]
States(b, g) == g = [i \in 0..Len(b) |-> IF i = 0 THEN Start ELSE NextByte(g[i - 1], b[i])]

\* There is one run for every sequence of bytes.
LEMMA StatesExist ==
  ASSUME NEW b, Len(b) \in Nat
  PROVE  \E g : States(b, g)
<1> DEFINE Part(n, g) ==
             g = [i \in 0..n |-> IF i = 0 THEN Start ELSE NextByte(g[i - 1], b[i])]
           P == {n \in Nat : \E g : Part(n, g)}
<1> HIDE DEF Start
<1>1. 0 \in P
  <2>1. Part(0, [i \in 0..0 |-> Start])
    OBVIOUS
  <2> QED
    BY <2>1
<1>2. ASSUME NEW n \in Nat, n \in P
      PROVE  n + 1 \in P
  <2>1. PICK g : Part(n, g)
    BY <1>2
  <2> DEFINE h == [i \in 0..(n + 1) |->
                     IF i \in 0..n THEN g[i]
                     ELSE IF i = 0 THEN Start ELSE NextByte(g[i - 1], b[i])]
  <2>2. h = [i \in 0..(n + 1) |-> IF i = 0 THEN Start ELSE NextByte(h[i - 1], b[i])]
    <3> SUFFICES ASSUME NEW i \in 0..(n + 1)
                 PROVE  h[i] = IF i = 0 THEN Start ELSE NextByte(h[i - 1], b[i])
      OBVIOUS
    <3>1. i # 0 => i - 1 \in 0..n /\ h[i - 1] = g[i - 1]
      OBVIOUS
    <3>2. CASE i \in 0..n
      <4>1. g[i] = IF i = 0 THEN Start ELSE NextByte(g[i - 1], b[i])
        BY <2>1, <3>2
      <4> QED
        BY <3>1, <3>2, <4>1
    <3>3. CASE i \notin 0..n
      BY <3>1, <3>3
    <3> QED
      BY <3>2, <3>3
  <2> HIDE DEF h
  <2>3. Part(n + 1, h)
    BY <2>2
  <2>4. n + 1 \in Nat
    BY <1>2
  <2> HIDE DEF Part
  <2> QED
    BY <2>3, <2>4
<1> HIDE DEF P
<1>3. Len(b) \in P
  BY <1>1, <1>2, NatSetInduction
<1> QED
  BY <1>3 DEF P, States

\* FromUtf8 is its last state.
LEMMA FromUtf8Is ==
  ASSUME NEW b, Len(b) \in Nat
  PROVE  \E g : States(b, g) /\ FromUtf8(b) = g[Len(b)]
<1> DEFINE g == CHOOSE f : States(b, f)
<1>1. States(b, g)
  BY StatesExist
<1>2. FromUtf8(b) = g[Len(b)]
  BY DEF FromUtf8, States, Start
<1> QED
  BY <1>1, <1>2

\* What a state says of the bytes read: there is no split, or where it is and what is needed.
Tells(s, b, i) ==
  /\ s.bad \in BOOLEAN
  /\ s.bad => \A n \in 0..i : ~Splits(b, n, i)
  /\ ~s.bad => /\ s.seen = i /\ s.upto \in 0..i /\ s.need \in Nat
               /\ Splits(b, s.upto, i)
               /\ s.need = IF s.upto = i THEN 0 ELSE b[s.upto + 1] - (i - s.upto - 1)
               /\ s.need = 0 <=> s.upto = i

LEMMA TellsGood ==
  ASSUME NEW s, NEW b, NEW i, s.bad = FALSE, s.seen = i, s.upto \in 0..i, s.need \in Nat,
         Splits(b, s.upto, i),
         s.upto = i => s.need = 0,
         s.upto # i => s.need # 0 /\ s.need = b[s.upto + 1] - (i - s.upto - 1)
  PROVE  Tells(s, b, i)
BY DEF Tells

\* A character of 1 + a bytes of which x - y are read.
LEMMA Needed ==
  ASSUME NEW a \in Nat, NEW x \in Nat, NEW y \in 0..x
  PROVE  /\ a - (x - y) = 0 => y + 1 + a = x + 1
         /\ a - (x - y) \in Nat /\ a - (x - y) # 0 => (x + 1) - y <= a
         /\ y \in 0..(x + 1) /\ y # x + 1 /\ (x + 1) - y - 1 = x - y
OBVIOUS

LEMMA TellsBad ==
  ASSUME NEW s, NEW b, NEW i, s.bad = TRUE, \A n \in 0..i : ~Splits(b, n, i)
  PROVE  Tells(s, b, i)
BY DEF Tells

\* A byte more: the state tells as much of the longer sequence.
LEMMA NextByteTells ==
  ASSUME NEW b \in Seq(Nat), NEW i \in Nat, i < Len(b), NEW s, Tells(s, b, i),
         s = [bad |-> s.bad, need |-> s.need, seen |-> s.seen, upto |-> s.upto]
  PROVE  /\ Tells(NextByte(s, b[i + 1]), b, i + 1)
         /\ NextByte(s, b[i + 1]) =
              [bad |-> NextByte(s, b[i + 1]).bad, need |-> NextByte(s, b[i + 1]).need,
               seen |-> NextByte(s, b[i + 1]).seen, upto |-> NextByte(s, b[i + 1]).upto]
<1> DEFINE c == b[i + 1]
           t == NextByte(s, c)
           u == s.upto
           ok == ~(s.bad \/ c > Cont \/ (c = Cont) # (s.need > 0))
           need == IF c = Cont THEN s.need - 1 ELSE c
<1>1. i + 1 \in 1..Len(b) /\ i + 1 \in Nat /\ i + 1 <= Len(b) /\ Len(b) \in Nat
  OBVIOUS
<1>2. c \in Nat
  BY <1>1
<1>3. ~ok => t = [bad |-> TRUE, need |-> s.need, seen |-> s.seen, upto |-> s.upto]
  BY DEF NextByte
<1>4. ok => t = [bad |-> FALSE, need |-> need, seen |-> s.seen + 1,
                 upto |-> IF need = 0 THEN s.seen + 1 ELSE u]
  BY DEF NextByte
<1>5. t = [bad |-> t.bad, need |-> t.need, seen |-> t.seen, upto |-> t.upto]
  BY <1>3, <1>4
<1>6. s.bad \in BOOLEAN
  BY DEF Tells
<1>7. ASSUME s.bad
      PROVE  \A n \in 0..(i + 1) : ~Splits(b, n, i + 1)
  <2>1. \A n \in 0..i : ~Splits(b, n, i)
    BY <1>7 DEF Tells
  <2> QED
    BY <2>1, SplitBefore
<1>8. ASSUME ~s.bad
      PROVE  /\ s.seen = i /\ u \in 0..i /\ s.need \in Nat
             /\ Splits(b, u, i)
             /\ s.need = IF u = i THEN 0 ELSE b[u + 1] - (i - u - 1)
             /\ s.need = 0 <=> u = i
  BY <1>8 DEF Tells
<1> HIDE DEF c, t, u, ok, need
<1>9. ASSUME ~s.bad, NEW n \in 0..(i + 1), Splits(b, n, i + 1)
      PROVE  BegunFrom(b, u, i + 1) \/ OneFrom(b, u, i + 1)
  <2>1. PICK v \in 0..i : Splits(b, v, i) /\ (n = v \/ (n = i + 1 /\ OneFrom(b, v, i + 1)))
    BY <1>9, SplitBefore
  <2>2. v = u
    <3>1. i <= Len(b) /\ Splits(b, u, i) /\ u \in 0..i
      BY <1>8, <1>9
    <3> QED
      BY <2>1, <3>1, SplitIsOne
  <2> QED
    BY <1>9, <2>1, <2>2 DEF Splits
<1>10. ASSUME ~ok
       PROVE  \A n \in 0..(i + 1) : ~Splits(b, n, i + 1)
  <2>1. CASE s.bad
    BY <1>7, <2>1
  <2>2. CASE ~s.bad
    <3> SUFFICES ASSUME BegunFrom(b, u, i + 1) \/ OneFrom(b, u, i + 1)
                 PROVE  FALSE
      BY <1>9, <2>2
    <3>1. u \in 0..i /\ s.need \in Nat /\ (s.need = 0 <=> u = i)
      BY <1>8, <2>2
    <3>2. c > Cont \/ (c = Cont) # (s.need > 0)
      BY <1>10, <2>2 DEF ok
    <3>3. CASE u = i
      <4>1. b[i + 1] < Cont
        BY <3>3 DEF BegunFrom, OneFrom
      <4>2. c < Cont /\ s.need = 0
        BY <3>1, <3>3, <4>1 DEF c
      <4> QED
        BY <1>2, <3>2, <4>2, ContIs
    <3>4. CASE u # i
      <4>1. i + 1 \in (u + 2)..(i + 1) /\ u < i + 1
        BY <3>1, <3>4
      <4>2. c = Cont
        BY <4>1 DEF BegunFrom, OneFrom, c
      <4>3. s.need > 0
        BY <3>1, <3>4
      <4> QED
        BY <1>2, <3>2, <4>2, <4>3, ContIs
    <3> QED
      BY <3>3, <3>4
  <2> QED
    BY <1>6, <2>1, <2>2
<1>11. ASSUME ok
       PROVE  Tells(t, b, i + 1)
  <2>1. ~s.bad /\ ~(c > Cont) /\ (c = Cont <=> s.need > 0)
    BY <1>11 DEF ok
  <2>2. /\ s.seen = i /\ u \in 0..i /\ s.need \in Nat
        /\ Splits(b, u, i)
        /\ s.need = IF u = i THEN 0 ELSE b[u + 1] - (i - u - 1)
        /\ s.need = 0 <=> u = i
    BY <1>8, <2>1
  <2>3. u + 1 \in 1..Len(b)
    BY <1>1, <2>2
  <2>4. b[u + 1] \in Nat
    BY <2>3
  <2>5. need \in Nat /\ need = b[u + 1] - (i - u) /\ b[u + 1] < Cont
        /\ \A j \in (u + 2)..(i + 1) : b[j] = Cont
    <3>1. CASE c = Cont
      <4>1. u # i /\ need = s.need - 1 /\ s.need > 0
        BY <2>1, <2>2, <3>1 DEF need
      <4>2. need \in Nat /\ need = b[u + 1] - (i - u)
        BY <2>2, <2>4, <4>1
      <4>3. u < i
        BY <2>2, <4>1
      <4>4. b[u + 1] < Cont /\ \A j \in (u + 2)..i : b[j] = Cont
        BY <2>2, <4>3 DEF Splits, BegunFrom
      <4>5. \A j \in (u + 2)..(i + 1) : b[j] = Cont
        BY <2>2, <3>1, <4>4 DEF c
      <4> QED
        BY <4>2, <4>4, <4>5
    <3>2. CASE c # Cont
      <4>1. u = i /\ need = c
        BY <2>1, <2>2, <3>2 DEF need
      <4>2. c < Cont
        BY <1>2, <2>1, <3>2, ContIs
      <4> QED
        BY <1>2, <2>2, <4>1, <4>2 DEF c
    <3> QED
      BY <3>1, <3>2
  <2>6. t.bad = FALSE /\ t.need = need /\ t.seen = i + 1
        /\ t.upto = IF need = 0 THEN i + 1 ELSE u
    BY <1>4, <1>11, <2>2
  <2>7. CASE need = 0
    <3>1. OneFrom(b, u, i + 1)
      <4>1. b[u + 1] - (i - u) = 0 /\ u \in 0..i
        BY <2>2, <2>5, <2>7
      <4> DEFINE a == b[u + 1]
      <4>3. a \in Nat /\ a - (i - u) = 0
        BY <2>4, <4>1
      <4> HIDE DEF a
      <4>4. u + 1 + a = i + 1
        BY <4>1, <4>3, Needed
      <4>2. u + 1 + b[u + 1] = i + 1
        BY <4>4 DEF a
      <4> QED
        BY <2>5, <4>2 DEF OneFrom
    <3>2. WholeTo(b, i + 1)
      <4>1. u \in Nat /\ u < i + 1 /\ WholeTo(b, u)
        BY <2>2 DEF Splits
      <4> QED
        BY <1>1, <3>1, <4>1, WholeGrows
    <3>3. Splits(b, i + 1, i + 1)
      BY <1>1, <3>2 DEF Splits, BegunFrom
    <3>4. i + 1 \in 0..(i + 1)
      OBVIOUS
    <3>5. t.upto = i + 1 /\ t.need = 0
      BY <2>6, <2>7
    <3> QED
      <4>1. t.bad = FALSE /\ t.seen = i + 1
        BY <2>6
      <4>2. t.upto \in 0..(i + 1) /\ t.need \in Nat /\ Splits(b, t.upto, i + 1)
        BY <3>3, <3>4, <3>5
      <4> HIDE DEF Splits
      <4> QED
        BY <3>5, <4>1, <4>2, TellsGood
  <2>8. CASE need # 0
    <3>1. BegunFrom(b, u, i + 1)
      <4>2. (i + 1) - u <= b[u + 1]
        BY <2>2, <2>4, <2>5, <2>8, Needed
      <4> QED
        BY <2>5, <4>2 DEF BegunFrom
    <3>2. Splits(b, u, i + 1)
      BY <2>2, <3>1 DEF Splits
    <3>3. u \in 0..(i + 1) /\ u # i + 1 /\ (i + 1) - u - 1 = i - u
      BY <2>2, <2>4, Needed
    <3>4. t.upto = u /\ t.need = need
      BY <2>6, <2>8
    <3>5. need = b[u + 1] - ((i + 1) - u - 1)
      BY <2>5, <3>3
    <3> QED
      BY <2>5, <2>6, <2>8, <3>2, <3>3, <3>4, <3>5, TellsGood
  <2> QED
    BY <2>7, <2>8
<1>12. ASSUME ~ok
       PROVE  Tells(t, b, i + 1)
  <2>1. t.bad = TRUE
    BY <1>3, <1>12
  <2> QED
    BY <1>10, <1>12, <2>1, TellsBad
<1>13. Tells(t, b, i + 1)
  BY <1>11, <1>12
<1> QED
  BY <1>5, <1>13 DEF t, c

\* detok.rs:39-45 and from_utf8: valid_up_to is where the bytes split, and there is an error
\* inside exactly when they do not.
LEMMA FromUtf8Splits ==
  ASSUME NEW b \in Seq(Nat)
  PROVE  /\ FromUtf8(b).bad \in BOOLEAN
         /\ FromUtf8(b).bad => \A n \in 0..Len(b) : ~Splits(b, n, Len(b))
         /\ ~FromUtf8(b).bad => /\ FromUtf8(b).upto \in 0..Len(b)
                                /\ \A n \in 0..Len(b) :
                                     Splits(b, n, Len(b)) <=> n = FromUtf8(b).upto
<1>1. Len(b) \in Nat
  OBVIOUS
<1>2. PICK g : States(b, g) /\ FromUtf8(b) = g[Len(b)]
  BY <1>1, FromUtf8Is
<1> DEFINE Right(i) ==
             /\ Tells(g[i], b, i)
             /\ g[i] = [bad |-> g[i].bad, need |-> g[i].need, seen |-> g[i].seen,
                        upto |-> g[i].upto]
           P == {i \in Nat : i <= Len(b) => Right(i)}
<1>3. 0 \in P
  <2>1. g[0] = Start
    BY <1>1, <1>2 DEF States
  <2>2. Splits(b, 0, 0)
    BY DEF Splits, WholeTo, BegunFrom
  <2>3. /\ g[0].bad = FALSE /\ g[0].need = 0 /\ g[0].seen = 0 /\ g[0].upto = 0
        /\ g[0] = [bad |-> g[0].bad, need |-> g[0].need, seen |-> g[0].seen, upto |-> g[0].upto]
    BY <2>1 DEF Start
  <2>4. Tells(g[0], b, 0)
    <3>1. 0 \in 0..0 /\ 0 \in Nat
      OBVIOUS
    <3> QED
      BY <2>2, <2>3, <3>1, TellsGood
  <2> QED
    BY <2>3, <2>4
<1>4. ASSUME NEW i \in Nat, i \in P
      PROVE  i + 1 \in P
  <2> SUFFICES ASSUME i + 1 <= Len(b) PROVE Right(i + 1)
    OBVIOUS
  <2>1. i < Len(b) /\ i + 1 \in 0..Len(b) /\ i + 1 # 0 /\ (i + 1) - 1 = i
    BY <1>1
  <2>2. Right(i)
    BY <1>4, <2>1
  <2> DEFINE k == i + 1
  <2>3. k \in 0..Len(b) /\ k # 0 /\ k - 1 = i
    BY <2>1
  <2> HIDE DEF k, P
  <2>4. g[k] = NextByte(g[i], b[k])
    BY <1>2, <2>3 DEF States
  <2> DEFINE s == g[i]
  <2>5. Tells(s, b, i) /\ s = [bad |-> s.bad, need |-> s.need, seen |-> s.seen, upto |-> s.upto]
    BY <2>2
  <2> HIDE DEF s
  <2> DEFINE t == NextByte(s, b[i + 1])
  <2>6. Tells(t, b, i + 1) /\ t = [bad |-> t.bad, need |-> t.need, seen |-> t.seen, upto |-> t.upto]
    BY <2>1, <2>5, NextByteTells
  <2>7. g[i + 1] = t
    BY <2>4 DEF s, k
  <2> HIDE DEF t
  <2> QED
    BY <2>6, <2>7
<1> HIDE DEF P, Right
<1>5. Nat \subseteq P
  BY <1>3, <1>4, NatSetInduction
<1>6. Tells(FromUtf8(b), b, Len(b))
  <2>1. Len(b) \in P
    BY <1>1, <1>5
  <2>2. Right(Len(b))
    BY <1>1, <2>1 DEF P
  <2> QED
    BY <1>2, <2>2 DEF Right
<1> DEFINE r == FromUtf8(b)
<1> HIDE DEF r
<1>7. ASSUME ~r.bad, NEW n \in 0..Len(b)
      PROVE  Splits(b, n, Len(b)) <=> n = r.upto
  <2>1. Splits(b, r.upto, Len(b)) /\ r.upto \in 0..Len(b)
    BY <1>6, <1>7 DEF Tells, r
  <2> QED
    BY <1>1, <2>1, SplitIsOne
<1>8. /\ r.bad \in BOOLEAN
      /\ r.bad => \A n \in 0..Len(b) : ~Splits(b, n, Len(b))
      /\ ~r.bad => r.upto \in 0..Len(b)
  BY <1>6 DEF Tells, r
<1> QED
  BY <1>7, <1>8 DEF r

\* The same of the sequences themselves.
LEMMA WholeFront ==
  ASSUME NEW b \in Seq(Nat), NEW n \in 0..Len(b)
  PROVE  Whole(SubSeq(b, 1, n)) <=> WholeTo(b, n)
<1> DEFINE f == SubSeq(b, 1, n)
<1>1. n \in Nat /\ n <= Len(b)
  OBVIOUS
<1>2. f \in Seq(Nat) /\ Len(f) = n /\ \A i \in 1..n : f[i] = b[i] /\ b[i] \in Nat
  BY <1>1
<1>3. DOMAIN f = 1..n /\ (f # <<>> <=> n # 0)
  BY <1>2
<1> HIDE DEF f
<1>4. (f # <<>> => f[1] # Cont) <=> (n # 0 => b[1] # Cont)
  BY <1>1, <1>2, <1>3
<1>5. ASSUME NEW i \in 1..n
      PROVE  /\ f[i] = b[i] /\ b[i] \in Nat
             /\ i + b[i] <= n =>
                  /\ \A j \in (i + 1)..(i + b[i]) : f[j] = b[j]
                  /\ i + b[i] < n => f[i + b[i] + 1] = b[i + b[i] + 1]
  <2>1. f[i] = b[i] /\ b[i] \in Nat
    BY <1>2
  <2> SUFFICES ASSUME i + b[i] <= n
               PROVE  /\ \A j \in (i + 1)..(i + b[i]) : f[j] = b[j]
                      /\ i + b[i] < n => f[i + b[i] + 1] = b[i + b[i] + 1]
    BY <2>1
  <2>2. \A c \in Nat : i + c <= n =>
          /\ \A j \in (i + 1)..(i + c) : j \in 1..n
          /\ i + c < n => i + c + 1 \in 1..n
    BY <1>1
  <2>3. /\ \A j \in (i + 1)..(i + b[i]) : j \in 1..n
        /\ i + b[i] < n => i + b[i] + 1 \in 1..n
    BY <2>1, <2>2
  <2> QED
    BY <1>2, <2>3
<1>6. Whole(f) <=>
        /\ f # <<>> => f[1] # Cont
        /\ \A i \in 1..n : f[i] # Cont =>
             /\ f[i] < Cont /\ i + f[i] <= n
             /\ \A j \in (i + 1)..(i + f[i]) : f[j] = Cont
             /\ i + f[i] < n => f[i + f[i] + 1] # Cont
  BY <1>2, <1>3 DEF Whole
<1>7. (\A i \in 1..n : f[i] # Cont =>
             /\ f[i] < Cont /\ i + f[i] <= n
             /\ \A j \in (i + 1)..(i + f[i]) : f[j] = Cont
             /\ i + f[i] < n => f[i + f[i] + 1] # Cont)
      <=> (\A i \in 1..n : b[i] # Cont =>
             /\ b[i] < Cont /\ i + b[i] <= n
             /\ \A j \in (i + 1)..(i + b[i]) : b[j] = Cont
             /\ i + b[i] < n => b[i + b[i] + 1] # Cont)
  <2> SUFFICES ASSUME NEW i \in 1..n
               PROVE  (f[i] # Cont =>
                         /\ f[i] < Cont /\ i + f[i] <= n
                         /\ \A j \in (i + 1)..(i + f[i]) : f[j] = Cont
                         /\ i + f[i] < n => f[i + f[i] + 1] # Cont)
                      <=> (b[i] # Cont =>
                         /\ b[i] < Cont /\ i + b[i] <= n
                         /\ \A j \in (i + 1)..(i + b[i]) : b[j] = Cont
                         /\ i + b[i] < n => b[i + b[i] + 1] # Cont)
    OBVIOUS
  <2> QED
    BY <1>5
<1> QED
  BY <1>4, <1>6, <1>7 DEF WholeTo, f

LEMMA BegunRest ==
  ASSUME NEW b \in Seq(Nat), NEW n \in 0..Len(b)
  PROVE  Begun(SubSeq(b, n + 1, Len(b))) <=> BegunFrom(b, n, Len(b))
<1> DEFINE f == SubSeq(b, n + 1, Len(b))
           m == Len(b)
<1>1. n \in Nat /\ m \in Nat /\ n <= m
  OBVIOUS
<1>2. f \in Seq(Nat) /\ Len(f) = m - n /\ \A i \in 1..(m - n) : f[i] = b[n + i]
  <2>1. f \in Seq(Nat) /\ Len(f) = m - n
    BY <1>1
  <2>2. ASSUME NEW i \in 1..(m - n) PROVE f[i] = b[n + i]
    BY <1>1
  <2> QED
    BY <2>1, <2>2
<1> HIDE DEF f, m
<1>3. f # <<>> <=> n < m
  BY <1>1, <1>2
<1>4. CASE n = m
  BY <1>1, <1>3, <1>4 DEF Begun, BegunFrom, f, m
<1>5. CASE n < m
  <2>1. 1 \in 1..(m - n)
    BY <1>1, <1>5
  <2>2. f[1] = b[n + 1]
    BY <1>2, <2>1
  <2>3. (\A i \in 2..(m - n) : f[i] = Cont) <=> (\A j \in (n + 2)..m : b[j] = Cont)
    <3>1. ASSUME \A i \in 2..(m - n) : f[i] = Cont, NEW j \in (n + 2)..m
          PROVE  b[j] = Cont
      <4>1. j - n \in 2..(m - n) /\ j - n \in 1..(m - n) /\ n + (j - n) = j
        BY <1>1
      <4>2. f[j - n] = b[n + (j - n)]
        BY <1>2, <4>1
      <4> QED
        BY <3>1, <4>1, <4>2
    <3>2. ASSUME \A j \in (n + 2)..m : b[j] = Cont, NEW i \in 2..(m - n)
          PROVE  f[i] = Cont
      <4>1. n + i \in (n + 2)..m /\ i \in 1..(m - n)
        BY <1>1
      <4> QED
        BY <1>2, <3>2, <4>1
    <3> QED
      BY <3>1, <3>2
  <2>4. Begun(f) <=> /\ f[1] < Cont /\ m - n <= f[1]
                     /\ \A i \in 2..(m - n) : f[i] = Cont
    BY <1>2, <1>3, <1>5 DEF Begun
  <2> QED
    BY <1>5, <2>2, <2>3, <2>4 DEF BegunFrom, f, m
<1> QED
  BY <1>1, <1>4, <1>5 DEF m

-----------------------------------------------------------------------------
(* Values and their texts.                                                   *)

SplitPoints(b) == {n \in 0..Len(b) : Splits(b, n, Len(b))}

\* The split points, by the definition of whole characters and by from_utf8.
LEMMA PointsAre ==
  ASSUME NEW b \in Seq(Nat)
  PROVE  /\ {n \in 0..Len(b) : Whole(SubSeq(b, 1, n)) /\ Begun(SubSeq(b, n + 1, Len(b)))}
              = SplitPoints(b)
         /\ (IF FromUtf8(b).bad THEN {} ELSE {FromUtf8(b).upto}) = SplitPoints(b)
<1>1. \A n \in 0..Len(b) :
        Whole(SubSeq(b, 1, n)) /\ Begun(SubSeq(b, n + 1, Len(b))) <=> Splits(b, n, Len(b))
  BY WholeFront, BegunRest DEF Splits
<1> DEFINE r == FromUtf8(b)
<1>2. /\ r.bad \in BOOLEAN
      /\ r.bad => \A n \in 0..Len(b) : ~Splits(b, n, Len(b))
      /\ ~r.bad => /\ r.upto \in 0..Len(b)
                   /\ \A n \in 0..Len(b) : Splits(b, n, Len(b)) <=> n = r.upto
  BY FromUtf8Splits
<1> HIDE DEF r
<1>3. (IF r.bad THEN {} ELSE {r.upto}) = SplitPoints(b)
  <2>1. CASE r.bad
    BY <1>2, <2>1, Zenon DEF SplitPoints
  <2>2. CASE ~r.bad
    BY <1>2, <2>2, Zenon DEF SplitPoints
  <2> QED
    BY <2>1, <2>2
<1>4. {n \in 0..Len(b) : Whole(SubSeq(b, 1, n)) /\ Begun(SubSeq(b, n + 1, Len(b)))}
        = SplitPoints(b)
  BY <1>1, Zenon DEF SplitPoints
<1> QED
  BY <1>3, <1>4 DEF r

\* The bytes of an id of a parsed map.
LEMMA GetTyped ==
  ASSUME FInv, map # Absent, NEW id \in Ids, Get(map, id) # Absent
  PROVE  Get(map, id) \in Seq(Cells) /\ Get(map, id) # <<>>
<1>1. file \in File /\ Accepted(file) /\ map = FromBytes(file)
  BY DEF FInv, TypeOK, MapFromFile
<1>2. /\ map.offsets \in Seq(Cells) /\ map.blob \in Seq(Cells)
      /\ Len(map.offsets) = file.size + 1
      /\ \A k \in 1..file.size :
           map.offsets[k] <= map.offsets[k + 1] /\ map.offsets[k + 1] <= Len(map.blob)
  BY <1>1, AcceptedInRange
<1>3. file.size \in Nat /\ id \in Nat
  BY <1>1, Numbers DEF File, Cells, Ids
<1>4. /\ ~(id >= Len(map.offsets) - 1) /\ map.offsets[id + 1] # map.offsets[id + 2]
      /\ Get(map, id) = SubSeq(map.blob, map.offsets[id + 1] + 1, map.offsets[id + 2])
  BY DEF Get
<1>5. id + 1 \in 1..file.size /\ id + 1 \in 1..(file.size + 1) /\ id + 2 \in 1..(file.size + 1)
      /\ (id + 1) + 1 = id + 2
  BY <1>2, <1>3, <1>4
<1> DEFINE a == map.offsets[id + 1]
           e == map.offsets[id + 2]
           v == map.blob
<1>6. \A k \in 1..(file.size + 1) : map.offsets[k] \in Nat
  BY <1>2, Numbers DEF Cells
<1>7. a \in Nat /\ e \in Nat /\ a <= e /\ e <= Len(v) /\ a # e
  BY <1>2, <1>4, <1>5, <1>6
<1>8. v \in Seq(Cells)
  BY <1>2
<1> HIDE DEF a, e, v
<1>9. SubSeq(v, a + 1, e) \in Seq(Cells) /\ SubSeq(v, a + 1, e) # <<>>
  <2>1. SubSeq(v, a + 1, e) \in Seq(Cells) /\ Len(SubSeq(v, a + 1, e)) = e - a
    BY <1>7, <1>8
  <2> QED
    BY <1>7, <2>1
<1> QED
  BY <1>4, <1>9 DEF a, e, v

Pieces(ids) == [i \in DOMAIN ids |-> Get(map, ids[i])]

\* The bytes of a value whose ids all have entries, none of which is empty.
LEMMA BytesTyped ==
  ASSUME FInv, map # Absent, NEW ids \in Seq(Ids), Mapped(ids)
  PROVE  /\ Pieces(ids) \in Seq(Seq(Cells)) /\ Len(Pieces(ids)) = Len(ids)
         /\ \A i \in 1..Len(ids) : Pieces(ids)[i] = Get(map, ids[i]) /\ Pieces(ids)[i] # <<>>
         /\ BytesOf(ids) = FlattenSeq(Pieces(ids))
         /\ BytesOf(ids) \in Seq(Cells) /\ BytesOf(ids) \in Seq(Nat)
<1>1. DOMAIN ids = 1..Len(ids) /\ Len(ids) \in Nat /\ \A i \in 1..Len(ids) : ids[i] \in Ids
  OBVIOUS
<1>2. \A i \in 1..Len(ids) : Get(map, ids[i]) \in Seq(Cells) /\ Get(map, ids[i]) # <<>>
  BY <1>1, GetTyped DEF Mapped
<1> DEFINE g(i) == Get(map, ids[i])
<1>3. Pieces(ids) = [i \in 1..Len(ids) |-> g(i)]
  BY <1>1 DEF Pieces
<1>4. \A i \in 1..Len(ids) : g(i) \in Seq(Cells) /\ g(i) # <<>>
  BY <1>2
<1> HIDE DEF g
<1>5. Pieces(ids) \in Seq(Seq(Cells)) /\ Len(Pieces(ids)) = Len(ids)
      /\ \A i \in 1..Len(ids) : Pieces(ids)[i] = g(i) /\ Pieces(ids)[i] # <<>>
  BY <1>1, <1>3, <1>4
<1>6. BytesOf(ids) = FlattenSeq(Pieces(ids))
  BY DEF BytesOf, Pieces
<1>7. BytesOf(ids) \in Seq(Cells)
  BY <1>5, <1>6, FlattenTyped
<1>8. BytesOf(ids) \in Seq(Nat)
  <2>1. Cells \subseteq Nat
    BY Numbers DEF Cells
  <2> QED
    BY <1>7, <2>1, SeqWider
<1> QED
  BY <1>5, <1>6, <1>7, <1>8 DEF g

\* to_text, by the split points of the bytes.
LEMMA TextIs ==
  ASSUME FInv, map # Absent, NEW ids \in Seq(Ids), Mapped(ids)
  PROVE  ToText(ids) = {SubSeq(BytesOf(ids), 1, n) : n \in SplitPoints(BytesOf(ids))}
<1> DEFINE b == BytesOf(ids)
           r == FromUtf8(b)
<1>1. b \in Seq(Nat)
  BY BytesTyped
<1>2. (IF r.bad THEN {} ELSE {r.upto}) = SplitPoints(b)
  BY <1>1, PointsAre
<1>3. ToText(ids) = IF r.bad THEN {} ELSE {SubSeq(b, 1, r.upto)}
  BY DEF ToText
<1> HIDE DEF b, r
<1>4. ToText(ids) = {SubSeq(b, 1, n) : n \in SplitPoints(b)}
  <2>1. CASE r.bad
    <3>1. SplitPoints(b) = {} /\ ToText(ids) = {}
      BY <1>2, <1>3, <2>1
    <3> QED
      BY <3>1
  <2>2. CASE ~r.bad
    <3>1. SplitPoints(b) = {r.upto} /\ ToText(ids) = {SubSeq(b, 1, r.upto)}
      BY <1>2, <1>3, <2>2
    <3> QED
      BY <3>1
  <2> QED
    BY <2>1, <2>2
<1> QED
  BY <1>4 DEF b

\* The two values a document is cut into.
LEMMA ValuesTyped ==
  ASSUME FInv
  PROVE  /\ doc \in Seq(Ids) /\ FirstValue \in Seq(Ids) /\ SecondValue \in Seq(Ids)
         /\ Len(doc) \in Nat /\ cut \in 0..Len(doc)
         /\ Len(FirstValue) = cut /\ Len(SecondValue) = Len(doc) - cut
         /\ \A i \in 1..cut : FirstValue[i] = doc[i]
         /\ \A i \in 1..(Len(doc) - cut) : SecondValue[i] = doc[cut + i]
<1>1. doc \in Seq(Ids) /\ cut \in 0..Len(doc)
  BY DEF FInv, TypeOK
<1>2. Len(doc) \in Nat
  BY <1>1
<1>3. FirstValue \in Seq(Ids) /\ Len(FirstValue) = cut
      /\ \A i \in 1..cut : FirstValue[i] = doc[i]
  BY <1>1, <1>2 DEF FirstValue
<1>4. SecondValue \in Seq(Ids) /\ Len(SecondValue) = Len(doc) - cut
      /\ \A i \in 1..(Len(doc) - cut) : SecondValue[i] = doc[cut + i]
  BY <1>1, <1>2 DEF SecondValue
<1> QED
  BY <1>1, <1>2, <1>3, <1>4

\* detok.rs:39-45: for every map and value, to_text's reading from left to right finds the one
\* place where whole characters end and a cut one begins, or there is none.
THEOREM WholeCharactersHolds == Spec => []WholeCharacters
<1>1. FInv => WholeCharacters
  <2> SUFFICES ASSUME FInv, map # Absent, NEW ids \in {doc, FirstValue, SecondValue}
               PROVE  ToText(ids) =
                        IF ~Mapped(ids) THEN {}
                        ELSE LET b == BytesOf(ids) IN
                             {SubSeq(b, 1, n) : n \in {n \in 0..Len(b) :
                                Whole(SubSeq(b, 1, n)) /\ Begun(SubSeq(b, n + 1, Len(b)))}}
    BY DEF WholeCharacters
  <2>1. ids \in Seq(Ids)
    BY ValuesTyped
  <2>2. CASE ~Mapped(ids)
    BY <2>2 DEF ToText
  <2>3. CASE Mapped(ids)
    <3>1. BytesOf(ids) \in Seq(Nat)
      BY <2>1, <2>3, BytesTyped
    <3> DEFINE b == BytesOf(ids)
               points == {n \in 0..Len(b) :
                            Whole(SubSeq(b, 1, n)) /\ Begun(SubSeq(b, n + 1, Len(b)))}
    <3>2. points = SplitPoints(b)
      BY <3>1, PointsAre
    <3>3. ToText(ids) = {SubSeq(b, 1, n) : n \in SplitPoints(b)}
      BY <2>1, <2>3, TextIs
    <3> HIDE DEF points
    <3>4. ToText(ids) = {SubSeq(b, 1, n) : n \in points}
      BY <3>2, <3>3
    <3> QED
      BY <2>3, <3>4 DEF points
  <2> QED
    BY <2>2, <2>3
<1> QED
  BY <1>1, FileInvariant, PTL

-----------------------------------------------------------------------------
(* Cutting a document.                                                       *)

\* Whether a front is whole is a matter of the front.
LEMMA WholeAgrees ==
  ASSUME NEW b \in Seq(Nat), NEW x \in Seq(Nat), NEW n \in Nat, n <= Len(b), n <= Len(x),
         \A i \in 1..n : b[i] = x[i]
  PROVE  WholeTo(b, n) <=> WholeTo(x, n)
<1> DEFINE u == SubSeq(b, 1, n)
           v == SubSeq(x, 1, n)
<1>1. u \in Seq(Nat) /\ Len(u) = n /\ \A i \in 1..n : u[i] = b[i]
  OBVIOUS
<1>2. v \in Seq(Nat) /\ Len(v) = n /\ \A i \in 1..n : v[i] = x[i]
  OBVIOUS
<1> HIDE DEF u, v
<1>3. u = v
  BY <1>1, <1>2, SeqSame
<1>4. n \in 0..Len(b) /\ n \in 0..Len(x)
  OBVIOUS
<1> QED
  BY <1>3, <1>4, WholeFront DEF u, v

\* A value whose successor does not begin inside a character ends with one.
LEMMA NoneCut ==
  ASSUME NEW x \in Seq(Nat), NEW y \in Seq(Nat), Len(y) # 0, y[1] # Cont,
         NEW n \in 0..Len(x \o y), Splits(x \o y, n, Len(x \o y))
  PROVE  WholeTo(x, Len(x))
<1> DEFINE b == x \o y
           m == Len(x)
<1>1. /\ b \in Seq(Nat) /\ Len(b) = m + Len(y) /\ m \in Nat /\ Len(y) \in Nat
      /\ \A i \in 1..m : b[i] = x[i]
      /\ \A i \in 1..Len(y) : b[m + i] = y[i]
  BY CatIs
<1>2. n \in 0..Len(b) /\ Splits(b, n, Len(b))
  OBVIOUS
<1> HIDE DEF b, m
<1>3. m + 1 \in Nat /\ m + 1 <= Len(b) /\ m < Len(b) /\ b[m + 1] # Cont
  <2>1. 1 \in 1..Len(y)
    BY <1>1
  <2>2. b[m + 1] = y[1]
    BY <1>1, <2>1
  <2> QED
    BY <1>1, <2>2
<1>4. PICK v \in 0..(m + 1) : Splits(b, v, m + 1)
  BY <1>1, <1>2, <1>3, SplitFronts
<1>5. PICK u \in 0..m : Splits(b, u, m) /\ (v = u \/ (v = m + 1 /\ OneFrom(b, u, m + 1)))
  BY <1>1, <1>3, <1>4, SplitBefore
<1>6. u = m
  <2> SUFFICES ASSUME u # m PROVE FALSE
    OBVIOUS
  <2>1. m + 1 \in (u + 2)..(m + 1) /\ u < m + 1
    BY <1>1
  <2>2. BegunFrom(b, u, m + 1) \/ OneFrom(b, u, m + 1)
    BY <1>4, <1>5 DEF Splits
  <2>3. b[m + 1] = Cont
    BY <2>1, <2>2 DEF BegunFrom, OneFrom
  <2> QED
    BY <1>3, <2>3
<1>7. WholeTo(b, m)
  BY <1>5, <1>6 DEF Splits
<1>8. m <= Len(x) /\ m <= Len(b)
  BY <1>1, <1>3 DEF m
<1>9. WholeTo(x, m)
  BY <1>1, <1>7, <1>8, WholeAgrees
<1> QED
  BY <1>9 DEF m

\* What splits does not begin inside a character.
LEMMA FirstOpens ==
  ASSUME NEW y \in Seq(Nat), Len(y) # 0, NEW n \in 0..Len(y), Splits(y, n, Len(y))
  PROVE  y[1] # Cont
<1>1. 0 < Len(y)
  OBVIOUS
<1>2. n # 0 => y[1] # Cont
  BY DEF Splits, WholeTo
<1>3. n = 0 => y[1] < Cont
  BY <1>1 DEF Splits, BegunFrom
<1> QED
  BY <1>2, <1>3, ContIs

\* Indices of the second of two joined sequences.
LEMMA Shift ==
  ASSUME NEW m \in Nat, NEW n \in Nat, NEW k \in Nat, NEW c \in Nat
  PROVE  /\ (m + k) + c = m + (k + c) /\ (m + k) + c + 1 = m + (k + c + 1)
         /\ (m + k) + c <= m + n <=> k + c <= n
         /\ (m + k) + c < m + n <=> k + c < n
         /\ k + c < n => k + c + 1 \in 1..n
         /\ k + c <= n => k + c < n \/ k + c = n
         /\ k + c <= n => \A j \in (k + 1)..(k + c) :
              j \in 1..n /\ m + j \in (m + k + 1)..(m + k + c)
OBVIOUS

\* A position past m, counted from m.
LEMMA Shifted ==
  ASSUME NEW m \in Nat, NEW n \in Nat, NEW k \in Nat, NEW c \in Nat,
         k + c <= n, NEW j \in Int, m + k + 1 <= j, j <= m + k + c
  PROVE  /\ j - m \in (k + 1)..(k + c) /\ m + (j - m) = j
         /\ j - m \in Nat /\ 1 <= j - m /\ j - m <= n
OBVIOUS

\* Whole characters after whole characters are whole.
LEMMA WholeJoins ==
  ASSUME NEW x \in Seq(Nat), NEW y \in Seq(Nat), NEW n \in 0..Len(y),
         WholeTo(x, Len(x)), WholeTo(y, n)
  PROVE  WholeTo(x \o y, Len(x) + n)
<1> DEFINE b == x \o y
           m == Len(x)
<1>1. /\ Len(b) = m + Len(y) /\ m \in Nat /\ Len(y) \in Nat
      /\ \A i \in 1..m : b[i] = x[i] /\ b[i] \in Nat
      /\ \A i \in 1..Len(y) : b[m + i] = y[i] /\ y[i] \in Nat
  BY CatIs
<1>2. /\ m # 0 => x[1] # Cont
      /\ \A i \in 1..m : x[i] # Cont =>
           /\ x[i] < Cont /\ i + x[i] <= m
           /\ \A j \in (i + 1)..(i + x[i]) : x[j] = Cont
           /\ i + x[i] < m => x[i + x[i] + 1] # Cont
  BY DEF WholeTo
<1>3. /\ n # 0 => y[1] # Cont
      /\ \A i \in 1..n : y[i] # Cont =>
           /\ y[i] < Cont /\ i + y[i] <= n
           /\ \A j \in (i + 1)..(i + y[i]) : y[j] = Cont
           /\ i + y[i] < n => y[i + y[i] + 1] # Cont
  BY DEF WholeTo
<1>4. n \in Nat /\ n <= Len(y)
  BY <1>1
<1> HIDE DEF b, m
<1>5. n # 0 => b[m + 1] # Cont
  BY <1>1, <1>3, <1>4
<1>6. m + n # 0 => b[1] # Cont
  <2>1. CASE m = 0
    BY <1>1, <1>5, <2>1
  <2>2. CASE m # 0
    BY <1>1, <1>2, <2>2
  <2> QED
    BY <2>1, <2>2
<1>7. ASSUME NEW i \in 1..(m + n), b[i] # Cont
      PROVE  /\ b[i] < Cont /\ i + b[i] <= m + n
             /\ \A j \in (i + 1)..(i + b[i]) : b[j] = Cont
             /\ i + b[i] < m + n => b[i + b[i] + 1] # Cont
  <2>1. CASE i \in 1..m
    <3> DEFINE c == b[i]
    <3>1. c = x[i] /\ c \in Nat /\ i \in Nat
      BY <1>1, <2>1
    <3>2. /\ c < Cont /\ i + c <= m
          /\ \A j \in (i + 1)..(i + c) : x[j] = Cont
          /\ i + c < m => x[i + c + 1] # Cont
      BY <1>2, <1>7, <2>1, <3>1
    <3>3. c = b[i]
      OBVIOUS
    <3> HIDE DEF c
    <3>4. i + c <= m + n
      BY <1>1, <1>4, <3>1, <3>2
    <3>5. \A j \in (i + 1)..(i + c) : b[j] = Cont
      <4>1. \A j \in (i + 1)..(i + c) : j \in 1..m
        BY <1>1, <3>1, <3>2
      <4> QED
        BY <1>1, <3>2, <4>1
    <3>6. i + c < m + n => b[i + c + 1] # Cont
      <4>1. CASE i + c < m
        <5>1. i + c + 1 \in 1..m
          BY <1>1, <3>1, <4>1, Shift
        <5> QED
          BY <1>1, <3>2, <4>1, <5>1
      <4>2. CASE i + c = m
        BY <1>1, <1>4, <1>5, <4>2
      <4>3. i + c < m \/ i + c = m
        BY <1>1, <3>1, <3>2, Shift
      <4> QED
        BY <4>1, <4>2, <4>3
    <3> QED
      BY <3>2, <3>3, <3>4, <3>5, <3>6
  <2>2. CASE i \notin 1..m
    <3> DEFINE k == i - m
    <3>1. k \in 1..n /\ k \in 1..Len(y) /\ i = m + k /\ k \in Nat
      BY <1>1, <1>4, <2>2
    <3> DEFINE c == b[i]
    <3>2. c = y[k] /\ c \in Nat /\ c = b[i]
      BY <1>1, <3>1
    <3> HIDE DEF k, c
    <3>3. /\ c < Cont /\ k + c <= n
          /\ \A j \in (k + 1)..(k + c) : y[j] = Cont
          /\ k + c < n => y[k + c + 1] # Cont
      BY <1>3, <1>7, <3>1, <3>2
    <3>a. m \in Nat /\ n \in Nat /\ k \in Nat /\ c \in Nat /\ k + c <= n
      BY <1>1, <1>4, <3>1, <3>2, <3>3
    <3>b. (m + k) + c = m + (k + c) /\ (m + k) + c + 1 = m + (k + c + 1)
      BY <3>a, Shift
    <3>c. (m + k) + c <= m + n
      BY <3>a, Shift
    <3>4. i + c <= m + n /\ i + c = m + (k + c) /\ i + c + 1 = m + (k + c + 1)
      BY <3>1, <3>b, <3>c
    <3>5. ASSUME NEW j \in (i + 1)..(i + c)
          PROVE  b[j] = Cont
      <4>0. j \in Int /\ m + k + 1 <= j /\ j <= m + k + c
        BY <3>1, <3>a
      <4>1. j - m \in (k + 1)..(k + c) /\ j - m \in 1..Len(y) /\ m + (j - m) = j
        BY <1>1, <1>4, <3>a, <4>0, Shifted
      <4>2. b[m + (j - m)] = y[j - m]
        BY <1>1, <4>1
      <4> QED
        BY <3>3, <4>1, <4>2
    <3>6. i + c < m + n => b[i + c + 1] # Cont
      <4> SUFFICES ASSUME i + c < m + n PROVE b[i + c + 1] # Cont
        OBVIOUS
      <4>0. k + c < n /\ k + c + 1 \in 1..n
        BY <1>1, <1>4, <3>1, <3>2, Shift
      <4>1. k + c < n /\ k + c + 1 \in 1..Len(y)
        BY <1>1, <1>4, <4>0
      <4>2. b[m + (k + c + 1)] = y[k + c + 1]
        BY <1>1, <4>1
      <4> QED
        BY <3>3, <3>4, <4>1, <4>2
    <3> QED
      BY <3>2, <3>3, <3>4, <3>5, <3>6
  <2> QED
    BY <2>1, <2>2
<1>8. WholeTo(b, m + n)
  BY <1>6, <1>7 DEF WholeTo
<1> QED
  BY <1>8 DEF b, m

\* What remains of whole characters after whole characters is whole.
LEMMA WholeRest ==
  ASSUME NEW x \in Seq(Nat), NEW y \in Seq(Nat),
         WholeTo(x, Len(x)), WholeTo(x \o y, Len(x \o y))
  PROVE  WholeTo(y, Len(y))
<1> DEFINE b == x \o y
           m == Len(x)
           n == Len(y)
<1>1. /\ Len(b) = m + n /\ m \in Nat /\ n \in Nat
      /\ \A i \in 1..m : b[i] = x[i] /\ x[i] \in Nat
      /\ \A i \in 1..n : b[m + i] = y[i] /\ y[i] \in Nat
  BY CatIs
<1>2. /\ m + n # 0 => b[1] # Cont
      /\ \A i \in 1..(m + n) : b[i] # Cont =>
           /\ b[i] < Cont /\ i + b[i] <= m + n
           /\ \A j \in (i + 1)..(i + b[i]) : b[j] = Cont
           /\ i + b[i] < m + n => b[i + b[i] + 1] # Cont
  BY <1>1 DEF WholeTo
<1> HIDE DEF b
<1>3. ASSUME n # 0
      PROVE  b[m + 1] # Cont
  <2>1. CASE m = 0
    BY <1>1, <1>2, <1>3, <2>1
  <2>2. CASE m # 0
    <3>1. PICK k \in Nat : k < m /\ OneFrom(x, k, m)
      BY <1>1, <2>2, WholeEnds
    <3> DEFINE i == k + 1
               c == x[i]
    <3>2. i \in 1..m /\ i \in 1..(m + n)
      BY <1>1, <3>1
    <3>3. c < Cont /\ i + c = m /\ c = b[i]
      BY <1>1, <3>1, <3>2 DEF OneFrom
    <3>4. c # Cont /\ m < m + n
      BY <1>1, <1>3, <3>2, <3>3, ContIs
    <3> HIDE DEF i, c
    <3>5. i + c < m + n => b[i + c + 1] # Cont
      BY <1>2, <3>2, <3>3, <3>4
    <3> QED
      BY <3>3, <3>4, <3>5
  <2> QED
    BY <2>1, <2>2
<1>4. n # 0 => y[1] # Cont
  BY <1>1, <1>3
<1> HIDE DEF m, n
<1>5. ASSUME NEW k \in 1..n, y[k] # Cont
      PROVE  /\ y[k] < Cont /\ k + y[k] <= n
             /\ \A j \in (k + 1)..(k + y[k]) : y[j] = Cont
             /\ k + y[k] < n => y[k + y[k] + 1] # Cont
  <2> DEFINE c == y[k]
             i == m + k
  <2>1. i \in 1..(m + n) /\ c \in Nat /\ b[i] = c /\ k \in Nat /\ i = m + k /\ c = y[k]
    BY <1>1
  <2> HIDE DEF c, i
  <2>2. /\ c < Cont /\ i + c <= m + n
        /\ \A j \in (i + 1)..(i + c) : b[j] = Cont
        /\ i + c < m + n => b[i + c + 1] # Cont
    BY <1>2, <1>5, <2>1
  <2>3. k + c <= n
    BY <1>1, <2>1, <2>2
  <2>4. ASSUME NEW j \in (k + 1)..(k + c)
        PROVE  y[j] = Cont
    <3>1. m + j \in (i + 1)..(i + c) /\ j \in 1..n
      BY <1>1, <2>1, <2>3, Shift
    <3> QED
      BY <1>1, <2>2, <3>1
  <2>5. k + c < n => y[k + c + 1] # Cont
    <3> SUFFICES ASSUME k + c < n PROVE y[k + c + 1] # Cont
      OBVIOUS
    <3> DEFINE reach == (m + k) + c < m + n
               here == k + c + 1 \in 1..n
               there == (m + k) + c + 1 = m + (k + c + 1)
    <3>2. m \in Nat /\ n \in Nat /\ k \in Nat /\ c \in Nat /\ k + c < n
      BY <1>1, <2>1
    <3>3. reach
      BY <3>2, Shift
    <3>4. here /\ there
      BY <3>2, Shift
    <3>0. (m + k) + c < m + n /\ (m + k) + c + 1 = m + (k + c + 1) /\ k + c + 1 \in 1..n
      BY <3>3, <3>4
    <3>1. i + c < m + n /\ k + c + 1 \in 1..n /\ i + c + 1 = m + (k + c + 1)
      BY <2>1, <3>0
    <3>5. b[m + (k + c + 1)] = y[k + c + 1]
      BY <1>1, <3>1
    <3> QED
      BY <2>2, <3>1, <3>5
  <2> QED
    BY <2>1, <2>2, <2>3, <2>4, <2>5
<1>6. WholeTo(y, n)
  BY <1>4, <1>5 DEF WholeTo
<1> QED
  BY <1>6 DEF n

\* Flattening one after the other.
LEMMA FlattenCat ==
  ASSUME NEW S, NEW s \in Seq(Seq(S)), NEW t \in Seq(Seq(S))
  PROVE  FlattenSeq(s \o t) = FlattenSeq(s) \o FlattenSeq(t)
<1> DEFINE w == s \o t
           m == Len(s)
           Cat(n) == Joined(w, m + n) = FlattenSeq(s) \o Joined(t, n)
           P == {n \in Nat : n <= Len(t) => Cat(n)}
<1>1. /\ w \in Seq(Seq(S)) /\ Len(w) = m + Len(t) /\ m \in Nat /\ Len(t) \in Nat
      /\ \A i \in 1..Len(t) : w[m + i] = t[i]
      /\ \A i \in 1..Len(t) : t[i] \in Seq(S)
  OBVIOUS
<1>2. SubSeq(w, 1, m) = s
  <2> DEFINE f == SubSeq(w, 1, m)
  <2>1. f \in Seq(Seq(S)) /\ Len(f) = Len(s) /\ \A i \in 1..Len(f) : f[i] = s[i]
    OBVIOUS
  <2> HIDE DEF f
  <2>2. f = s
    BY <2>1, SeqSame
  <2> QED
    BY <2>2 DEF f
<1>3. FlattenSeq(s) \in Seq(S) /\ \A n \in Nat : n <= Len(t) => Joined(t, n) \in Seq(S)
  BY FlattenTyped, JoinedTyped
<1>4. \A a, b, c \in Seq(S) : (a \o b) \o c = a \o (b \o c)
  OBVIOUS
<1>5. \A a \in Seq(S) : a \o <<>> = a
  OBVIOUS
<1> HIDE DEF w, m
<1>6. 0 \in P
  <2>1. Joined(w, m + 0) = FlattenSeq(s)
    <3>1. m + 0 = m
      BY <1>1
    <3> QED
      BY <1>2, <3>1 DEF Joined
  <2>2. Joined(t, 0) = <<>>
    BY JoinedNone
  <2> QED
    BY <1>3, <1>5, <2>1, <2>2
<1>7. ASSUME NEW n \in Nat, n \in P
      PROVE  n + 1 \in P
  <2> SUFFICES ASSUME n + 1 <= Len(t) PROVE Cat(n + 1)
    OBVIOUS
  <2>1. n < Len(t) /\ n <= Len(t) /\ n + 1 \in 1..Len(t) /\ n \in Nat
        /\ m + n \in Nat /\ m + n < Len(w) /\ (m + n) + 1 = m + (n + 1)
    BY <1>1
  <2>2. Cat(n)
    BY <1>7, <2>1
  <2>3. Joined(t, n + 1) = Joined(t, n) \o t[n + 1]
    BY <2>1, JoinedStep
  <2>4. Joined(w, (m + n) + 1) = Joined(w, m + n) \o w[(m + n) + 1]
    BY <1>1, <2>1, JoinedStep
  <2>5. w[(m + n) + 1] = t[n + 1] /\ t[n + 1] \in Seq(S)
    BY <1>1, <2>1
  <2>6. (FlattenSeq(s) \o Joined(t, n)) \o t[n + 1] = FlattenSeq(s) \o (Joined(t, n) \o t[n + 1])
    BY <1>3, <1>4, <2>1, <2>5
  <2> QED
    BY <2>1, <2>2, <2>3, <2>4, <2>5, <2>6
<1> HIDE DEF P, Cat
<1>8. Nat \subseteq P
  BY <1>6, <1>7, NatSetInduction
<1>9. Cat(Len(t))
  BY <1>1, <1>8 DEF P
<1> QED
  BY <1>1, <1>9, JoinedAll DEF Cat, w

\* The bytes of a document are those of its first value, then those of its second.
LEMMA DocumentBytes ==
  ASSUME FInv, map # Absent, Mapped(doc)
  PROVE  /\ Mapped(FirstValue) /\ Mapped(SecondValue)
         /\ BytesOf(doc) = BytesOf(FirstValue) \o BytesOf(SecondValue)
         /\ BytesOf(doc) \in Seq(Nat) /\ BytesOf(FirstValue) \in Seq(Nat)
         /\ BytesOf(SecondValue) \in Seq(Nat)
         /\ SecondValue # <<>> <=> Len(BytesOf(SecondValue)) # 0
<1>1. /\ doc \in Seq(Ids) /\ FirstValue \in Seq(Ids) /\ SecondValue \in Seq(Ids)
      /\ Len(doc) \in Nat /\ cut \in 0..Len(doc)
      /\ Len(FirstValue) = cut /\ Len(SecondValue) = Len(doc) - cut
      /\ \A i \in 1..cut : FirstValue[i] = doc[i]
      /\ \A i \in 1..(Len(doc) - cut) : SecondValue[i] = doc[cut + i]
  BY ValuesTyped
<1> DEFINE n == Len(doc)
           s == FirstValue
           t == SecondValue
<1> HIDE DEF n, s, t
<1>2. /\ DOMAIN doc = 1..n /\ DOMAIN s = 1..cut /\ DOMAIN t = 1..(n - cut)
      /\ n \in Nat /\ cut \in 0..n /\ n - cut \in Nat
  BY <1>1 DEF n, s, t
<1>3. \A i \in 1..cut : i \in 1..n
  BY <1>2
<1>4. \A i \in 1..(n - cut) : cut + i \in 1..n
  BY <1>2
<1>5. Mapped(s) /\ Mapped(t)
  BY <1>1, <1>2, <1>3, <1>4 DEF Mapped, n, s, t
<1> DEFINE p == Pieces(s)
           q == Pieces(t)
           r == Pieces(doc)
<1>6. /\ p \in Seq(Seq(Cells)) /\ Len(p) = cut /\ BytesOf(s) = FlattenSeq(p)
      /\ \A i \in 1..cut : p[i] = Get(map, s[i])
      /\ BytesOf(s) \in Seq(Nat)
  BY <1>1, <1>5, BytesTyped DEF s
<1>7. /\ q \in Seq(Seq(Cells)) /\ Len(q) = n - cut /\ BytesOf(t) = FlattenSeq(q)
      /\ \A i \in 1..(n - cut) : q[i] = Get(map, t[i]) /\ q[i] # <<>>
      /\ BytesOf(t) \in Seq(Nat)
  BY <1>1, <1>5, BytesTyped DEF t, n
<1>8. /\ r \in Seq(Seq(Cells)) /\ Len(r) = n /\ BytesOf(doc) = FlattenSeq(r)
      /\ \A i \in 1..n : r[i] = Get(map, doc[i])
      /\ BytesOf(doc) \in Seq(Nat)
  BY <1>1, BytesTyped DEF n
<1> HIDE DEF p, q, r
<1>9. r = p \o q
  <2> DEFINE w == p \o q
  <2>1. /\ w \in Seq(Seq(Cells)) /\ Len(w) = n
        /\ \A i \in 1..cut : w[i] = p[i]
        /\ \A i \in 1..(n - cut) : w[cut + i] = q[i]
    <3>1. p \in Seq(Seq(Cells)) /\ q \in Seq(Seq(Cells)) /\ Len(p) = cut /\ Len(q) = n - cut
      BY <1>6, <1>7
    <3>2. cut + (n - cut) = n
      BY <1>2
    <3>3. /\ p \o q \in Seq(Seq(Cells)) /\ Len(p \o q) = Len(p) + Len(q)
          /\ \A i \in 1..Len(p) : (p \o q)[i] = p[i]
          /\ \A i \in 1..Len(q) : (p \o q)[Len(p) + i] = q[i]
      <4> DEFINE T == Seq(Cells)
      <4>1. p \in Seq(T) /\ q \in Seq(T)
        BY <3>1
      <4> HIDE DEF T
      <4>2. /\ p \o q \in Seq(T) /\ Len(p \o q) = Len(p) + Len(q)
            /\ \A i \in 1..Len(p) : (p \o q)[i] = p[i]
            /\ \A i \in 1..Len(q) : (p \o q)[Len(p) + i] = q[i]
        BY <4>1, CatIs
      <4> QED
        BY <4>2 DEF T
    <3> QED
      BY <3>1, <3>2, <3>3
  <2> HIDE DEF w
  <2>2. ASSUME NEW i \in 1..n PROVE r[i] = w[i]
    <3>1. CASE i \in 1..cut
      <4>1. s[i] = doc[i]
        BY <1>1, <3>1 DEF s
      <4> QED
        BY <1>6, <1>8, <2>1, <3>1, <4>1
    <3>2. CASE i \notin 1..cut
      <4> DEFINE k == i - cut
      <4>1. k \in 1..(n - cut) /\ cut + k = i
        BY <1>2, <3>2
      <4> HIDE DEF k
      <4>2. t[k] = doc[i]
        BY <1>1, <4>1 DEF t, n
      <4> QED
        BY <1>7, <1>8, <2>1, <4>1, <4>2
    <3> QED
      BY <3>1, <3>2
  <2>3. r = w
    BY <1>8, <2>1, <2>2, SeqSame
  <2> QED
    BY <2>3 DEF w
<1>10. BytesOf(doc) = BytesOf(s) \o BytesOf(t)
  <2>1. p \in Seq(Seq(Cells)) /\ q \in Seq(Seq(Cells))
    BY <1>6, <1>7
  <2>2. FlattenSeq(p \o q) = FlattenSeq(p) \o FlattenSeq(q)
    BY <2>1, FlattenCat
  <2> QED
    BY <1>6, <1>7, <1>8, <1>9, <2>2
<1>11. t # <<>> <=> Len(BytesOf(t)) # 0
  <2>1. t = <<>> <=> n - cut = 0
    BY <1>1, <1>2 DEF n, t
  <2>2. CASE n - cut = 0
    <3>1. FlattenSeq(q) = Joined(q, 0)
      BY <1>7, <2>2, JoinedAll
    <3>2. BytesOf(t) = <<>>
      BY <1>7, <3>1, JoinedNone
    <3> QED
      BY <2>1, <2>2, <3>2
  <2>3. CASE n - cut # 0
    <3>1. 0 \in Nat /\ 0 < Len(q) /\ 0 + 1 = 1 /\ 1 \in 1..(n - cut)
      BY <1>2, <1>7, <2>3
    <3>2. /\ Upto(q, 0) \in Nat /\ Upto(q, 0 + 1) = Upto(q, 0) + Len(q[0 + 1])
          /\ Upto(q, 0 + 1) <= Len(FlattenSeq(q))
      BY <1>7, <3>1, PieceOf
    <3>3. q[1] \in Seq(Cells) /\ q[1] # <<>>
      BY <1>7, <3>1
    <3>4. Len(q[1]) \in Nat /\ Len(q[1]) # 0
      BY <3>3
    <3>5. Len(FlattenSeq(q)) # 0
      BY <3>1, <3>2, <3>4
    <3> QED
      BY <1>7, <2>1, <2>3, <3>5
  <2> QED
    BY <2>2, <2>3
<1> QED
  BY <1>5, <1>6, <1>7, <1>8, <1>10, <1>11 DEF s, t

\* The text of two values joined is the text of their joined bytes, where the first ends with
\* a character.
LEMMA TextsJoin ==
  ASSUME NEW x \in Seq(Nat), NEW y \in Seq(Nat), WholeTo(x, Len(x)),
         NEW k \in SplitPoints(y), NEW n \in SplitPoints(x \o y)
  PROVE  SubSeq(x \o y, 1, n) = x \o SubSeq(y, 1, k)
<1> DEFINE b == x \o y
           m == Len(x)
<1>1. /\ b \in Seq(Nat) /\ Len(b) = m + Len(y) /\ m \in Nat /\ Len(y) \in Nat
      /\ \A i \in 1..m : b[i] = x[i]
      /\ \A i \in 1..Len(y) : b[m + i] = y[i]
  BY CatIs
<1>2. k \in 0..Len(y) /\ Splits(y, k, Len(y)) /\ n \in 0..Len(b) /\ Splits(b, n, Len(b))
  BY DEF SplitPoints
<1>3. m + k \in 0..Len(b) /\ k \in Nat /\ k <= Len(y) /\ m + k <= Len(b)
  BY <1>1, <1>2
<1>4. WholeTo(b, m + k)
  BY <1>2, WholeJoins DEF Splits
<1>5. BegunFrom(b, m + k, Len(b))
  <2> DEFINE f == SubSeq(b, m + k + 1, Len(b))
             g == SubSeq(y, k + 1, Len(y))
  <2> HIDE DEF b, m
  <2>1. /\ f \in Seq(Nat) /\ Len(f) = Len(y) - k
        /\ \A i \in 1..(Len(y) - k) : f[i] = b[(m + k) + i]
    BY <1>1, <1>3
  <2>2. /\ g \in Seq(Nat) /\ Len(g) = Len(y) - k
        /\ \A i \in 1..(Len(y) - k) : g[i] = y[k + i]
    BY <1>1, <1>3
  <2> HIDE DEF f, g
  <2>3. ASSUME NEW i \in 1..(Len(y) - k) PROVE f[i] = g[i]
    <3>1. k + i \in 1..Len(y) /\ (m + k) + i = m + (k + i)
      BY <1>1, <1>3
    <3>2. b[m + (k + i)] = y[k + i]
      BY <1>1, <3>1
    <3> QED
      BY <2>1, <2>2, <3>1, <3>2
  <2>4. f = g
    BY <2>1, <2>2, <2>3, SeqSame
  <2>5. Begun(g)
    BY <1>2, BegunRest DEF g, Splits
  <2> QED
    BY <1>1, <1>3, <2>4, <2>5, BegunRest DEF f
<1>6. n = m + k
  <2>1. Splits(b, m + k, Len(b)) /\ Len(b) \in Nat /\ Len(b) <= Len(b)
    BY <1>1, <1>4, <1>5 DEF Splits
  <2> HIDE DEF b, m
  <2> QED
    BY <1>1, <1>2, <1>3, <2>1, SplitIsOne
<1> DEFINE u == SubSeq(b, 1, n)
           z == SubSeq(y, 1, k)
           v == x \o z
<1>7. z \in Seq(Nat) /\ Len(z) = k /\ \A i \in 1..k : z[i] = y[i]
  BY <1>1, <1>3
<1>8. /\ v \in Seq(Nat) /\ Len(v) = m + Len(z)
      /\ \A i \in 1..m : v[i] = x[i]
      /\ \A i \in 1..Len(z) : v[m + i] = z[i]
  <2> HIDE DEF z
  <2> QED
    BY <1>7, CatIs
<1> HIDE DEF b, m, z, v
<1>9. u \in Seq(Nat) /\ Len(u) = m + k /\ \A i \in 1..(m + k) : u[i] = b[i]
  BY <1>1, <1>3, <1>6
<1> HIDE DEF u
<1>10. ASSUME NEW i \in 1..(m + k) PROVE u[i] = v[i]
  <2>1. CASE i \in 1..m
    BY <1>1, <1>8, <1>9, <2>1
  <2>2. CASE i \notin 1..m
    <3> DEFINE j == i - m
    <3>1. j \in 1..k /\ j \in 1..Len(y) /\ i = m + j
      BY <1>1, <1>3, <2>2
    <3> HIDE DEF j
    <3>2. b[m + j] = y[j] /\ v[m + j] = y[j]
      BY <1>1, <1>7, <1>8, <3>1
    <3> QED
      BY <1>9, <3>1, <3>2
  <2> QED
    BY <2>1, <2>2
<1>11. u = v
  BY <1>7, <1>8, <1>9, <1>10, SeqSame
<1> QED
  BY <1>11 DEF u, v, b, z

LEMMA WholeSplits ==
  ASSUME NEW b \in Seq(Nat)
  PROVE  Whole(b) <=> WholeTo(b, Len(b))
<1>1. SubSeq(b, 1, Len(b)) = b /\ Len(b) \in 0..Len(b)
  OBVIOUS
<1> QED
  BY <1>1, WholeFront

\* detok.rs:41-45: for every map, document and cut, whatever happened to the file, the texts of
\* the two values joined are the document's, and where the document is of whole characters
\* the second value has a text exactly when the cut is between two of them.
THEOREM ChunkBoundariesHolds == Spec => []ChunkBoundaries
<1>1. FInv => ChunkBoundaries
  <2> SUFFICES ASSUME FInv, map # Absent
               PROVE  ChunkBoundaries
    BY DEF ChunkBoundaries
  <2> DEFINE x == BytesOf(FirstValue)
             y == BytesOf(SecondValue)
             b == BytesOf(doc)
  <2>1. doc \in Seq(Ids) /\ FirstValue \in Seq(Ids) /\ SecondValue \in Seq(Ids)
    BY ValuesTyped
  <2>2. CASE ~Mapped(doc)
    <3>1. ToText(doc) = {}
      BY <2>2 DEF ToText
    <3> QED
      BY <2>2, <3>1 DEF ChunkBoundaries
  <2>3. CASE Mapped(doc)
    <3>1. /\ Mapped(FirstValue) /\ Mapped(SecondValue) /\ b = x \o y
          /\ b \in Seq(Nat) /\ x \in Seq(Nat) /\ y \in Seq(Nat)
          /\ SecondValue # <<>> <=> Len(y) # 0
      BY <2>3, DocumentBytes
    <3>2. /\ ToText(FirstValue) = {SubSeq(x, 1, n) : n \in SplitPoints(x)}
          /\ ToText(SecondValue) = {SubSeq(y, 1, n) : n \in SplitPoints(y)}
          /\ ToText(doc) = {SubSeq(b, 1, n) : n \in SplitPoints(b)}
      BY <2>1, <2>3, <3>1, TextIs
    <3> HIDE DEF x, y, b
    <3>3. ASSUME NEW n \in SplitPoints(b), NEW k \in SplitPoints(y), Len(y) # 0
          PROVE  WholeTo(x, Len(x))
      <4>1. y[1] # Cont
        BY <3>1, <3>3, FirstOpens DEF SplitPoints
      <4> QED
        BY <3>1, <3>3, <4>1, NoneCut DEF SplitPoints
    <3>4. ASSUME NEW h \in ToText(FirstValue), NEW t \in ToText(SecondValue),
                 NEW d \in ToText(doc), SecondValue # <<>>
          PROVE  d = h \o t
      <4>1. PICK j \in SplitPoints(x) : h = SubSeq(x, 1, j)
        BY <3>2, <3>4
      <4>2. PICK k \in SplitPoints(y) : t = SubSeq(y, 1, k)
        BY <3>2, <3>4
      <4>3. PICK n \in SplitPoints(b) : d = SubSeq(b, 1, n)
        BY <3>2, <3>4
      <4>4. WholeTo(x, Len(x))
        BY <3>1, <3>3, <3>4
      <4>5. j = Len(x)
        <5>1. Len(x) \in Nat /\ Len(x) \in 0..Len(x) /\ Len(x) <= Len(x)
          BY <3>1
        <5>2. Splits(x, Len(x), Len(x))
          BY <4>4, <5>1 DEF Splits, BegunFrom
        <5>3. j \in 0..Len(x) /\ Splits(x, j, Len(x))
          BY <4>1 DEF SplitPoints
        <5> QED
          BY <3>1, <5>1, <5>2, <5>3, SplitIsOne
      <4>6. h = x
        BY <3>1, <4>1, <4>5
      <4>7. SubSeq(x \o y, 1, n) = x \o SubSeq(y, 1, k)
        BY <3>1, <4>4, TextsJoin
      <4> QED
        BY <3>1, <4>2, <4>3, <4>6, <4>7
    <3>5. ASSUME Whole(b)
          PROVE  ToText(FirstValue) # {} /\ (ToText(SecondValue) # {} <=> Whole(x))
      <4>0. Len(b) \in Nat
        BY <3>1
      <4>1. WholeTo(b, Len(b)) /\ Len(b) \in 0..Len(b) /\ Len(b) \in Nat
        <5>1. WholeTo(b, Len(b))
          BY <3>1, <3>5, WholeSplits
        <5> QED
          BY <4>0, <5>1
      <4>2. Splits(b, Len(b), Len(b))
        BY <4>1 DEF Splits, BegunFrom
      <4>3. /\ Len(b) = Len(x) + Len(y) /\ Len(x) \in Nat /\ Len(y) \in Nat
            /\ \A i \in 1..Len(x) : b[i] = x[i]
        BY <3>1, CatIs
      <4>4. Len(x) <= Len(b)
        BY <4>3
      <4>5. PICK u \in 0..Len(x) : Splits(b, u, Len(x))
        BY <3>1, <4>1, <4>2, <4>3, <4>4, SplitFronts
      <4>6. Splits(x, u, Len(x))
        <5>1. u \in Nat /\ u <= Len(x) /\ u <= Len(b) /\ \A i \in 1..u : b[i] = x[i]
          BY <4>3, <4>4
        <5>2. WholeTo(x, u)
          BY <3>1, <4>5, <5>1, WholeAgrees DEF Splits
        <5>3. u < Len(x) => u + 1 \in 1..Len(x) /\ \A j \in (u + 2)..Len(x) : j \in 1..Len(x)
          BY <4>3
        <5>4. BegunFrom(x, u, Len(x))
          BY <4>3, <4>5, <5>3 DEF Splits, BegunFrom
        <5> QED
          BY <5>2, <5>4 DEF Splits
      <4>7. ToText(FirstValue) # {}
        <5>1. u \in SplitPoints(x)
          BY <4>6 DEF SplitPoints
        <5>2. SubSeq(x, 1, u) \in ToText(FirstValue)
          BY <3>2, <5>1
        <5> QED
          BY <5>2
      <4>8. ASSUME Whole(x)
            PROVE  ToText(SecondValue) # {}
        <5>1. WholeTo(x, Len(x))
          BY <3>1, <4>8, WholeSplits
        <5>2. WholeTo(y, Len(y))
          BY <3>1, <4>1, <5>1, WholeRest
        <5>3. Len(y) \in SplitPoints(y)
          BY <4>3, <5>2 DEF SplitPoints, Splits, BegunFrom
        <5>4. SubSeq(y, 1, Len(y)) \in ToText(SecondValue)
          BY <3>2, <5>3
        <5> QED
          BY <5>4
      <4>9. ASSUME ToText(SecondValue) # {}
            PROVE  Whole(x)
        <5>1. PICK k \in SplitPoints(y) : TRUE
          BY <3>2, <4>9
        <5>2. CASE Len(y) = 0
          <6>1. Len(x) = Len(b)
            BY <4>3, <5>2
          <6>2. WholeTo(x, Len(x))
            BY <3>1, <4>1, <4>3, <4>4, <6>1, WholeAgrees
          <6> QED
            BY <3>1, <6>2, WholeSplits
        <5>3. CASE Len(y) # 0
          <6>1. Len(b) \in SplitPoints(b)
            BY <4>1, <4>2 DEF SplitPoints
          <6>2. WholeTo(x, Len(x))
            BY <3>3, <5>3, <6>1
          <6> QED
            BY <3>1, <6>2, WholeSplits
        <5> QED
          BY <5>2, <5>3
      <4> QED
        BY <4>7, <4>8, <4>9
    <3> QED
      BY <3>4, <3>5 DEF ChunkBoundaries, x, y, b
  <2> QED
    BY <2>2, <2>3
<1> QED
  BY <1>1, FileInvariant, PTL

=============================================================================
