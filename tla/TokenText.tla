------------------------------- MODULE TokenText -------------------------------
(***************************************************************************)
(* The text form of a list of token ids (ext/src/tokens.rs, parse_ids and  *)
(* render_ids).  A text is a sequence of words: a run of digits with its   *)
(* sign is one, every other character that matters is one of its own.      *)
(***************************************************************************)
EXTENDS Integers, RankTable

Open == [is |-> "{"]
Close == [is |-> "}"]
Comma == [is |-> ","]
Blank == [is |-> " "]
Other == [is |-> "other"]
Number(n) == [is |-> "number", value |-> n]

Words == {Open, Close, Comma, Blank, Other} \cup [is : {"number"}, value : Int]

Inked(s) == {i \in 1..Len(s) : s[i] # Blank}

\* The k-th smallest element of a set of numbers.
Nth(S, k) == CHOOSE i \in S : Cardinality({j \in S : j < i}) = k - 1

\* The words of s without the blanks.
Squeezed(s) ==
  LET inked == Inked(s) IN [k \in 1..Cardinality(inked) |-> s[Nth(inked, k)]]

\* str::trim
Trim(s) ==
  LET inked == Inked(s) IN IF inked = {} THEN <<>> ELSE SubSeq(s, Min(inked), Max(inked))

\* split(',') and the trim of each field.
Fields(s) ==
  LET ends == {0, Len(s) + 1} \cup {i \in 1..Len(s) : s[i] = Comma} IN
  [k \in 1..Cardinality(ends) - 1 |-> Trim(SubSeq(s, Nth(ends, k) + 1, Nth(ends, k + 1) - 1))]

IsTokenId(field) == Len(field) = 1 /\ field[1].is = "number" /\ field[1].value \in U32

\* Mutant of ParseIds: it stops at the first field it does not understand.
ParseIdsPrefix(text) ==
  LET t == Trim(text) inner == SubSeq(t, 2, Len(t) - 1) fields == Fields(inner) IN
  IF Len(t) < 2 \/ Head(t) # Open \/ Last(t) # Close THEN {}
  ELSE LET upto == CHOOSE n \in 0..Len(fields) :
                     /\ \A k \in 1..n : IsTokenId(fields[k])
                     /\ n < Len(fields) => ~IsTokenId(fields[n + 1]) IN
       {[k \in 1..upto |-> fields[k][1].value]}

\* parse_ids
ParseIds(text) ==
  LET t == Trim(text) inner == SubSeq(t, 2, Len(t) - 1) fields == Fields(inner) IN
  IF Len(t) < 2 \/ Head(t) # Open \/ Last(t) # Close THEN {}
  ELSE IF Trim(inner) = <<>> THEN {<<>>}
  ELSE IF \A k \in DOMAIN fields : IsTokenId(fields[k])
       THEN {[k \in DOMAIN fields |-> fields[k][1].value]}
       ELSE {}

\* render_ids
RenderIds(ids) ==
  IF ids = <<>> THEN <<Open, Close>>
  ELSE [i \in 1..2 * Len(ids) + 1 |->
          CASE i = 1 -> Open
            [] i = 2 * Len(ids) + 1 -> Close
            [] i % 2 = 0 -> Number(ids[i \div 2])
            [] OTHER -> Comma]

=============================================================================
