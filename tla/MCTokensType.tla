---- MODULE MCTokensType ----
(***************************************************************************)
(* Instance of TokensType for TLC: vocabulary 1 stores raw8, 2 stores      *)
(* raw16, 3 stores freq over every id of the format; 9 is registered       *)
(* nowhere.  A byte is two ids wide, so ids stay below 8; an i32 ends at   *)
(* 15 and a u32 at 31.                                                     *)
(***************************************************************************)
EXTENDS TokensType

Symmetry == Permutations(Columns)

MCSize == <<2, 3, 8>>
MCCompression == <<"raw", "raw", "freq">>

Spaced(a, b) == <<Blank, Open, Blank, Number(a), Blank, Comma, Number(b), Close, Blank>>

\* The empty list, ids of every vocabulary, one above the smaller two, the largest, and one
\* above the format; spaces; and texts that are no list: a trailing comma, no comma, no brace,
\* a word, and a negative id.
MCTexts ==
  {RenderIds(ids) : ids \in {<<>>, <<2>>, <<7, 5, 1>>, <<8>>}} \cup
  { Spaced(1, 0), <<Open, Blank, Close>>,
    <<Open, Number(1), Comma, Close>>, <<Open, Number(1), Blank, Number(0), Close>>,
    <<Open, Number(1)>>, <<Open, Number(1), Comma, Other, Close>>, <<Open, Number(-1), Close>> }

\* Also an array with a NULL and one with a negative integer.
MCArrays == {<<>>, <<1, 0>>, <<7, 5, 1>>, <<1, Nothing>>, <<-1, 1>>}

Framed(v, codec, packed, form) == [vocab |-> v, codec |-> codec, packed |-> packed, form |-> form]

\* A sound value; an id outside its vocabulary; a packing its vocabulary does not use; freq
\* integers no ranking of three produces, one of them an id above i32::MAX, in a loose form and
\* in a broken one; and headers that name no vocabulary or an unregistered one.
MCClientValues ==
  { Framed(1, "raw8", <<1>>, "exact"),
    Framed(2, "raw16", <<3>>, "exact"),
    Framed(2, "raw24", <<2>>, "exact"),
    Framed(3, "freq", <<0, 31>>, "exact"),
    Framed(3, "freq", <<>>, "loose"),
    Framed(3, "freq", <<1>>, "broken"),
    Framed(0, "raw24", <<1>>, "exact"),
    Framed(0, "freq", <<1>>, "exact"),
    Framed(9, "raw8", <<0>>, "exact") }

\* Three ranked ids, cut or not; ties between them.
MCCorpora == {<<5, 1, 5, 0>>}
MCCaps == {0, 2, 10}
====
