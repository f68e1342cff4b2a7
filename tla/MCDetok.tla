------------------------------- MODULE MCDetok -------------------------------
EXTENDS Detok

\* Tokens of one byte of each class, and of two continuation bytes.
MCEntries == {<<>>, <<0>>, <<1>>, <<2>>, <<3>>, <<3, 3>>}

\* An id seen twice, ties, and an order that is not that of the ids.
MCCorpora == {<<2, 0, 2>>, <<1, 3, 0>>}

=============================================================================
