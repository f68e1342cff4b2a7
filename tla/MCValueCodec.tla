----------------------------- MODULE MCValueCodec -----------------------------
EXTENDS ValueCodec

\* Both sides of the powers of the base, for ids and for the integers they become, and the
\* largest id that can be ranked and one that cannot.
MCIds == {12, 13, 15, 16, 255, 256, 4095, 4096, 65532, 65534}
MCLists == UNION {[1..n -> MCIds] : n \in 0..3}
MCTable == <<256, 15, 4096>>

=============================================================================
