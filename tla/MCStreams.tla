------------------------------ MODULE MCStreams ------------------------------
(***************************************************************************)
(* Model checking of Streams: the data that each of the parts is fed.      *)
(***************************************************************************)
EXTENDS Streams

\* Data with bytes that are escaped, that end a subpacket, that are taken for
\* the abort key, or none of these, and one that is too long
SomePayloads ==
    {<<>>, <<24, 24>>, <<42, 24>>, <<17, 7>>, <<7, 7, 7>>}
      \cup {<<b>> : b \in {3, 7, 24, 104, 127}}

\* Chunks of a byte that starts runs (9), counts and zeros
ShortChunks == BoundedSeq({0, 1, 2, 9}, 3) \ {<<>>}

SomeKeys == {<<>>, <<1>>, <<0, 1>>, <<0, 1, 1>>}

SmallBase == <<1, 0, 1>>
=============================================================================
