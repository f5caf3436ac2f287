-------------------------------- MODULE MCBuffer --------------------------------
(* An instance of Buffer: chunks of one, two and three bytes that differ,  *)
(* so that a byte lost, repeated or moved shows.                           *)
EXTENDS Buffer

MCByte   == {"0", "a", "b"}
MCChunks == {<<"a">>, <<"b", "a">>, <<"a", "b", "b">>}
=============================================================================
