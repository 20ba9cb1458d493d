--------------------------- MODULE MCLargeContent ---------------------------
(* Two editions of a content of one to three chunks.                        *)
EXTENDS LargeContent

MCContents == {<<0, 1, 0>>, <<0, 1, 1>>, <<1>>}
MCForged   == {<<1>>}

(* A label that is no hex number, and one that is.                          *)
MCPlain == [p \in {"blog"} |-> p]
MCHex   == [p \in {"feed"} |-> "0xFEED"]
=============================================================================
