------------------------------- MODULE MCWire -------------------------------
(* Two frames, payloads made of what could be taken for structure, and     *)
(* chunks of one, two and seven characters.                                *)
EXTENDS Wire

MCCharacters == {CR, LF, "id", ":", " "}
MCTerminators == {<<LF>>, <<CR>>, <<CR, LF>>}
MCOrigins == {"tab"}
MCIds == <<"1-0", "1-1">>
MCChunks == {1, 2, 7}
=============================================================================
