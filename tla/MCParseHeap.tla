----------------------------- MODULE MCParseHeap -----------------------------
(***************************************************************************)
(* Arrays of one slot, so that the second element makes them grow.          *)
(***************************************************************************)
EXTENDS ParseHeap

MCCredits == <<"name">>

MCVersionLists == {<<>>, <<"miss", "hit">>, <<"hit", "hit">>}

\* One thing goes wrong: memory is short once, or a line is out of place.
OneTrouble == failures + disorder <= 1
=============================================================================
