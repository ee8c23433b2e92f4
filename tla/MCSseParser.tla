----------------------------- MODULE MCSseParser -----------------------------
(***************************************************************************)
(* SseParser for TLC: reads that bring a field name, one character, or the *)
(* end of one event and the beginning of the next.                         *)
(***************************************************************************)
EXTENDS SseParser

SmallChunks ==
    {<<"data", COLON>>, <<"event", COLON>>, <<"x">>, <<SP>>, <<COLON>>, <<CR>>, <<LF>>,
     <<LF, LF, "data">>}

SmallChars == {LF, CR, SP, COLON, "data", "event", "x"}
=============================================================================
