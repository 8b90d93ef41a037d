---------------------------- MODULE ClientPartsMC ----------------------------
(* ClientParts with small inputs for each part. *)
EXTENDS ClientParts

\* Nothing, and a line with a glyph of two bytes.
MCRecalled == {<<>>, <<"a", "L", "C">>}

\* A first piece that is blank, and Markdown that gets shorter as it goes on.
MCRowsOf == [n \in 1 .. MaxEvents |-> IF n = 1 THEN 0 ELSE IF n = 3 THEN 1 ELSE 2]
=============================================================================
