------------------------- MODULE MCIdempotencyLedger --------------------------
(* Two processes; a and c arrive at the first one, b at the second, all    *)
(* with one key; c may carry another request body under that key.          *)
EXTENDS IdempotencyLedger, TLC

MCServerOf == "a" :> "s1" @@ "b" :> "s2" @@ "c" :> "s1"
MCContents == {"a" :> "d" @@ "b" :> "d" @@ "c" :> x : x \in {"d", "e"}}
=============================================================================
