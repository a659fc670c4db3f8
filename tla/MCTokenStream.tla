--------------------------- MODULE MCTokenStream ---------------------------
(* Vocabulary and stop strings for TokenStream: one-character tokens, a    *)
(* two-character token, the two halves of a wide character and a token     *)
(* that ends in the middle of one; stop strings of one to three            *)
(* characters, overlapping ones, the empty one and none.                   *)
EXTENDS TokenStream

Vocabulary ==
    {<<"a">>, <<"b">>, <<"b", "a">>, <<Lead>>, <<Trail>>, <<"b", Lead>>}

Stops ==
    {{}, {<<>>}, {<<"b">>}, {<<"a", "b">>}, {<<"a", Wide>>, <<"b">>},
     {<<"a", "b", "a">>, <<"b", "b">>}}
=============================================================================
