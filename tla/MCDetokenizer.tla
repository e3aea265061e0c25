--------------------------- MODULE MCDetokenizer ---------------------------
(* Values for the constants of Detokenizer that a cfg cannot write. *)
EXTENDS Detokenizer

\* Whole characters, with and without a space; the beginning, the middle and
\* the two ends of characters; no text at all.
MCVocabulary ==
    {<<"a">>, <<" ", "a">>, <<" ", "3">>, <<"3">>, <<"c">>, <<"c", "c">>, <<"c", "2">>, <<>>}

\* Text, text cut inside a character by the context, an unfinished character,
\* special tokens alone, and a prompt of nothing else.
MCPrompts ==
    {<<<<"a">>>>,
     <<<<" ", "a">>, <<>>>>,
     <<<<"a">>, <<" ", "3">>, <<"c">>, <<"c">>, <<>>>>,
     <<<<" ", "a">>, <<"3">>, <<"c">>, <<"c">>, <<"a">>, <<" ", "a">>>>,
     <<<<"a">>, <<"3">>>>,
     <<<<"a">>, <<>>, <<>>, <<>>, <<>>>>,
     <<<<>>>>}
=============================================================================
