---------------------------- MODULE MCChunking ----------------------------
(* Short blocks that are packed, blocks of one window with long words,        *)
(* punctuation and repetitions, and blocks of two and three windows.          *)
EXTENDS Chunking

B(d, t) == [doc |-> d, text |-> t]

\* Long blocks; the target is 3 and a window has 6 characters.
Words == <<"a", "b", " ", "a", "b">>
Sentence == <<"a", ".", "b", " ", " ", "c">>
LongWord == <<"a", "b", "c", "d", " ", "e">>
Repeated == <<"a", "b", " ", "a", "b", " ", "a", "b", " ", "a", "b">>
Spaced == <<"a", " ", " ", " ", " ", " ", " ", " ", " ", " ", " ", "b">>
Wide == <<"a", "b", ".", "c", " ", "d", "e", " ", "b", "c">>

MCSources == {
    <<B("d1", <<"a">>), B("d1", <<" ", "b">>), B("d1", <<"a", "b", "c">>), B("d2", <<"c">>)>>,
    <<B("d1", <<"a">>), B("d2", <<>>), B("d2", <<"b">>), B("d2", <<"a", "b">>)>>,
    <<B("d1", Words), B("d1", <<"a">>), B("d1", Words)>>,
    <<B("d1", Sentence), B("d1", Words), B("d1", Sentence)>>,
    <<B("d1", LongWord)>>, <<B("d1", Repeated)>>, <<B("d1", Spaced)>>, <<B("d1", Wide)>>,
    [i \in 1 .. 5 |-> B("d1", <<"a", "b", "c">>)]}

Offsets == {-1, 0, 1, 2, 3, 5, 6} \X {0, 1, 2, 4, 5, 7}
MCAnswers == {{a, b} : a \in Offsets, b \in Offsets}
=============================================================================
