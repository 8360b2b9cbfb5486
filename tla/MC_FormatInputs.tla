--------------------------- MODULE MC_FormatInputs ---------------------------
\* The inputs of Formats.
EXTENDS Naturals, Sequences, SequencesExt, TLC

Arguments == BoundedSeq({"x", "space", "slash", "quote"}, 3)
Commands == [kind : {"command"}, arguments : {<<>>} \cup {<<a, b>> : a \in Arguments, b \in Arguments}]
Records == [kind : {"record"}, body : 5..9 \cup 94..101 \cup 993..1001]
ByteTexts == [kind : {"bytes"}, text : [count : 0..33, unit : 0..4]]
Characters == {"a", "wide", "pair", "surrogate", "nul", "lf", "cr"}
Passwords == [kind : {"password"}, units : BoundedSeq(Characters, 4)]
\* Three parts and eight bytes are the limits; <<"a", "b", "A", "b">> is deeper, and
\* <<"wide", "a", "b">> and <<"wide", "wide">> are one and two bytes longer.
Selectors == {<<>>, <<"a">>, <<"A">>, <<"b">>, <<"a", "b">>, <<"A", "b">>, <<"a", "b", "A">>,
              <<"a", "b", "A", "b">>, <<"wide", "b">>, <<"wide", "a", "b">>, <<"wide", "wide">>,
              <<"bad:">>, <<"b", "bad:">>}
BytesOf == ("a" :> 1) @@ ("A" :> 1) @@ ("b" :> 1) @@ ("wide" :> 4) @@ ("bad:" :> 4)
Selections == [kind : {"select"}, paths : BoundedSeq(Selectors, 3)]
FileNames == {<<f>> \o r : f \in {"", "a", "con"}, r \in BoundedSeq({"", "tar", "gz", "tgz", "zstd", "zip"}, 3)}
Names == [kind : {"name"}, name : {n \in FileNames : Range(n) # {""}}, taken : SUBSET (0..2)]
AllQuestions == Commands \cup Records \cup ByteTexts \cup Passwords \cup Selections \cup Names
FoldOf == ("a" :> "a") @@ ("A" :> "a") @@ ("b" :> "b") @@ ("wide" :> "wide") @@ ("bad:" :> "bad:")
RawCompounds == {<<"tar", "gz">>, <<"tgz">>, <<"tar", "zstd">>}
RawExtensions == {<<"gz">>, <<"zstd">>}
BaseCompounds == {<<"tar", "gz">>, <<"tgz">>}
=============================================================================
