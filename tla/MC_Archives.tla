----------------------------- MODULE MC_Archives -----------------------------
\* The archives and backends that SandboxReader is checked with.
EXTENDS Sequences, SequencesExt, TLC

\* "a" and "A" are one name to both; "s" and "S" to the volume alone.
LowerOf == ("a" :> "a") @@ ("A" :> "a") @@ ("s" :> "s") @@ ("S" :> "S") @@ ("b" :> "b")
           @@ ("line break" :> "line break") @@ ("long" :> "long")
VolumeOf == ("S" :> "s") @@ LowerOf
LengthOf == ("line break" :> 1) @@ ("long" :> 5) @@ [p \in {"a", "A", "s", "S", "b"} |-> 1]

Name(parts) == [parts |-> parts, slash |-> FALSE, form |-> "text"]
File(parts, data) ==
    [name |-> Name(parts), kind |-> "file", hardlink |-> FALSE, declared |-> 0, chunks |-> data]
Directory(parts) ==
    [name |-> [Name(parts) EXCEPT !.slash = TRUE], kind |-> "dir", hardlink |-> FALSE,
     declared |-> 0, chunks |-> <<>>]

Ordinary == {File(<<"a">>, <<1, 1>>), File(<<"A">>, <<1>>), File(<<"a", "b">>, <<2>>),
             File(<<"A", "b">>, <<1>>), File(<<"s">>, <<1>>), File(<<"S">>, <<2>>),
             File(<<"b">>, <<2, 1>>), Directory(<<"a">>), Directory(<<"s", "b">>),
             File(<<"a", "s">>, <<>>)}
Odd == {File(<<"line break">>, <<>>), File(<<"long">>, <<>>), File(<<"a", "b", "s">>, <<>>),
        [File(<<"s">>, <<>>) EXCEPT !.name.slash = TRUE],
        [File(<<"s">>, <<>>) EXCEPT !.name.form = "binary"],
        [File(<<"s">>, <<>>) EXCEPT !.hardlink = TRUE],
        [File(<<"s">>, <<>>) EXCEPT !.kind = "link"],
        [File(<<"s">>, <<>>) EXCEPT !.declared = 3],
        [Directory(<<"a">>) EXCEPT !.chunks = <<1>>]}

MemberLists == {<<>>} \cup {<<a>> : a \in Ordinary \cup Odd}
               \cup {<<a, b>> : a \in Ordinary, b \in Ordinary \cup Odd}
               \cup {<<a, b, c>> : a \in Ordinary, b \in Ordinary, c \in Ordinary}

Streams == [kind : {"raw"}, name : {Name(<<"a">>), Name(<<"long">>)}, filter : {"expected", "other"},
            format : {"raw", "tar"}, chunks : {<<>>, <<1, 1>>, <<2, 1>>}, extra : BOOLEAN]

AllArchives == {[kind |-> "members", members |-> m] : m \in MemberLists} \cup Streams
Backends == {<<>>, <<"partial">>, <<"unloadable", "partial", "complete">>}
Strays == {<<"a">>, <<"a", "b">>}
=============================================================================
