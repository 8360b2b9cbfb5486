------------------------------ MODULE Formats ------------------------------
(***************************************************************************)
(* What one part of the program writes and another one, or Windows, reads: *)
(*   command   the arguments of a process     windows_command_line.rs      *)
(*   record    the length of a PAX record     pax.rs                       *)
(*   bytes     a limit in the settings form   settings.rs                  *)
(*   password  the line in the one-use pipe   password.rs, and the child   *)
(*   select    the paths of a selection       selection.rs                 *)
(*   name      the names made of an archive's util.rs, staging.rs          *)
(* A question is one input of one of them; the program answers it in one   *)
(* step, the length of a record in as many as its loop takes.              *)
(***************************************************************************)
EXTENDS Integers, Sequences, FiniteSets, SequencesExt, FiniteSetsExt

CONSTANTS
    Questions,
    Nothing,            \* the answer of an input that is refused
    Pending,            \* none yet
    MaxCommandUnits,    \* MAX_COMMAND_LINE_UNITS
    MaxPassword,        \* MAX_PASSWORD_UTF8_BYTES and MAX_PASSWORD_UTF16_UNITS
    Kilo,               \* 1024
    MaxNumber,          \* u64::MAX
    MaxSelected,        \* max_files + max_directories
    MaxSelectedDepth, MaxSelectedBytes, \* max_depth and max_path_bytes
    PartBytes,          \* part of a path -> its bytes in UTF-8
    MaxIndex,           \* the names that smart_destination tries
    Fold,               \* part of a path -> its lower case
    BadPart, Device,    \* the parts that validate_component rejects, in full or as a stem
    RawCompound, RawExtension, BaseCompound \* extensions: sequences of parts

VARIABLES question, answer, length

formatVars == <<question, answer, length>>

-----------------------------------------------------------------------------
\* The command line: units are "x", "space", "slash" and "quote".
Repeat(unit, n) == [i \in 1..n |-> unit]
NeedsQuotes(argument) == argument = <<>> \/ Range(argument) \cap {"space", "quote"} # {}

\* A fault: the backslashes before the last quotation mark are not doubled.
EscapedUntil(s) == s.out \o Repeat("slash", s.slashes)

Escaped(s) == s.out \o Repeat("slash", 2 * s.slashes)

QuoteUnit(s, unit) ==
    IF unit = "slash" THEN [s EXCEPT !.slashes = @ + 1]
    ELSE [out |-> s.out \o Repeat("slash", IF unit = "quote" THEN 2 * s.slashes + 1 ELSE s.slashes)
                        \o <<unit>>,
          slashes |-> 0]
Quoted(argument) ==
    IF ~NeedsQuotes(argument) THEN argument
    ELSE <<"quote">> \o Escaped(FoldLeft(QuoteUnit, [out |-> <<>>, slashes |-> 0], argument))
                     \o <<"quote">>

\* The program is "x" here; the terminator counts.
AddArgument(line, argument) == line \o <<"space">> \o Quoted(argument)
Encoded(arguments) ==
    LET line == FoldLeft(AddArgument, <<"x">>, arguments)
    IN  IF Len(line) + 1 > MaxCommandUnits THEN Nothing ELSE line

\* How Windows splits it into arguments (external; decode_single for one of them).
Fresh(done) == [done |-> done, now |-> <<>>, slashes |-> 0, at |-> "gap"]
Flush(s) == IF s.at = "gap" THEN s.done ELSE Append(s.done, s.now \o Repeat("slash", s.slashes))
Opened(at) == IF at = "quotes" THEN "quotes" ELSE "word"
Turned(at) == IF at = "quotes" THEN "word" ELSE "quotes"
Extended(s, text, at) == [done |-> s.done, now |-> s.now \o text, slashes |-> 0, at |-> at]

SplitUnit(s, unit) ==
    CASE unit = "slash" -> [s EXCEPT !.slashes = @ + 1, !.at = Opened(@)]
      [] unit = "quote" /\ s.slashes % 2 = 0 ->
            Extended(s, Repeat("slash", s.slashes \div 2), Turned(s.at))
      [] unit = "quote" /\ s.slashes % 2 # 0 ->
            Extended(s, Repeat("slash", s.slashes \div 2) \o <<"quote">>, Opened(s.at))
      [] unit = "space" /\ s.at # "quotes" -> Fresh(Flush(s))
      [] OTHER -> Extended(s, Repeat("slash", s.slashes) \o <<unit>>, Opened(s.at))
Split(line) == Flush(FoldLeft(SplitUnit, Fresh(<<>>), line))

Encode ==
    /\ question.kind = "command"
    /\ answer' = Encoded(question.arguments)
    /\ UNCHANGED length

-----------------------------------------------------------------------------
\* pax_record: the length counts its own digits.
Digits(n) == CHOOSE d \in 1..10 : n < 10^d /\ (d > 1 => n >= 10^(d - 1))
Adjusted(body, n) == body + Digits(n) + 1

AdjustLength ==
    /\ question.kind = "record"
    /\ length' = Adjusted(question.body, length)
    /\ answer' = IF length' = length THEN length ELSE answer

-----------------------------------------------------------------------------
\* The settings form: the largest unit that divides the value, and back.
Multipliers == <<1, Kilo, Kilo * Kilo, Kilo * Kilo * Kilo, Kilo * Kilo * Kilo * Kilo>>
Multiplier(unit) == Multipliers[unit + 1]
Formatted(value) ==
    LET units == {u \in 1..4 : value >= Multiplier(u) /\ value % Multiplier(u) = 0}
        unit == IF units = {} THEN 0 ELSE Max(units)
    IN  [count |-> value \div Multiplier(unit), unit |-> unit]

Parsed(text) ==
    IF text.count = 0 \/ text.count * Multiplier(text.unit) > MaxNumber THEN Nothing
    ELSE text.count * Multiplier(text.unit)

Parse ==
    /\ question.kind = "bytes"
    /\ answer' = Parsed(question.text)
    /\ UNCHANGED length

-----------------------------------------------------------------------------
\* The password: characters with their units in UTF-16 and bytes in UTF-8.
Units(c) == IF c = "pair" THEN 2 ELSE 1
Utf8(c) == CASE c = "wide" -> 3 [] c = "pair" -> 4 [] OTHER -> 1
Utf16Length(units) == FoldLeft(LAMBDA n, c : n + Units(c), 0, units)
Utf8Length(units) == FoldLeft(LAMBDA n, c : n + Utf8(c), 0, units)
Breaks == {"nul", "lf", "cr"}

Prepared(units) ==
    IF /\ units # <<>>
       /\ Utf16Length(units) <= MaxPassword
       /\ Range(units) \cap Breaks = {}
       /\ "surrogate" \notin Range(units)
       /\ Utf8Length(units) <= MaxPassword
    THEN Append(units, "cr") ELSE Nothing

\* read_one_use_password in the child.
Received(line) ==
    IF /\ line # <<>> /\ Utf8Length(line) <= MaxPassword + 1
       /\ Last(line) = "cr" /\ Len(line) > 1
       /\ Range(Front(line)) \cap (Breaks \cup {"surrogate"}) = {}
    THEN Front(line) ELSE Nothing

Transport ==
    /\ question.kind = "password"
    /\ answer' = Prepared(question.units)
    /\ UNCHANGED length

-----------------------------------------------------------------------------
\* The selectors, as validate_selectors looks for duplicates and for ancestors:
\* among the keys in lower case, all proper prefixes of each.
Key(path) == [i \in 1..Len(path) |-> Fold[path[i]]]
Ancestors(key) == {SubSeq(key, 1, n) : n \in 1..(Len(key) - 1)}

\* A fault: only the directory that holds the entry is looked up.
NearestOnly(key) == IF Len(key) > 1 THEN {Front(key)} ELSE {}

Looked(key) == Ancestors(key)

\* validate_relative_path: the bytes are those of the parts, with a separator each.
PathBytes(path) == FoldLeft(LAMBDA n, part : n + PartBytes[part] + 1, 0, path)
ValidSelector(path) ==
    /\ path # <<>> /\ Range(path) \cap BadPart = {}
    /\ Len(path) <= MaxSelectedDepth /\ PathBytes(path) <= MaxSelectedBytes

Selected(paths) ==
    LET keys == {Key(paths[i]) : i \in 1..Len(paths)}
    IN  IF /\ paths # <<>> /\ Len(paths) <= MaxSelected
           /\ \A i \in 1..Len(paths) : ValidSelector(paths[i])
           /\ Cardinality(keys) = Len(paths)
           /\ \A k \in keys : Looked(k) \cap keys = {}
        THEN Range(paths) ELSE Nothing

Select ==
    /\ question.kind = "select"
    /\ answer' = Selected(question.paths)
    /\ UNCHANGED length

-----------------------------------------------------------------------------
\* The name of an archive is a sequence of parts between dots.
Ends(name, extension) == Len(name) > Len(extension) /\ IsSuffix(extension, name)
Stripped(name, extension) == SubSeq(name, 1, Len(name) - Len(extension))
Longer(name, extension) == Ends(name, extension) /\ Stripped(name, extension) # <<"">>

SafeName(name) == Range(name) \cap BadPart = {} /\ Last(name) # "" /\ name[1] \notin Device
SafeBase(name) == IF SafeName(name) THEN name ELSE <<"archive">>
Stem(name) == IF Len(name) = 1 \/ Front(name) = <<"">> THEN name ELSE Front(name)

BaseName(name) ==
    LET compound == {e \in BaseCompound : Longer(name, e)}
    IN  SafeBase(IF compound # {} THEN Stripped(name, CHOOSE e \in compound : TRUE) ELSE Stem(name))

\* raw_stream_contract: which filter, if any.
RawFilter(name) ==
    IF \E e \in RawCompound : Ends(name, e) THEN Nothing
    ELSE LET found == {e \in RawExtension : Longer(name, e)}
         IN  IF found = {} THEN Nothing ELSE CHOOSE e \in found : TRUE

\* smart_destination: the first of the names that is not taken.
Destination(taken) == LET free == 0..(MaxIndex - 1) \ taken IN IF free = {} THEN -1 ELSE Min(free)

NameOutput ==
    /\ question.kind = "name"
    /\ answer' = [base |-> BaseName(question.name), filter |-> RawFilter(question.name),
                  index |-> Destination(question.taken)]
    /\ UNCHANGED length

-----------------------------------------------------------------------------
Init ==
    /\ question \in Questions
    /\ answer = Pending
    /\ length = IF question.kind = "record" THEN question.body + 2 ELSE 0

Next ==
    /\ answer = Pending
    /\ Encode \/ AdjustLength \/ Parse \/ Transport \/ Select \/ NameOutput
    /\ UNCHANGED question

Spec == Init /\ [][Next]_formatVars

-----------------------------------------------------------------------------
\* What the constants must be.  The lengths of PAX records have up to ten digits; the
\* extensions of streams are single, and those of archives in them are known to both.
List(s) == s \in Seq(Range(s))
Asked(q) ==
    CASE q.kind = "command" -> List(q.arguments) /\ \A i \in 1..Len(q.arguments) : List(q.arguments[i])
      [] q.kind = "record" -> q.body \in Nat /\ q.body < 10^9
      [] q.kind = "bytes" -> q.text.count \in Nat /\ q.text.unit \in 0..4
      [] q.kind = "password" -> List(q.units) /\ Append(q.units, "cr") # Nothing
      [] q.kind = "select" ->
            /\ List(q.paths) /\ Range(q.paths) # Nothing
            /\ \A i \in 1..Len(q.paths) : /\ List(q.paths[i])
                                        /\ Range(q.paths[i]) \subseteq DOMAIN Fold \cap DOMAIN PartBytes
      [] q.kind = "name" -> List(q.name) /\ q.name # <<>>
      [] OTHER -> FALSE
FormatConstants ==
    /\ {MaxCommandUnits, MaxPassword, MaxNumber, MaxSelected, MaxSelectedDepth, MaxSelectedBytes,
        MaxIndex} \subseteq Nat
    /\ Kilo \in Nat /\ Kilo > 1
    /\ \A q \in Questions : Asked(q)
    /\ "archive" \notin BadPart \cup Device
    /\ \A e \in RawCompound \cup RawExtension \cup BaseCompound : List(e) /\ e # <<>>
    /\ \A e \in RawExtension : Len(e) = 1 /\ e # Nothing
    /\ \A e \in BaseCompound : e \in RawCompound \/ <<Last(e)>> \notin RawExtension

-----------------------------------------------------------------------------
\* What one side writes the other one reads as it was meant, and what a reader
\* would refuse is not written: the arguments of a process, the length of a PAX
\* record (the least one that counts its own digits), a limit that the form shows
\* and saves again, and the one-use password, up to the last byte of its limit.
RoundTrips(q, a) ==
    CASE q.kind = "command" -> a # Nothing => Split(a) = <<<<"x">>>> \o q.arguments
      [] q.kind = "record" -> /\ a = Adjusted(q.body, a)
                              /\ \A n \in q.body..(a - 1) : n # Adjusted(q.body, n)
      [] q.kind = "bytes" ->
            LET n == q.text.count * Multiplier(q.text.unit)
            IN  IF n \in 1..MaxNumber THEN a = n /\ Parsed(Formatted(a)) = a ELSE a = Nothing
      [] q.kind = "password" -> IF a = Nothing THEN Received(Append(q.units, "cr")) = Nothing
                                ELSE Received(a) = q.units
      [] OTHER -> TRUE
FormatsRoundTrip == answer # Pending => RoundTrips(question, answer)

\* The names that the program makes or accepts: selected paths are accepted exactly
\* if each is one that the policy accepts, in its parts, its depth and its bytes, and
\* no two of them are one path or lie in one another on a volume without case;
\* the name made of an archive's is one that the policy accepts, a stream loses
\* only its extension, and the destination is the first that is free.
Overlap(p, q) == IsPrefix(Key(p), Key(q))
Named(q, a) ==
    CASE q.kind = "select" ->
            (a # Nothing) <=>
                /\ Len(q.paths) \in 1..MaxSelected
                /\ \A i \in 1..Len(q.paths) : /\ Len(q.paths[i]) \in 1..MaxSelectedDepth
                                              /\ Range(q.paths[i]) \cap BadPart = {}
                                              /\ PathBytes(q.paths[i]) <= MaxSelectedBytes
                /\ \A i, j \in 1..Len(q.paths) : i # j => ~Overlap(q.paths[i], q.paths[j])
      [] q.kind = "name" ->
            /\ SafeName(a.base)
            /\ a.filter # Nothing => a.base = <<"archive">> \/ a.base \o a.filter = q.name
            /\ \A i \in 0..(MaxIndex - 1) : a.index = i <=> i \notin q.taken /\ 0..(i - 1) \subseteq q.taken
      [] OTHER -> TRUE
NamesAreExact == answer # Pending => Named(question, answer)
=============================================================================
