--------------------------- MODULE SandboxReader ---------------------------
(***************************************************************************)
(* The archive reader that runs inside the sandbox: this program again, as *)
(* a child of its own, with the libarchive of the verified backend.  One   *)
(* child lists the archive, the parent checks the listing, and a second    *)
(* child extracts it:                                                      *)
(*   members  write_utf8_archive_listing, then extract_password_archive    *)
(*   raw      process_raw_archive twice, without and with an output        *)
(* The two read the same file; what the library answers for it is the same *)
(* both times, except that any call of it or of the system may fail.  A    *)
(* child that is killed stays in the state in which it was.                *)
(*                                                                         *)
(* A name is a sequence of parts.  The program compares names in lower     *)
(* case, the volume by its own table: paths of the output are folded by    *)
(* Volume, aliases by Lower.                                               *)
(***************************************************************************)
EXTENDS Naturals, Sequences, FiniteSets, SequencesExt, FiniteSetsExt

CONSTANTS
    Archives,          \* sequences of members, or a stream
    Candidates,        \* sequences of the DLLs of a backend
    Base,              \* the name of the archive without its extension
    StrayPaths,        \* where another program may create a file meanwhile
    BadPart,           \* the components that validate_component rejects
    Lower, Volume,     \* part -> its lower case, and what the volume makes of it
    Length,            \* part -> its bytes
    MaxFiles, MaxDirectories, MaxTotalBytes, MaxSingleFileBytes, MaxDepth,
    MaxPathBytes,
    MaxListingBytes    \* MAX_INTERNAL_LISTING_BYTES

\* What the constants must be; AppConfig::validate refuses a limit of zero and a
\* single-file limit above the total.
ReaderConstants ==
    /\ {MaxFiles, MaxDirectories, MaxTotalBytes, MaxSingleFileBytes, MaxDepth, MaxPathBytes,
        MaxListingBytes} \subseteq Nat \ {0}
    /\ MaxSingleFileBytes <= MaxTotalBytes
    /\ Candidates \subseteq Seq({"complete", "partial", "unloadable"})
    /\ \A a \in Archives :
          \/ /\ a.kind = "raw" /\ a.chunks \in Seq(Nat)
             /\ a.name.parts \in Seq(Range(a.name.parts))
          \/ /\ a.kind = "members" /\ a.members \in Seq(Range(a.members))
             /\ \A i \in 1..Len(a.members) :
                   LET m == a.members[i]
                   IN  m.chunks \in Seq(Nat) /\ m.name.parts \in Seq(Range(m.name.parts))

VARIABLES
    archive,
    candidates,
    pass,       \* "list" or "extract"
    phase,      \* what the child, or then the parent, does next
    library,    \* the candidate that is loaded, 0 for none
    position,   \* the members that were read
    aliases,    \* their names in lower case
    chain,      \* the directories that are still to be created
    chunks,     \* the data of the member that is still to come
    target,     \* the path that is written
    counted,    \* the counters of the pass
    listing,    \* the names that the first child prints
    output,     \* the output directory: path -> what is there
    payload,    \* the directory that is published
    stuck,      \* history: a clean-up has failed
    strays      \* history: what another program has put into the output

parentVars == <<archive, candidates, pass, payload, strays>>
readVars == <<library, position, aliases, chain, chunks, target>>
vars == <<parentVars, phase, readVars, counted, listing, output, stuck>>

-----------------------------------------------------------------------------
Raw == archive.kind = "raw"
Members == archive.members
Member == Members[position]
Zero == [files |-> 0, directories |-> 0, member |-> 0, total |-> 0, entries |-> 0, listed |-> 0]

Folded(parts, fold) == [i \in 1..Len(parts) |-> fold[parts[i]]]
Path(parts) == Folded(parts, Volume)
Steps(path) == [n \in 1..Len(path) |-> SubSeq(path, 1, n)]
Exists(path) == path \in DOMAIN output

\* The bytes of a name, with its separators and with a last one if it has that.
Bytes(name) == FoldLeft(LAMBDA n, part : n + Length[part], Len(name.parts) - 1, name.parts)
               + (IF name.slash THEN 1 ELSE 0)

\* What bounded_c_bytes and from_utf8 deliver at all.
Readable(name) == name.form = "text" /\ name.parts # <<>> /\ Bytes(name) <= MaxPathBytes

\* validate_archive_member_name; an empty or absolute name, a drive and a root
\* have an empty part or one with a colon.
ValidMemberName(name) ==
    /\ Range(name.parts) \cap BadPart = {}
    /\ Len(name.parts) <= MaxDepth
    /\ Bytes([name EXCEPT !.slash = FALSE]) < MaxPathBytes

AliasKey(name) == Folded(name.parts, Lower)

\* validate_archive_listing, of the names of a listing.
ValidListing(names) ==
    /\ Len(names) <= MaxFiles + MaxDirectories
    /\ \A i \in 1..Len(names) : ValidMemberName(names[i])
    /\ \A i, j \in 1..Len(names) : AliasKey(names[i]) = AliasKey(names[j]) => i = j

Put(path, entry) == [p \in DOMAIN output \cup {path} |-> IF p = path THEN entry ELSE output[p]]
New(kind) == [kind |-> kind, bytes |-> 0, by |-> "child"]

-----------------------------------------------------------------------------
Init ==
    /\ archive \in Archives
    /\ candidates \in Candidates
    /\ pass = "list" /\ phase = "check" /\ library = 0
    /\ position = 0 /\ aliases = {} /\ chain = <<>> /\ chunks = <<>> /\ target = <<>>
    /\ counted = Zero /\ listing = <<>>
    /\ output = [p \in {} |-> New("file")]
    /\ payload = <<>> /\ stuck = FALSE /\ strays = {}

\* An operation that returns an error goes on to its clean-up.
Fail == phase' = "failing"

\* Any call of the library or of the system.
CallFails ==
    /\ phase \in {"check", "candidates", "load", "open", "header", "stream", "skip", "directories",
                 "create", "data", "final"}
    /\ Fail
    /\ UNCHANGED <<parentVars, readVars, counted, listing, output, stuck>>

\* stage_archive checks the name of a stream before there is a child.
RawContract == Bytes(archive.name) < MaxPathBytes
RawPathsOK == Len(archive.name.parts) = 1 /\ Range(archive.name.parts) \cap BadPart = {}
EmptyOutput == pass = "extract" => DOMAIN output = {}

\* The password extraction wants an empty output, a stream does not.
Check ==
    /\ phase = "check"
    /\ IF (IF Raw THEN RawContract /\ RawPathsOK ELSE EmptyOutput)
       THEN phase' = "candidates" ELSE Fail
    /\ UNCHANGED <<parentVars, readVars, counted, listing, output, stuck>>

ReadCandidates ==
    /\ phase = "candidates"
    /\ IF candidates = <<>> THEN Fail ELSE phase' = "load"
    /\ UNCHANGED <<parentVars, readVars, counted, listing, output, stuck>>

\* ArchiveApi::load: the first DLL that exports the whole interface.
Load ==
    /\ phase = "load"
    /\ LET complete == {i \in 1..Len(candidates) : candidates[i] = "complete"}
       IN  IF complete = {} THEN Fail /\ UNCHANGED library
           ELSE library' = Min(complete) /\ phase' = "open"
    /\ UNCHANGED <<parentVars, position, aliases, chain, chunks, target, counted, listing, output, stuck>>

Open ==
    /\ phase = "open"
    /\ phase' = IF Raw THEN "stream" ELSE "header"
    /\ UNCHANGED <<parentVars, readVars, counted, listing, output, stuck>>

-----------------------------------------------------------------------------
\* The end of the members: ARCHIVE_EOF.
LastHeader ==
    /\ phase = "header" /\ position = Len(Members)
    /\ phase' = "ended"
    /\ UNCHANGED <<parentVars, readVars, counted, listing, output, stuck>>

MoreMembers == phase = "header" /\ position < Len(Members) /\ position' = position + 1

\* list_archive: one line for each member.
ListMember ==
    /\ pass = "list" /\ MoreMembers
    /\ LET name == Members[position + 1].name
           c == [counted EXCEPT !.entries = @ + 1, !.listed = @ + Bytes(name) + 1]
       IN  IF /\ c.entries <= MaxFiles + MaxDirectories + 1
              /\ Readable(name)
              /\ "line break" \notin Range(name.parts)
              /\ c.listed <= MaxListingBytes
           THEN counted' = c /\ listing' = Append(listing, name) /\ phase' = "skip"
           ELSE Fail /\ UNCHANGED <<counted, listing>>
    /\ UNCHANGED <<parentVars, library, aliases, chain, chunks, target, output, stuck>>

Skip ==
    /\ phase = "skip"
    /\ phase' = "header"
    /\ UNCHANGED <<parentVars, readVars, counted, listing, output, stuck>>

\* validated_member_path, without its aliases.
MemberPathOK(member) ==
    /\ Readable(member.name)
    /\ ValidMemberName(member.name)
    /\ member.name.slash => member.kind = "dir"

\* The header of a member in extract_archive_entries.
ExtractMember ==
    /\ pass = "extract" /\ MoreMembers
    /\ LET m == Members[position + 1]
           path == Path(m.name.parts)
           files == counted.files + (IF m.kind = "file" THEN 1 ELSE 0)
       IN  IF /\ MemberPathOK(m)
              /\ AliasKey(m.name) \notin aliases
              /\ ~m.hardlink
              /\ m.kind \in {"file", "dir"}
              /\ files <= MaxFiles
              /\ m.kind = "file" => m.declared <= MaxSingleFileBytes
           THEN /\ aliases' = aliases \cup {AliasKey(m.name)}
                /\ counted' = [counted EXCEPT !.files = files, !.member = 0]
                /\ target' = path
                /\ chain' = Steps(IF m.kind = "dir" THEN path ELSE Front(path))
                /\ chunks' = m.chunks
                /\ phase' = "directories"
           ELSE Fail /\ UNCHANGED <<aliases, counted, target, chain, chunks>>
    /\ UNCHANGED <<parentVars, library, listing, output, stuck>>

\* ensure_directory_chain: created first, counted then; what is there must be a
\* directory.
EnsureDirectory ==
    /\ phase = "directories" /\ chain # <<>>
    /\ LET c == [counted EXCEPT !.directories = @ + 1]
       IN  IF ~Exists(Head(chain))
           THEN /\ output' = Put(Head(chain), New("dir"))
                /\ counted' = c
                /\ IF c.directories <= MaxDirectories
                   THEN chain' = Tail(chain) /\ UNCHANGED phase
                   ELSE Fail /\ UNCHANGED chain
           ELSE /\ IF output[Head(chain)].kind = "dir"
                   THEN chain' = Tail(chain) /\ UNCHANGED phase
                   ELSE Fail /\ UNCHANGED chain
                /\ UNCHANGED <<output, counted>>
    /\ UNCHANGED <<parentVars, library, position, aliases, chunks, target, listing, stuck>>

ChainComplete ==
    /\ phase = "directories" /\ chain = <<>>
    /\ phase' = IF Member.kind = "dir" THEN "skip" ELSE "create"
    /\ UNCHANGED <<parentVars, readVars, counted, listing, output, stuck>>

\* A fault: File::create, which truncates.
CreatableAnyway(path) == Exists(path) => output[path].kind = "file"

\* create_new, never the file that is there.
Creatable(path) == ~Exists(path)

CreateTarget ==
    /\ phase = "create"
    /\ IF Creatable(target)
       THEN output' = Put(target, New("file")) /\ phase' = "data"
       ELSE Fail /\ UNCHANGED output
    /\ UNCHANGED <<parentVars, readVars, counted, listing, stuck>>

\* A fault: the limit of one member is forgotten.
WithinTotal(c) == c.total <= MaxTotalBytes

\* The limits are checked after a chunk was read and before it is written.
WithinLimits(c) ==
    IF Raw THEN c.total <= MaxSingleFileBytes
    ELSE c.member <= MaxSingleFileBytes /\ c.total <= MaxTotalBytes

ReadData ==
    /\ phase = "data" /\ chunks # <<>>
    /\ LET n == Head(chunks)
           c == [counted EXCEPT !.member = @ + n, !.total = @ + n]
       IN  IF WithinLimits(c)
           THEN /\ counted' = c
                /\ chunks' = Tail(chunks)
                /\ output' = IF pass = "extract" THEN [output EXCEPT ![target].bytes = @ + n]
                             ELSE output
                /\ UNCHANGED phase
           ELSE Fail /\ UNCHANGED <<counted, chunks, output>>
    /\ UNCHANGED <<parentVars, library, position, aliases, chain, target, listing, stuck>>

DataComplete ==
    /\ phase = "data" /\ chunks = <<>>
    /\ phase' = IF Raw THEN "final" ELSE "header"
    /\ UNCHANGED <<parentVars, readVars, counted, listing, output, stuck>>

-----------------------------------------------------------------------------
\* read_raw_archive: one stream of the expected filter, in the raw format.
RawHeader ==
    /\ phase = "stream"
    /\ IF archive.filter = "expected" /\ archive.format = "raw"
       THEN /\ phase' = IF pass = "extract" THEN "create" ELSE "data"
            /\ target' = Path(archive.name.parts)
            /\ chunks' = archive.chunks
       ELSE Fail /\ UNCHANGED <<target, chunks>>
    /\ UNCHANGED <<parentVars, library, position, aliases, chain, counted, listing, output, stuck>>

RawFinal ==
    /\ phase = "final"
    /\ IF archive.extra THEN Fail /\ UNCHANGED listing
       ELSE /\ phase' = "ended"
            /\ listing' = IF pass = "list" THEN <<archive.name>> ELSE listing
    /\ UNCHANGED <<parentVars, readVars, counted, output, stuck>>

\* A fault: whatever is at the target.
CreatedOrFound == IF Raw /\ pass = "extract" THEN {p \in {target} : Exists(p)} ELSE {}

\* What this child has created and its clean-up removes.
Created == IF Raw /\ pass = "extract" THEN {p \in {target} : Exists(p) /\ output[p].by = "child"}
           ELSE {}

\* A failed operation, or a close or free that fails: a raw output is removed,
\* and an error of that is ignored.
CleanUp ==
    /\ phase \in {"failing", "ended"}
    /\ phase' = "failed"
    /\ \/ output' = [p \in DOMAIN output \ Created |-> output[p]] /\ UNCHANGED stuck
       \/ Created # {} /\ stuck' = TRUE /\ UNCHANGED output
    /\ library' = 0
    /\ UNCHANGED <<parentVars, position, aliases, chain, chunks, target, counted, listing>>

Close ==
    /\ phase = "ended"
    /\ phase' = "exited"
    /\ library' = 0
    /\ UNCHANGED <<parentVars, position, aliases, chain, chunks, target, counted, listing, output, stuck>>

-----------------------------------------------------------------------------
\* The parent: the names that were listed, then the second child with a fresh
\* output directory.
CheckListing ==
    /\ phase = "exited" /\ pass = "list"
    /\ IF ValidListing(listing)
       THEN /\ pass' = "extract" /\ phase' = "check"
            /\ position' = 0 /\ counted' = Zero
       ELSE phase' = "failed" /\ UNCHANGED <<pass, position, counted>>
    /\ UNCHANGED <<archive, candidates, payload, strays, library, aliases, chain, chunks, target, listing, output, stuck>>

\* choose_payload_root: a single directory that is named like the archive is
\* published without itself.
ChoosePayload ==
    /\ phase = "exited" /\ pass = "extract"
    /\ phase' = "done"
    /\ LET top == {p \in DOMAIN output : Len(p) = 1}
       IN  payload' = IF \E p \in top : top = {p} /\ output[p].kind = "dir" /\ p = <<Base>>
                      THEN <<Base>> ELSE <<>>
    /\ UNCHANGED <<archive, candidates, pass, strays, readVars, counted, listing, output, stuck>>

\* Another program puts a file where there is none.
Stray ==
    /\ pass = "extract" /\ phase \notin {"failed", "done"} /\ strays = {}
    /\ \E p \in StrayPaths :
          /\ ~Exists(p)
          /\ Len(p) > 1 => Exists(Front(p)) /\ output[Front(p)].kind = "dir"
          /\ output' = Put(p, [kind |-> "file", bytes |-> 0, by |-> "other"])
          /\ strays' = {p}
    /\ UNCHANGED <<archive, candidates, pass, payload, phase, readVars, counted, listing, stuck>>

Next ==
    \/ CallFails \/ Check \/ ReadCandidates \/ Load \/ Open
    \/ LastHeader \/ ListMember \/ Skip \/ ExtractMember \/ EnsureDirectory \/ ChainComplete
    \/ CreateTarget \/ ReadData \/ DataComplete \/ RawHeader \/ RawFinal
    \/ CleanUp \/ Close \/ CheckListing \/ ChoosePayload \/ Stray

Spec == Init /\ [][Next]_vars

-----------------------------------------------------------------------------
TypeOK ==
    /\ pass \in {"list", "extract"}
    /\ library \in 0..Len(candidates)
    /\ \A p \in DOMAIN output : output[p].kind \in {"file", "dir"} /\ output[p].by \in {"child", "other"}
    /\ Raw => aliases = {} /\ chain = <<>>

\* Whatever the archive holds and whatever fails: at no time is there more in the
\* output than the limits allow, but for one directory, which is created before
\* it is counted (ensure_directory_chain).
Ours == {p \in DOMAIN output : output[p].by = "child"}
OurFiles == {p \in Ours : output[p].kind = "file"}
EntriesWithinLimits ==
    /\ Cardinality(OurFiles) <= MaxFiles
    /\ Cardinality(Ours \ OurFiles) <= MaxDirectories + 1
    /\ \A p \in OurFiles : output[p].bytes <= MaxSingleFileBytes
    /\ phase = "done" => Cardinality(Ours \ OurFiles) <= MaxDirectories
OutputWithinLimits ==
    /\ EntriesWithinLimits
    /\ MapThenSumSet(LAMBDA p : output[p].bytes, OurFiles) <= MaxTotalBytes

\* What an extraction delivers that nobody else has touched: each member is there
\* under its own name with all its data (those of a directory are skipped), also if
\* the volume takes two names for one that differ in lower case; there is nothing
\* else but the directories above them; the parent has accepted the listing of the
\* same members, and what it publishes leaves nothing out.
Delivered(m) == LET p == Path(m.name.parts)
                IN  /\ Exists(p) /\ output[p].kind = m.kind
                    /\ output[p].bytes = IF m.kind = "file"
                                         THEN FoldLeft(LAMBDA n, c : n + c, 0, m.chunks) ELSE 0
OutputIsTheArchive ==
    phase = "done" /\ strays = {} =>
        LET members == IF Raw THEN <<[name |-> archive.name, kind |-> "file", chunks |-> archive.chunks]>>
                       ELSE Members
            named == {Path(members[i].name.parts) : i \in 1..Len(members)}
        IN  /\ listing = [i \in 1..Len(members) |-> members[i].name]
            /\ \A i \in 1..Len(members) : Delivered(members[i])
            /\ \A i, j \in 1..Len(members) :
                  members[i].kind = "file" /\ Path(members[i].name.parts) = Path(members[j].name.parts)
                  => i = j
            /\ DOMAIN output = UNION {Range(Steps(p)) : p \in named}
            /\ \A p \in DOMAIN output : IsPrefix(payload, p)

\* A raw stream that failed leaves no output, unless its removal failed as well;
\* and what somebody else has put into the directory is never written or removed.
NoTornStream ==
    /\ Raw /\ phase = "failed" /\ ~stuck => Ours = {}
    /\ \A p \in strays : Exists(p) /\ output[p] = [kind |-> "file", bytes |-> 0, by |-> "other"]
=============================================================================
