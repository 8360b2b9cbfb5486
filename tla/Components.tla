----------------------------- MODULE Components -----------------------------
(***************************************************************************)
(* Six components that share no state and need no fairness, side by side:  *)
(*   form      SettingsWindow     any number of windows over one file      *)
(*   view      SettingsScroll     the inside of one window                 *)
(*   walk      TreeWalk           what reads a tree while it changes       *)
(*   reader    SandboxReader      the two children that read an archive    *)
(*   format    Formats            what is written to be read elsewhere     *)
(*   evidence  EvidenceDocuments  the documents beside a backend           *)
(* Each behaviour is one of one of them, while the others are away.        *)
(***************************************************************************)
EXTENDS Naturals

CONSTANT Away
CONSTANTS Window, Field, Value, Text, Typed, Shows, ReadAs, Invalid, Default, Missing, Broken,
          Nobody, MaxChanges
CONSTANTS Control, Layout, Content, Dpis, Page, Thumb, NoControl, MaxMessages
CONSTANTS TreePath, Trees, Forms, Absent, TreeSelections, BadName, NameBytes, Linked,
          MaxTreeFiles, MaxTreeDirectories, MaxTreeBytes, MaxTreePathBytes, MaxTreeChanges
CONSTANTS Archives, Candidates, Base, StrayPaths, BadPart, Lower, Volume, Length,
          MaxFiles, MaxDirectories, MaxTotalBytes, MaxSingleFileBytes, MaxDepth, MaxPathBytes,
          MaxListingBytes
CONSTANTS Questions, Nothing, Pending, MaxCommandUnits, MaxPassword, Kilo, MaxNumber, MaxSelected,
          MaxSelectedDepth, MaxSelectedBytes, PartBytes,
          MaxIndex, Fold, BadNamePart, Device, RawCompound, RawExtension, BaseCompound
CONSTANTS Directories, MaxPackages, MaxEvidenceFiles, Local, Before, Documents

VARIABLES
    half,      \* the component of the behaviour
    file, aside, saver, phase, form, saved, marked, probe, edited, changes,
    dpi, page, scroll, bar, place, focus, failed, messages, updating, heights, relayout,
    interrupted,
    tree, job, selection, stage, stack, current, pending, seen, found, todo, read, kept, result,
    status, versions, disturbances,
    archive, candidates, pass, step, library, position, aliases, chain, chunks, target, counted,
    listing, output, payload, stuck, strays,
    question, answer, length,
    directory, verdict

formVars == <<file, aside, saver, phase, form, saved, marked, probe, edited, changes>>
viewVars == <<dpi, page, scroll, bar, place, focus, failed, messages, updating, heights, relayout,
              interrupted>>
walkVars == <<tree, job, selection, stage, stack, current, pending, seen, found, todo, read, kept,
              result, status, versions, disturbances>>
readerVars == <<archive, candidates, pass, step, library, position, aliases, chain, chunks, target,
                counted, listing, output, payload, stuck, strays>>
formatVars == <<question, answer, length>>
evidenceVars == <<directory, verdict>>
vars == <<half, formVars, viewVars, walkVars, readerVars, formatVars, evidenceVars>>

-----------------------------------------------------------------------------
Form == INSTANCE SettingsWindow

View == INSTANCE SettingsScroll

Walk == INSTANCE TreeWalk WITH
            Path <- TreePath, Selections <- TreeSelections,
            MaxFiles <- MaxTreeFiles, MaxDirectories <- MaxTreeDirectories,
            MaxTotalBytes <- MaxTreeBytes, MaxPathBytes <- MaxTreePathBytes,
            MaxChanges <- MaxTreeChanges,
            counted <- seen, changes <- disturbances

R == INSTANCE SandboxReader WITH phase <- step

Format == INSTANCE Formats WITH BadPart <- BadNamePart

Evidence == INSTANCE EvidenceDocuments

-----------------------------------------------------------------------------
\* A component that is away.
NoForm ==
    /\ file = Away /\ aside = Away /\ saver = Away /\ phase = Away /\ form = Away
    /\ saved = Away /\ marked = Away /\ probe = Away /\ edited = Away /\ changes = Away
NoView ==
    /\ dpi = Away /\ page = Away /\ scroll = Away /\ bar = Away /\ place = Away /\ focus = Away
    /\ failed = Away /\ messages = Away /\ updating = Away /\ heights = Away /\ relayout = Away
    /\ interrupted = Away
NoWalk ==
    /\ tree = Away /\ job = Away /\ selection = Away /\ stage = Away /\ stack = Away
    /\ current = Away /\ pending = Away /\ seen = Away /\ found = Away /\ todo = Away
    /\ read = Away /\ kept = Away /\ result = Away /\ status = Away /\ versions = Away
    /\ disturbances = Away
NoReader ==
    /\ archive = Away /\ candidates = Away /\ pass = Away /\ step = Away /\ library = Away
    /\ position = Away /\ aliases = Away /\ chain = Away /\ chunks = Away /\ target = Away
    /\ counted = Away /\ listing = Away /\ output = Away /\ payload = Away /\ stuck = Away
    /\ strays = Away
NoFormat == question = Away /\ answer = Away /\ length = Away
NoEvidence == directory = Away /\ verdict = Away

Init ==
    \/ half = "form" /\ Form!Init /\ NoView /\ NoWalk /\ NoReader /\ NoFormat /\ NoEvidence
    \/ half = "view" /\ View!Init /\ NoForm /\ NoWalk /\ NoReader /\ NoFormat /\ NoEvidence
    \/ half = "walk" /\ Walk!Init /\ NoForm /\ NoView /\ NoReader /\ NoFormat /\ NoEvidence
    \/ half = "reader" /\ R!Init /\ NoForm /\ NoView /\ NoWalk /\ NoFormat /\ NoEvidence
    \/ half = "format" /\ Format!Init /\ NoForm /\ NoView /\ NoWalk /\ NoReader /\ NoEvidence
    \/ half = "evidence" /\ Evidence!Init /\ NoForm /\ NoView /\ NoWalk /\ NoReader /\ NoFormat

Next ==
    /\ UNCHANGED half
    /\ \/ half = "form" /\ Form!Next
          /\ UNCHANGED <<viewVars, walkVars, readerVars, formatVars, evidenceVars>>
       \/ half = "view" /\ View!Next
          /\ UNCHANGED <<formVars, walkVars, readerVars, formatVars, evidenceVars>>
       \/ half = "walk" /\ Walk!Next
          /\ UNCHANGED <<formVars, viewVars, readerVars, formatVars, evidenceVars>>
       \/ half = "reader" /\ R!Next
          /\ UNCHANGED <<formVars, viewVars, walkVars, formatVars, evidenceVars>>
       \/ half = "format" /\ Format!Next
          /\ UNCHANGED <<formVars, viewVars, walkVars, readerVars, evidenceVars>>
       \/ half = "evidence" /\ Evidence!Next
          /\ UNCHANGED <<formVars, viewVars, walkVars, readerVars, formatVars>>

Spec == Init /\ [][Next]_vars

-----------------------------------------------------------------------------
\* SettingsWindow.TitleIsTrue: the * in the title tells of unsaved changes.
TitleIsTrue == half = "form" => Form!TitleIsTrue

\* SettingsWindow.OnlyEditsAreSaved: a save leaves the rest as it is read.
OnlyEditsAreSaved == [][half = "form" => Form!EditsAlone]_vars

\* SettingsScroll.ControlsFollowScroll: controls and bars are where the position says.
ControlsFollowScroll == half = "view" => View!ControlsFollowScroll

\* SettingsScroll.FocusIsVisible: a queued message leaves the focus in view.
FocusIsVisible ==
    [][half = "view" /\ (View!QueuedMessage \/ View!Wheel) => View!FocusInView']_vars

\* TreeWalk.QuietTreesAreJudgedExactly: a tree at rest is accepted if within its limits.
QuietTreesAreJudgedExactly == half = "walk" => Walk!QuietTreesAreJudgedExactly

\* TreeWalk.StableEntriesAreSeen: what does not change is not missed.
StableEntriesAreSeen == half = "walk" => Walk!StableEntriesAreSeen

\* TreeWalk.DeliveredIsFingerprinted: what is delivered is of one tree.
DeliveredIsFingerprinted == half = "walk" => Walk!DeliveredIsFingerprinted

\* SandboxReader.OutputWithinLimits: an output never outgrows its limits.
OutputWithinLimits == half = "reader" => R!OutputWithinLimits

\* SandboxReader.OutputIsTheArchive: each member is delivered, and nothing else.
OutputIsTheArchive == half = "reader" => R!OutputIsTheArchive

\* SandboxReader.NoTornStream: a failed stream leaves nothing of its own.
NoTornStream == half = "reader" => R!NoTornStream

\* Formats.FormatsRoundTrip: what one side writes the other one reads.
FormatsRoundTrip == half = "format" => Format!FormatsRoundTrip

\* Formats.NamesAreExact: selections are not ambiguous, made names are valid and free.
NamesAreExact == half = "format" => Format!NamesAreExact

\* EvidenceDocuments.EvidenceIsExact: accepted documents agree, imported ones are accepted.
EvidenceIsExact == half = "evidence" => Evidence!EvidenceIsExact
=============================================================================
