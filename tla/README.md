# A TLA+ model of iroha-zip

iroha-zip extracts and creates archives on Windows by running a pinned `bsdtar`
inside a throw-away AppContainer and by trusting nothing that comes back from it.
This directory models the parts of the program that change state, checks them
with TLC on small instances, and proves the most important results with TLAPS
for every value of the constants. Paths below are relative to the repository.

## 1. The system

One operation of the program is one process (`src/main.rs`, the shell entry
`src/bin/iroha-zip-shell.rs`) or one thread of the settings window. What makes
the program concurrent is the rest of the machine: the backend process it
started, other operations of the same user, other programs that write to the
same directories, scanners, the clock, and the crash.

| Component | State it keeps | Operations | Used by |
|---|---|---|---|
| commit (`transfer.rs`) | the partial directory, the audits, the destination | `commit_tree`, `fingerprint_tree`, `copy_audited_tree` | extraction |
| configuration (`config.rs`, mutex in `platform/`) | the file, temporary files, recovery backups, the named mutex | `load`, `write_default`, `save` | every operation, settings window |
| creation (`create.rs`, `snapshot.rs`) | the sealed copy, the PAX stream, the archive in the sandbox, the output | `create_archive`, `AuditedFile::open`, `copy_to_new` | command line, shell |
| sandbox (`platform/windows_impl.rs`, `generic.rs`, `monitor.rs`) | profile, storage, source directory, job, child, password pipe | `Sandbox::new`, `run`, `cleanup`, drop | staging, creation, doctor |
| staging and extraction (`staging.rs`, `extract.rs`) | the snapshot of the input, the workspace in the sandbox | `stage_archive`, `extract`, `finish`, `fail` | extraction, preview, verification of a creation |
| backend bundle (`backend.rs`, `backend_evidence.rs`) | the installed files, their manifest and evidence documents | `verify`, `copy_verified_to` | staging, creation, doctor |
| backend import (`scripts/install-backend.ps1`) | stage, backup, installed tree | one import | settings window, user |
| tree readers (`policy.rs`, `monitor.rs`, `pax.rs`, `preview.rs`, `selection.rs`) | a stack of open directories, counters, two fingerprints | `audit_tree`, `check_resource_limits`, `write_tree_archive`, `preview`, `materialize_selection` | sandbox, extraction, creation |
| reader in the sandbox (`platform/libarchive_windows.rs`) | the library, the members read so far, what it has written | listing, extraction with a password, raw stream | staging |
| formats (`windows_command_line.rs`, `password.rs`, `settings.rs`, `util.rs`, …) | none | quoting, lengths, byte counts, selectors, names | all |
| settings window (`bin/iroha-zip-settings.rs`, `settings.rs`) | the form, the configuration it loaded, scroll position, focus | load, edit, save, import, doctor; scroll, resize, DPI change | user |
| command line, isolation measurement, release scripts, tests | — | — | — |

How they interact: `extract` opens and hashes the user's file (snapshot), makes a
sandbox, copies the verified backend and the archive into it and seals both, runs
the listing process, validates its output, makes a fresh output directory, runs
the extracting process, audits the result, perhaps copies a selection, and hands
the tree to `commit_tree`, which copies it beside the destination, audits the
copy, marks it, offers it to the attachment service, audits again and renames it
into place; last, the sandbox is cleaned up. `create_archive` copies and seals the
source, serialises it, runs the backend, extracts the result again in a second
sandbox, compares, and copies the archive to the output. All of them load the
configuration; the settings window saves it.

What is hard in this code, and what makes each component correct:

- **Commit.** Check-then-rename against other commits and programs; a tree that
  changes between an audit and the rename; a handoff that fails for some files.
  Correct if only the audited tree appears, complete, marked, at a name where
  nothing was, and a failure leaves nothing.
- **Configuration.** Two renames with a crash or a failure between them, a first
  run racing a save, an abandoned mutex. Correct if the last configuration in
  force survives everything and only saved configurations are ever loaded.
- **Creation.** A backend that writes anything into the sandbox, an archive
  exchanged after its verification, a long time between the check for the output
  and its creation. Correct if a complete archive at the output extracts to the
  source and nothing of others is removed.
- **Sandbox.** A child that never exits, forks or writes in a burst between two
  samples; a termination slower than the wait for it; partial failures of the
  clean-up; a crash. Correct if nothing executes unverified, the password is used
  once, success means within limits, nothing outlives the operation, and every
  leftover is reported.
- **Staging and extraction.** Two processes of which a hostile archive may own
  either. Correct if the first can leave nothing for the second, only audited
  trees are published, and good archives pass all the checks.
- **Backend and import.** Moves of whole directories with a crash between, two
  imports, an operation that verifies and copies the bundle meanwhile; nothing locks the
  directory. Correct if a copy is one whole bundle, the evidence that was accepted is of
  that bundle, and no import loses the backend.
- **Tree readers.** An entry is renamed, replaced or removed between the reading of its
  directory and of itself. Correct if a quiet tree is judged exactly and an entry that
  does not change is never missed, whatever changes around it.
- **Reader in the sandbox.** Names that are aliases for the program, for the volume or for
  both; a limit that is reached in the middle of a member; any call failing. Correct if the
  output never outgrows the limits and is the archive or is refused.
- **Formats.** What one part writes and another reads, at the boundaries of both.
- **Evidence documents.** Three documents that repeat each other. Correct if an accepted
  set tells one story of the installed files, and what an import writes is accepted.
- **Settings window.** The whole form is written over a file that others write too; messages
  that arrive inside a handler. Correct if only the user's edits change the file, the
  title tells of them, and the controls and the focus are where the scroll position says.

`PROJECT.json` lists every hazard at its line with the properties that would catch
it, and every component with what is left out of it.

## 2. The modules

| Module | Models | Extends / instantiates |
|---|---|---|
| `Publication` | what a publication promises: one decision, one atomic step, over nothing or an empty directory | — |
| `CommitTree` | `commit_tree` | implements `Publication` |
| `ConfigStore` | `Config::load`, `write_default`, `save`, `replace_configuration` | — |
| `ArchiveCreation` | `create_archive`, `AuditedFile` | — |
| `OneUseSecret` | what the password channel promises | — |
| `SandboxRun` | `Sandbox` with its processes | implements `OneUseSecret` |
| `Extraction` | `extract`, `stage_archive` | composed with `Publication` |
| `BackendBundle` | the imports of `install-backend.ps1` and the readers `BackendBundle::verify`, `BackendEvidence::verify`, `copy_verified_to` | — |
| `TreeWalk` | what reads a tree entry by entry: audit, monitor, serialisation, preview, selection | — |
| `SandboxReader` | the child that reads an archive with libarchive, and the parent's check of its listing | — |
| `Formats` | quoting, PAX record length, byte counts, password line, selectors, names | — |
| `EvidenceWriting` | the documents that `New-IrohaZipBackendEvidence` (`backend-evidence.ps1`) writes | — |
| `EvidenceDocuments` | the validation of provenance, SPDX document and license inventory | extends `EvidenceWriting` |
| `SettingsWindow` | the forms of any number of settings windows | — |
| `SettingsScroll` | layout, scrolling, focus and density of one window | — |
| `MC_*` | the instances for TLC | the module they are named after |
| `Components` | `TreeWalk`, `SandboxReader`, `SettingsWindow`, `SettingsScroll`, `Formats` and `EvidenceDocuments` side by side: a behaviour is one of one of them | instantiates these six |
| `MC_Components` | the instance of `Components` | with `MC_Windows`, `MC_Trees`, `MC_Archives`, `MC_FormatInputs`, `MC_Evidence`, which hold their inputs |
| `*Proofs` | the theorems | the module they are named after and TLAPS |
| `ComponentProofs`, `ReaderProofs` | the theorems of the windows, the formats and the documents; of the readers of trees and of archives | `Components` and TLAPS |

**CommitTree.** Each publisher has a source tree, a partial directory, the audits
`audit` and `expected`, and a phase that follows the statements of `commit_tree`:
copy, `build_tree_audit`, `apply_motw_tree`, one `HandoffFile` per file, the second
audit if the policy is enabled, `exists`, `rename`, and the removal after an error.
A tree is a function from paths to entries; an entry has a content, whether it is
still the object that was created (the file identity), and whether it carries the
zone. Another program creates a destination at any moment; a scanner changes the
partial directory in the phases of `TamperPhases`; calls fail and processes die.

**ConfigStore.** `file`, `temp` and `backup` are what is on disk, `lock` is the named
mutex. `current` is a history variable: the configuration in force. The two renames,
the restore and the removal of the backup are separate steps, since a crash can fall
between any two. Only a load needs no mutex, as in the code. A first run fills the file in place, so
a crash leaves a beginning of the default text (`Torn`). Every section and field has a default
(`serde(default)`), so a load of that beginning fails or reads any of `Cut`: the defaults, when the text ends between
fields, or another valid configuration, when it ends in a number (3 of `timeout_seconds = 300`).

**ArchiveCreation.** The copy, the PAX stream and the archive in the sandbox are
contents; an archive also has the time of its last write, which the fingerprint
compares. `BackendMisbehaves` writes what the sandbox lets a backend write, and
`TamperSandbox` does so later. The output is a file with an owner and whether it is
open, because Windows refuses to delete it then (`SharesDelete`).

**SandboxRun.** `disk` holds the four objects an operation leaves on the machine until
it removes them. The parent's program counter follows `Sandbox::new` (with the undoing
of a half-made profile and the fallback), `run_in_appcontainer` / `wait_for_process`
(launch suspended, verify, send, resume, poll, timeout, monitor, final check) and
`cleanup_inner` (profile with its attempts, root, parent directory). The child, its
descendants, the clock and the system's completion of a termination step on their own.
`windows` is chosen at the start; the generic build has its second removal in `drop`.

**Extraction.** The parent's steps are those of `extract` around `stage_archive`. What
is in the sandbox is in `backend`, `archive`, `output` and `selected`; `Misbehave` lets a
process that reads a hostile archive write to all that is not sealed, and to all
of them at any later time when there is no sandbox. `compromised` is a history
variable with the passes in which that happened. The run of a process is abstracted
from `SandboxRun`: it ends, and in an AppContainer it is gone afterwards (`NoOrphan`,
`SuccessIsWithinLimits` and `EverythingEnds` are what this abstraction rests on). The
commit is `Publication!Decide` and `Publication!Publish`: `CommitTree` is checked to
implement them.

**BackendBundle.** A directory is its manifest, its files, the bundle that its evidence
describes, and whether something was moved into it. Each import has a `stage`, a backup
(`aside`) and a phase (`import`) per command of the script: staging from a source that may change
meanwhile, `Test-Path`, the two moves, the removal of the backup, the restore in `catch`,
the clean-up in `finally`. Each reader parses the manifest (`pinned`), compares the
listing, hashes file by file, then reads the three evidence documents one by one, if the
directory `exists()` at that moment, and at last copies file by file against the hashes of
`pinned`. Imports crash and calls fail; another program replaces files.

**TreeWalk.** A job is a sequence of readings (`Stages`): a preview, for instance, is a fingerprint
(itself a listing and a hashing), an inventory, and a second fingerprint. A walk holds a `stack`
of directories that were opened when they were found (`DirectorySnapshot`), opens one,
reads its names, inspects each. Another program replaces, removes or moves an entry between
any two steps; `versions` is a history variable with the trees that there were. Every walk and every
second reading refuses a file with a second name (`OneName`: `validate_extracted_entry_security` asks for a
link count of 1), whether the other name is in the tree or outside (`Linked`); all but the monitor
validate the path by its names, its depth and its bytes (`ValidBelow`; a selected directory's
content by its path below that directory).

**SandboxReader.** The listing child, the parent's check, and the extracting child, call by call:
loading the library, opening, reading headers, the path checks, the alias check in the program's
lower case, the chain of directories, `create_new` on a volume with its own table of names, the
blocks of a file. Every call may fail and another program may create a file. A
child that is killed stays in the state in which it was: since `OutputWithinLimits` is an
invariant, it covers the monitor's kill at any moment. `libarchive` is external: it
delivers the members or fails.

**Formats.** A question is one input of one function, the answer what the code makes of it; the
PAX length is found in steps, one per turn of its loop. The reference definitions are those of
the other side: how Windows splits a command line, what the child reads from the pipe, what
a volume without case takes for one path. Units of a command line are marks (`"slash"`, `"quote"`,
`"space"`) or others; `SplitUnit` is the reading of one unit, between arguments (`at = "gap"`), in one, or in
a quoted part of one.

**EvidenceWriting, EvidenceDocuments.** A directory holds the three documents as records, the
installed files and the evidence files. The second module accepts or refuses it, check by check, as
`backend_evidence.rs` does, which compares the documents pairwise with `zip`, maps and sets;
`OneStory` says what an accepted directory must be, without following them. The first has what the
script writes from the provenance: the numbered packages and files of the SPDX document, its
relationships by the owner's place among the sorted packages, the verification codes, the
inventory. `Imported` says that a directory is just as the script leaves it.

**SettingsWindow, SettingsScroll.** The first has the window procedure's commands over the
file: load, edit, defaults, save with the two renames others can see, import with its script
and its own save, doctor with its probe file. A form holds texts, a configuration values: `Shows` is what
`from_config` makes of a value, `ReadAs` what `into_config` reads a text as. Neither undoes the other: a path is
shown with `to_string_lossy` and read with `trim`, the default directory is spelled out when it is shown.
So a save can change a setting that nobody edited, such as a directory that ends in a space; `OnlyEditsAreSaved` says that
this is all it can change: what is left alone is saved as what it reads as once shown.
The second has the geometry: messages that are
sent reach the handlers at once, also inside another handler; only queued ones are followed by
`ensure_focus_visible`. An update of the scrollbars is two steps, one for each `SetScrollInfo`. When that
shows or hides the bar, the client area changes on the other axis (to any length of `Page` on the right
side of the old one) and `WM_SIZE` starts another update at once (`updating`), before the
one under way writes its vertical bar with the page height it has read (`heights`, the innermost first).
Of Windows the model assumes that `SetScrollInfo` keeps the page within the range and the position before
the last page, that a bar is shown exactly if its page is not all of its range (`Shown`), and that
`WM_SIZE` is sent then, and only then.

## 3. The runs

| Run | Shows | Bounds |
|---|---|---|
| `commit_race` | a published tree keeps its name; a failed commit leaves nothing; `Publication` is implemented; every commit ends and one of two undisturbed ones wins | 2 commits, 1 name, trees of at most 1 path, 2 contents, 2 disturbances |
| `commit_tamper` | with the handoff enabled, only audited, marked, honestly reported trees are published | 1 commit, 2 paths, files and directories, 2 disturbances, removal may fail |
| `commit_overwrite` | finding: an empty directory is replaced | 2 commits, 1 path |
| `commit_no_reaudit` | finding: the second audit is optional | 1 commit |
| `config_faults` | nothing is lost, invented or left over; first runs agree; contending saves all succeed | 3 callers of any kind, 4 configurations, of which one is what a torn first text reads as, 3 disturbances |
| `create_race` | a complete output extracts to the source; no torn archive of a creation that returned; one of two rivals succeeds | 2 creations to 1 output, 3 archives, 2 trees, 2 disturbances, Windows sharing |
| `create_removes` | finding: the file of someone else is deleted | 1 creation |
| `sandbox_runs` | a backend is confined as long as it lives; limits; reported leftovers; one-use secret; operations and their processes end | both builds, 2 runs, 2 attempts, 4 disturbances, 3 units of usage over a budget of 1 |
| `extract_hostile` | only clean trees; a taken-over listing cannot steer; every extraction ends and good archives are published | 5 archives (good, broken, misnamed, oversized, hostile), 4 trees, 1 disturbance |
| `extract_cleanup` | finding: an error after the publication | the same |
| `backend_replace` | a copy is one bundle and its evidence is of it; the backend survives imports, a failed one restores; what undisturbed imports leave is usable | 2 imports, 1 operation, 2 files, 2 contents, 1 disturbance |
| `components` | the properties of the six modules without fairness (below) | 2 windows of 2 fields, 3 values in 4 texts, 2 changes; 1 control, 2 densities, 2 widths and 3 heights, 3 messages; 89 trees, 2 changes; 1,210 archives and 48 streams with 3 backends; 18,783 format inputs; 1,449 evidence directories |

`components` runs the six modules of `Components` side by side, which share no state: each behaviour is one of one of them, and the variables of the others are `Away`. Their properties are `TitleIsTrue` and
`OnlyEditsAreSaved` (the form), `ControlsFollowScroll` and `FocusIsVisible` (the geometry, with the
real numbers of the page and of the field `max_directories`), `QuietTreesAreJudgedExactly`, `StableEntriesAreSeen` and
`DeliveredIsFingerprinted` (tree readers), `OutputWithinLimits`, `OutputIsTheArchive` and
`NoTornStream` (the reader in the sandbox), `FormatsRoundTrip`, `NamesAreExact`, and
`EvidenceIsExact`. The two windows are alike, and so are their two fields, so the run uses symmetry over
both; none of its properties is a liveness property, for which symmetry would not be sound. It
reaches 1.4 million distinct states.

Why the bounds are enough for what the runs ask: a race for a name needs two parties,
one of which may also be the outside program; the order in which a third comes in adds
nothing that the two do not do. Two paths give a tree with a file beside a directory,
and a handoff that stops after its first file. Two disturbances let a failure be followed
by a failure of its handling, which is as deep as the code nests its error handling;
the configuration has three (rename, restore, crash), the sandbox four, one for each of
its removals. The two runs of a
sandbox are the two that staging makes. The extraction needs one: what a hostile process
does is not counted, and every failing step leads to the same clean-up.
The steps that a failed move brings about (`TestRestore`, `Restore`, `RestoreFails`) cost no
disturbance of their own. In `backend_replace` a second reader would add nothing, since readers write
nothing; two files make a copy mixed of two bundles possible. Two changes of a tree are a
removal here and a creation there, or a change that a second one undoes. The
trees have each kind of entry (good, a link, misnamed, too deep, a byte too long, too large, with a second
name in the tree or outside) and one entry more than each limit, paths of exactly the bytes that are allowed included; the archives one member or block more. The bodies of PAX records are those
around 10, 100 and 1,000 characters, where the length gains a digit; command lines, byte counts and
passwords run up to and over small stand-ins for their limits (`MaxCommandUnits`, `MaxNumber`,
`MaxPassword`, `Kilo`). Evidence directories are those an import writes for up to two packages,
each with no, one or two edits. Three messages move a window to the other monitor, scroll it,
and tab. The page of 932 by 720 fits into a window of 940 by 734; in one of 940 by 717, which is what a horizontal
bar leaves of it, it needs the vertical bar, so that updates nest; in 420 by 300 the field is beyond the page on both axes.
One of the four texts of a setting is shown for a value and read as another one, one is not read at all.
`SomeoneSucceeds` is stated for Windows sharing only: where an open file can be
deleted, two creations to one output may each remove the file of the other.

Fairness. `FairSpec` is weak fairness of the steps of each caller: every operation is
a sequential function in one thread and no step of it waits for another operation
except for the mutex, which Windows hands over. In `SandboxRun` time passes (weak
fairness of `Tick`) and a terminated process ends (`Die`); of the backend nothing is
assumed, and it may run forever. In `Extraction` the end of a process is a step
of the parent, which `EverythingEnds` justifies. `BackendBundle` is fair to the steps of an
operation and to those of an import that has begun: both are sequential programs that wait for
nobody. `MC_Components` assumes no fairness. Deadlock checking is off in all runs, since
every operation ends and the system then stops.

Findings. Four runs end in a violation of a sentence in the repository; the
finding in `PROJECT.json` quotes it: an empty directory replaced by a rename
(`commit_overwrite`), the re-audit that depends on a policy (`commit_no_reaudit`), the
removal of a file that `create_new` refused to overwrite (`create_removes`, a bug in
`snapshot.rs:111`), the published destination behind a failing clean-up
(`extract_cleanup`).

## 4. What is proved

All assumptions are the named `ASSUME`s of the modules: the special values (`Nothing`,
`Other`, `Torn`, …) are no ordinary values and the bounds are naturals. Nothing is
assumed finite. TLC evaluates them in every run. The type invariants (`TypeOK`) of the modules
below are proved and not listed in the runs.

- `CommitTreeProofs`: `TypeCorrect`; `PublicationSafe` — the published tree has the
  contents that were audited, if interference keeps out of the phases that no audit
  follows (assumption `Detectable`); `WinnerIsSafe` — a non-empty published tree keeps its name; `HandoffSafe`
  (`HandoffIsHonest`, under `Detectable`); `FailureIsClean` (`FailureLeavesNothing`, under
  `~RemovalMayFail`: the clean-up of the partial directory succeeds). The invariant
  ties `partial`, `expected` and `audit` together phase by phase: what was audited is what
  the partial directory holds, from the last audit to the rename.
  `CommitIsPublication`, under `Detectable`: `CommitTree` implements `Publication`. A commit
  decides its payload where it audits its source and publishes where it renames; each
  other step is a stutter. Two further invariants are needed: a commit has nothing to show before
  its first audit (`UndecidedInv`), and what `Rename` moves has the audited contents (`SafeInv`).
- `ConfigStoreProofs`: `StoreTypeCorrect`; `ConfigurationSurvives` (`NeverLost`). The
  invariant adds that only the owner of the mutex is between the two renames, and that
  its backup is the current configuration then. On top of it: `LoadsAreSaved`
  (`LoadedWasSaved`), by the origin of every text in the file, in a backup and in a result: only a first run that
has created the file and not filled it lets a load return something else, one of `Cut`; and,
  while nothing was disturbed, `CalmLeavesNothing` (`NoLeftovers`) and `OneFirstRun`
  (`FirstRunsAgree`), by `CalmInv`: where a staging file or a backup can be, and that the file
  is the configuration in force except in the middle of a call.
- `ArchiveCreationProofs`: `CreationTypeCorrect`; `CreationSafe`
  (`PublishedReproducesSource`). The invariant says that what was verified is what is
  reopened, by content and by time of writing. `NothingTorn` (`NoTornArchive`), under
  `~RemovalMayFail`.
- `ExtractionProofs`: `ExtractionTypeCorrect`; `PublicationIsClean`; `PassesAreSeparate`
  (`ListingCannotSteer`). The invariant `IInv` is types, `Published` (the payload is
  decided once, clean, by the commit) and `Faithful`: while the extracting process is
  untouched, the backend is pinned, the archive is the snapshot, the output is fresh
  when the extraction starts and its yield afterwards. `ListingCannotSteer` alone is
  not inductive, since it says nothing before there is a payload.
- `BackendBundleProofs`: `BackendTypeCorrect`; `CopyIsOneBundle` (`CopiedIsOneBundle`) and
  `EvidenceMatchesTheCopy` (`EvidenceIsOfTheCopy`), for any number of imports, operations, files
  and contents, and whatever another program does to the directory. The invariant needs nothing of
  the installed directory but its type. It says of each operation, by its phase, what it has
  read: the manifest that it parsed is a bundle, each document accepted so far is of that bundle, and
  each file copied so far has that bundle's content. This is the argument of the code, which
  hashes every file again while it copies it. `BundleSurvives` (`BackendSurvives`) and
  `FailedImportRestores` (`FailureRestores`) need another invariant, `SurvivalInv`: while imports
  alternate and nothing else writes, it says for each phase of an import where the backend is
  that it found, and that whatever it moves in is whole.
- `SandboxRunProofs`: the type invariant, `Confined` (`RunsOnlyIsolated` and `NoOrphan`),
  `SuccessIsWithinLimits`, `LeftoversAreReported`, and `SecretRefinement`: `SandboxRun` implements
  `OneUseSecret`. None of them is inductive alone. `IInv` follows the parent's phases:
  which mode and which state of the child a phase implies (`ChildInv`), that a run and
  an attempt are left where one is used (`RunInv`, `AttemptInv`), that the secret is still
  held before its run (`SecretInv`), and which objects can still exist in each phase, all
  others being recorded as not removed (`DiskInv`) and told (`ToldInv`). The lemmas
  are one per part, because the provers treat the Boolean, the finite and the arithmetic
  parts differently.

- `ComponentProofs`: for the form, `WindowTypeCorrect`, `TitleTellsOfChanges` (`TitleIsTrue`) and
  `SavesKeepTheRest` (`OnlyEditsAreSaved`), for any number of windows, fields and values. The
  invariant `FormFollowsSaved` says of a field that the user left alone that it reads as what the window has
  loaded or saved last reads as once it is shown; the conversions are any two of which `SettingsConstants` asks one
  thing: what a text is read as, once shown, is read as itself. For the geometry, `ViewTypeCorrect`, `ControlsAreInPlace`
  (`ControlsFollowScroll`) and `FocusStaysVisible` (`FocusIsVisible`), for every density, every size of the
  page, and every layout whose controls lie within the content, as those of the code do, whatever lengths the client
  area gets while updates run inside each other. Its invariant `ViewInv`: unless a call has
  failed, the controls are in place (`Follows`), and once the updates have ended both positions are within the page and
  each bar is there exactly if the page does not fit (`Settled`). Between, the horizontal bar is exact when the
  innermost update is about to write the vertical one, and either the height it has read is that of now or the
  vertical bar is there exactly if the page does not fit (`Ready`): a stale height that changed this would
  start another update, so none ends with it. That the updates end at all is not claimed: it depends on how Windows sizes the
  client area where each bar makes the other necessary. Integer division is what makes these
  leaves hard; two lemmas bound a scaled length.
  The formats and the documents take one step or few, so that what is hard is not their invariant but
  the functions: each theorem is that an algorithm agrees with a definition that does not follow it, for
  inputs of every size. `FormatInv` says only that the answer is the function of the question, and of the
  loop of a PAX record that its length is at most every length that counts its own digits. `FormatsAreReadBack`
  (`FormatsRoundTrip`) rests on four lemmas. `CommandLines`: `Split` undoes `Encoded`, for any arguments. It goes by
  two inductions, over the units of an argument (`QuotedGrows`: after each unit, the reading
  of what was written, with the backslashes still held back, is what was meant; `PlainGrows` without
  quotes) and over the arguments (`WritingGrows`). `RecordEnds`: the digits of a number
  grow with it, so the loop of `pax_record` climbs to its least fixed point. `BytesEnd`: a number is a
  multiple of the unit it is shown in. `PasswordEnds`: no text is longer in UTF-16 than in UTF-8, so neither
  end of the pipe refuses what the other accepts. `MadeNamesAreExact` (`NamesAreExact`) rests on
  `SelectionEnds` (acceptance is that of every path by itself, its parts, depth and bytes, and of no overlap: an ancestor among the looked-up prefixes is one path within another, whatever
  the order of the selection, and `KeysDiffer`: the set of keys is as large as the list exactly if they differ)
  and `NameEnds` (a made name is safe, a stream loses its extension only, the first free
  index). `AcceptedEvidenceIsExact` (`EvidenceIsExact`), for any directory, however many packages and files:
  `EvidenceInv` says that every check that was passed holds of the directory, so that acceptance is `Sound`. `SoundIsOneStory`: sound
  documents tell one story. Its core is `RelationsAreCounted`, that the set of relationships leaves room for
  one owner of each file and no more, and `OwnersAre`, that it is the owner of the provenance. `ImportedIsSound`:
  what the script has written passes each check, so that an import is never refused; here the codes are counted by
  file on one side and by content on the other (`SameCode`).
- `ReaderProofs` has two components, since both rest on numbers and paths. Of `TreeWalk`:
  `WalkTypeCorrect` and `StableEntriesSeen` (`StableEntriesAreSeen`), for every tree, job and any
  number of changes. The invariant `SeenInv` says where an entry that stays can be in each reading
  of a job: found already, a name of the directory that is open, or below a directory on the stack that
  still has the identity with which it was pushed (`Coming`); in the readings
  after the walk, read again or to be read. `QuietJudgedExactly` (`QuietTreesAreJudgedExactly`) is for
  every finite tree and all limits. Its invariant `QuietInv` holds until something changes. What a walk has
  counted is a part D of the tree: the counters are its cardinalities and its sum (`Tally`), it is
  within the limits (`Fits`), of directories and files with one name under valid paths (`Proper`), without an identity twice (`Alone`); no
  directory waits that was opened before, or twice (`WaitsOnce`), so that no entry is counted twice;
  and a rejected tree exceeds a limit, since a part of it does (`TotalOfPart`). What is below a selected directory is
  validated without the directory's own names: `ValidFurtherDown` says that a valid path stays valid then, its bytes being a smaller sum. That a walk ends with the whole
  tree is `SeenInv` once more. `DeliveredAsFingerprinted` (`DeliveredIsFingerprinted`) is about one change
  at any time. Its invariant `AgreeInv` tells the readings apart. Before the third the change is in all that
  follows, and what is delivered agrees with the last reading. After it the result is already there. In
  it the result mixes two trees; but if their fingerprints differ the last comparison fails, and if not
  they have the same paths, so that the mixture agrees with both. Of `SandboxReader`: `ReaderTypeCorrect`,
  `StreamsAreWhole` (`NoTornStream`) and `OutputStaysWithinLimits` (`OutputWithinLimits`). Its invariant
  `ReaderInv` has the phases of each kind of archive (`Course`), the owner of each entry (`Origins`),
  the counters against the cardinalities of what was created (`Account`; a file is counted before it is
  created, a directory after), the size of the file that is written against the counter
  (`Volumes`), and the sum of all sizes against the total (`Budget`). A sum over a finite set is a
  recursive function of its subsets, so the module first proves what it needs of one: that it exists,
  that any element may be taken out first, that it depends on the summands only, that a part has no
  larger sum than the whole. `DeliversTheArchive` (`OutputIsTheArchive`) needs a second invariant,
  `TruthInv`, which rests on the first. It knows the listing of the first child member by member
  (`Listed`) and, while no other program has touched the output, what the second has made: of each
  finished member the path and what is above it, its kind, its bytes (`Extracted`); of the one at work
  which directories still wait and which part of the data is written (`AtWork`, `Reached`); that
  every entry is above some member read so far. That `create_new` refuses a file that is
  there is what keeps two members apart which the volume takes for one: no finished member has
  the path of the file that is written. The fold of the chunks is taken apart by its largest
  index (`PartsAdd`), with a total as the function whose existence that needs. The
  library's induction takes an operator; here induction runs over a set of
  numbers instead, by the least number that is not in it (`AllNumbers`). `ComponentProofs` does the same
  for lists (`AllLists`): every list is in a set that has the empty one and is closed under appending. A fold of the
  community modules is taken apart in the same way, step by step (`FoldExists`); since a lemma with an operator as parameter
  cannot be used, those two lemmas occur once for each of the five folds (`QuoteFolds`, `SplitFolds`, …).

These two modules are about `Components`, in which the six machines stand side by side without sharing a
variable; each invariant is proved of its own machine first, and of the composition by the half that a behaviour
belongs to. Their theorems assume `SettingsConstants`, `LayoutConstants`,
`TreeConstants`, `ReaderConstants`, `FormatConstants` and `EvidenceConstants`, which the modules define and `MC_Components` assumes of its
instances; `QuietJudgedExactly` also assumes `FiniteTrees`, without which there is no sum. They say of data that a path is a sequence whose prefixes are paths, that a tree has
entries in directories only, that an archive is a stream or a sequence of members with named parts and
chunks of data, that limits are numbers, and not zero where `AppConfig::validate` refuses zero;
that the body of a PAX record is below 10^9 (no path of Windows is that long), that extensions of streams
are single parts and those of archives known to both functions, as in the tables of the code; that documents are parsed into lists of
records, and that the order of package ids is one.

Only model-checked: everything temporal under fairness (`SomeoneWins`,
`ImportedIsUsable`, `SavesSucceed`, `SomeoneSucceeds`, `EverythingEnds`, `GoodArchivesExtract`), since
TLAPS does not reason about fairness here. Every safety invariant and every action property that a run
checks is a theorem.

## 5. What is not modelled

- Access control lists, token queries and the loader are taken at their word: sealing makes
  a directory read-only for the AppContainer, the isolation check tells the truth. The
  Zone.Identifier and attachment primitives are a mark and an answer.
- `isolation.rs` is a diagnostic: it starts probes and reports what Windows denied, and changes no
  state that another part reads. Its result is a statement about Windows, not about an algorithm.
- `main.rs`, `cli.rs`, the shell entry and the error texts dispatch to the modelled operations,
  one per process.
- The password dialog is a window procedure over one edit control. The pipe is modelled.
- The export, association and release scripts run alone, step by step, and fail closed.
- Archive formats and libarchive are external: the models take any answer of theirs.
- A PowerShell child of the settings window has no timeout: the window waits for it as long as it
  takes. No document promises an end, so no property is stated.
- Localisation, fonts, the layout of the other controls (the theorems are for any layout), and the JSON and XML texts
  of documents are abstracted to what they say.

The notes of `PROJECT.json` give the reason for each component.

## 6. What is left

1. The composition of `Extraction` with `BackendBundle`: its `CopyBackend` is one step that
   `CopiedIsOneBundle` justifies.
2. `ImportedIsUsable` for imports that overlap does not hold (an overlapping import may move its
   stage into the directory of the other). A lock in the script would make it hold.
