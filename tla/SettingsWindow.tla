--------------------------- MODULE SettingsWindow ---------------------------
(***************************************************************************)
(* The settings windows over one configuration file (settings.rs and       *)
(* bin/iroha-zip-settings.rs): each loads the file when it opens, edits a  *)
(* form, and writes the whole form back.  ConfigStore has the file's own   *)
(* protocol; here a save is the two renames that others can see.           *)
(***************************************************************************)
EXTENDS Naturals, FiniteSets

CONSTANTS
    Window,        \* the processes of the settings application
    Field,         \* the settings
    Value,         \* what a setting can be
    Text,          \* what a control can hold
    Typed,         \* what its user puts there: a bound on the edits
    Shows,         \* the text a value is shown as; two may be shown alike
    ReadAs,         \* the value a text is read as; two may be read alike
    Invalid,       \* what a text is read as that no setting parses from
    Default,       \* Config::default
    Missing,       \* no configuration file
    Broken,        \* a file that does not parse
    Nobody,        \* no window
    MaxChanges     \* bound on edits and on changes of the file by others

Config == [Field -> Value]
Form == [Field -> Text]

\* What the constants must be.  to_string_lossy, trim and the spelled-out default
\* make neither conversion the inverse of the other; but what a text is read as,
\* once shown, reads as itself again.
SettingsConstants ==
    /\ Default \in Config
    /\ Invalid \notin Value
    /\ Shows \in [Value -> Text]
    /\ Typed \subseteq Text
    /\ ReadAs \in [Text -> Value \cup {Invalid}]
    /\ \A t \in Text : ReadAs[t] # Invalid => ReadAs[Shows[ReadAs[t]]] = ReadAs[t]
    /\ {Missing, Broken} \cap Config = {}
    /\ Nobody \notin Window
    /\ MaxChanges \in Nat

Phase == {"closed", "loaded", "ready", "saving", "importing", "installed",
          "recording", "checking", "probing"}

VARIABLES
    file,      \* the configuration file
    aside,     \* its backup, while a save replaces it
    saver,     \* the window whose save replaces it
    phase,     \* what each window is doing; it is disabled unless "ready"
    form,      \* the texts of its controls
    saved,     \* saved_config: what it has loaded or saved
    marked,    \* the * in its title
    probe,     \* the temporary configurations of doctor
    edited,    \* history: the fields the user changed since
    changes

windowVars == <<phase, form, saved, marked, edited>>
vars == <<file, aside, saver, windowVars, probe, changes>>

-----------------------------------------------------------------------------
\* A fault: a control was forgotten.
FromSomeOfConfig(c) ==
    LET forgotten == CHOOSE f \in Field : TRUE
    IN  [f \in Field |-> Shows[IF f = forgotten THEN Default[f] ELSE c[f]]]

\* SettingsForm::from_config: what the controls show of a configuration.
FromConfig(c) == [f \in Field |-> Shows[c[f]]]

\* SettingsForm::into_config accepts the texts ...
Parses(texts) == \A f \in Field : ReadAs[texts[f]] # Invalid

\* ... and this is the configuration they are read as.
IntoConfig(texts) == [f \in Field |-> ReadAs[texts[f]]]

HasUnsavedChanges(texts, config) == ~Parses(texts) \/ IntoConfig(texts) # config

Chosen(w) == phase[w] = "ready" /\ Parses(form[w])

Become(w, p) == phase' = [phase EXCEPT ![w] = p]

Change == changes < MaxChanges /\ changes' = changes + 1

Init ==
    /\ file \in Config \cup {Missing}
    /\ aside = Missing /\ saver = Nobody
    /\ phase = [w \in Window |-> "closed"]
    /\ form = [w \in Window |-> FromConfig(Default)]
    /\ saved = [w \in Window |-> Default]
    /\ marked = [w \in Window |-> FALSE]
    /\ probe = {}
    /\ edited = [w \in Window |-> {}]
    /\ changes = 0

\* Config::load
Loaded == IF file = Missing THEN Default ELSE file

-----------------------------------------------------------------------------
\* run: the file must parse before a window is made ...
Start(w) ==
    /\ phase[w] = "closed" /\ file # Broken
    /\ Become(w, "loaded")
    /\ UNCHANGED <<file, aside, saver, form, saved, marked, probe, edited, changes>>

\* ... and create_controls loads it again.
CreateControls(w) ==
    /\ phase[w] = "loaded"
    /\ IF file = Broken
       THEN Become(w, "closed") /\ UNCHANGED <<form, saved, marked, edited>>
       ELSE /\ Become(w, "ready")
            /\ form' = [form EXCEPT ![w] = FromConfig(Loaded)]
            /\ saved' = [saved EXCEPT ![w] = Loaded]
            /\ marked' = [marked EXCEPT
                             ![w] = HasUnsavedChanges(form'[w], saved'[w])]
            /\ edited' = [edited EXCEPT ![w] = {}]
    /\ UNCHANGED <<file, aside, saver, probe, changes>>

\* A control notifies the window, or the folder dialog sets the text.
Edit(w) ==
    /\ phase[w] = "ready"
    /\ Change
    /\ \E f \in Field, t \in Typed :
          /\ form' = [form EXCEPT ![w][f] = t]
          /\ edited' = [edited EXCEPT ![w] = @ \cup {f}]
    /\ marked' = [marked EXCEPT ![w] = HasUnsavedChanges(form'[w], saved[w])]
    /\ UNCHANGED <<file, aside, saver, phase, saved, probe>>

\* A fault: setting a combo box does not notify anybody.
RestoreQuietly(w) ==
    /\ phase[w] = "ready"
    /\ form' = [form EXCEPT ![w] = FromConfig(Default)]
    /\ edited' = [edited EXCEPT ![w] = Field]
    /\ UNCHANGED <<file, aside, saver, phase, saved, marked, probe, changes>>

\* RestoreDefaults, once confirmed: the form alone.
RestoreDefaults(w) ==
    /\ phase[w] = "ready"
    /\ form' = [form EXCEPT ![w] = FromConfig(Default)]
    /\ edited' = [edited EXCEPT ![w] = Field]
    /\ marked' = [marked EXCEPT ![w] = HasUnsavedChanges(form'[w], saved[w])]
    /\ UNCHANGED <<file, aside, saver, phase, saved, probe, changes>>

-----------------------------------------------------------------------------
\* Config::save under its mutex, from the first rename to the second.
BeginSave(w, next) ==
    /\ saver = Nobody
    /\ saver' = w
    /\ aside' = file
    /\ file' = Missing
    /\ Become(w, next)
    /\ UNCHANGED <<form, saved, marked, probe, edited, changes>>

\* collect_config refuses an invalid form before anything is written.
Save(w) == Chosen(w) /\ BeginSave(w, "saving")

\* The second rename, and what save and import_backend do once it succeeded.
FinishSave(w) ==
    /\ phase[w] \in {"saving", "recording"} /\ saver = w
    /\ file' = IntoConfig(form[w])
    /\ aside' = Missing /\ saver' = Nobody
    /\ saved' = [saved EXCEPT ![w] = file']
    /\ marked' = [marked EXCEPT ![w] = HasUnsavedChanges(form[w], saved'[w])]
    /\ edited' = [edited EXCEPT ![w] = {}]
    /\ Become(w, "ready")
    /\ UNCHANGED <<form, probe, changes>>

\* The file is put back, and an error is shown.
SaveFails(w) ==
    /\ phase[w] \in {"saving", "recording"} /\ saver = w
    /\ Change
    /\ file' = aside
    /\ aside' = Missing /\ saver' = Nobody
    /\ Become(w, "ready")
    /\ UNCHANGED <<form, saved, marked, probe, edited>>

\* import_backend: the form is read before the script runs ...
Import(w) ==
    /\ Chosen(w)
    /\ Become(w, "importing")
    /\ UNCHANGED <<file, aside, saver, form, saved, marked, probe, edited, changes>>

\* ... and saved once the new backend was verified; until then an error leaves
\* the configuration alone, whatever it has done to the backend.
RunScript(w) ==
    /\ phase[w] = "importing"
    /\ \E next \in {"installed", "ready"} : Become(w, next)
    /\ UNCHANGED <<file, aside, saver, form, saved, marked, probe, edited, changes>>

Record(w) ==
    /\ phase[w] = "installed"
    /\ \/ BeginSave(w, "recording")
       \/ /\ Become(w, "ready")
          /\ UNCHANGED <<file, aside, saver, form, saved, marked, probe, edited, changes>>

\* doctor: the form, saved or not, goes to a temporary file ...
Doctor(w) ==
    /\ Chosen(w)
    /\ Become(w, "checking")
    /\ UNCHANGED <<file, aside, saver, form, saved, marked, probe, edited, changes>>

\* ... once the backend it names was verified.
WriteProbe(w) ==
    /\ phase[w] = "checking"
    /\ \/ probe' = probe \cup {w} /\ Become(w, "probing")
       \/ UNCHANGED probe /\ Become(w, "ready")
    /\ UNCHANGED <<file, aside, saver, form, saved, marked, edited, changes>>

EndProbe(w) ==
    /\ phase[w] = "probing"
    /\ probe' = probe \ {w}
    /\ Become(w, "ready")
    /\ UNCHANGED <<file, aside, saver, form, saved, marked, edited, changes>>

\* request_close, without changes or once their loss was confirmed.
Close(w) ==
    /\ phase[w] = "ready"
    /\ Become(w, "closed")
    /\ UNCHANGED <<file, aside, saver, form, saved, marked, probe, edited, changes>>

-----------------------------------------------------------------------------
\* An editor writes the file.
OtherWrites ==
    /\ saver = Nobody
    /\ Change
    /\ file' \in (Config \cup {Broken}) \ {file}
    /\ UNCHANGED <<aside, saver, windowVars, probe>>

Act(w) ==
    \/ Start(w) \/ CreateControls(w) \/ Edit(w) \/ RestoreDefaults(w) \/ Close(w)
    \/ Save(w) \/ FinishSave(w) \/ SaveFails(w)
    \/ Import(w) \/ RunScript(w) \/ Record(w)
    \/ Doctor(w) \/ WriteProbe(w) \/ EndProbe(w)

Next == (\E w \in Window : Act(w)) \/ OtherWrites

Spec == Init /\ [][Next]_vars

-----------------------------------------------------------------------------
TypeOK ==
    /\ file \in Config \cup {Missing, Broken}
    /\ aside \in Config \cup {Missing, Broken}
    /\ saver \in Window \cup {Nobody}
    /\ phase \in [Window -> Phase]
    /\ form \in [Window -> Form]
    /\ saved \in [Window -> Config]
    /\ marked \in [Window -> BOOLEAN]
    /\ probe \subseteq Window
    /\ edited \in [Window -> SUBSET Field]
    /\ changes \in Nat

\* The title of a window shows whether a save of its form would write anything
\* else than what it loaded or saved last, after every command, failed ones
\* included: "the title's * and a close confirmation expose unsaved changes"
\* (README.en.md:252).  A value that is not read as it is shown is such a change.
TitleIsTrue ==
    \A w \in Window :
        phase[w] \notin {"closed", "loaded"} =>
            (marked[w] <=> HasUnsavedChanges(form[w], saved[w]))

\* A save of a file that still holds what the window has loaded leaves each
\* setting the user did not touch what its control is read as: the value itself,
\* unless showing and trimming it have made another one of it.  Where another
\* window or an editor wrote the file since, or the window was opened between the
\* two renames of a save, the whole form replaces whatever is there.
EditsAlone ==
    \A w \in Window :
        FinishSave(w) /\ aside \in Config /\ aside = saved[w] =>
            \A f \in Field \ edited[w] : file'[f] = ReadAs[Shows[aside[f]]]
OnlyEditsAreSaved == [][EditsAlone]_vars
=============================================================================
