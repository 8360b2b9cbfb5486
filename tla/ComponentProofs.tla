-------------------------- MODULE ComponentProofs ---------------------------
(***************************************************************************)
(* The settings windows (Form!), for any number of windows, fields and     *)
(* values, and any interleaving of their loads, edits, saves, imports and  *)
(* of other programs that write the file; and the inside of one window     *)
(* (View!), for any layout that fits its page, any densities, sizes and    *)
(* messages.  Then what the program writes to be read elsewhere (Format!), *)
(* for inputs of any size, and the documents beside a backend (Evidence!), *)
(* for any directory.                                                      *)
(***************************************************************************)
EXTENDS Components, Integers, Sequences, FiniteSetsExt, SequenceTheorems, FiniteSetTheorems,
        WellFoundedInduction, TLAPS

-----------------------------------------------------------------------------
\* The phases in which the window has a form, and those it enters with a form
\* that collect_config has accepted and in which it is disabled.
Open == Form!Phase \ {"closed", "loaded"}
Busy == {"saving", "importing", "installed", "recording", "checking", "probing"}

\* What the user has not edited reads as what the window has loaded or saved does
\* once it is shown; a busy window holds a form that parses.
FormFollowsSaved ==
    \A w \in Window :
        /\ phase[w] \in Open =>
              \A f \in Field \ edited[w] : ReadAs[form[w][f]] = ReadAs[Shows[saved[w][f]]]
        /\ phase[w] \in Busy => Form!Parses(form[w])

\* Texts that parse are read as a configuration, and shown again they read the same.
LEMMA ParsedFormIsConfig ==
    ASSUME Form!SettingsConstants, NEW t \in Form!Form, Form!Parses(t)
    PROVE  /\ Form!IntoConfig(t) \in Form!Config
           /\ \A f \in Field : /\ Form!IntoConfig(t)[f] = ReadAs[t[f]]
                               /\ ReadAs[Shows[ReadAs[t[f]]]] = ReadAs[t[f]]
BY DEF Form!SettingsConstants, Form!Form, Form!Config, Form!Parses, Form!IntoConfig

\* What is shown of a configuration is a form.
LEMMA ShownIsForm ==
    ASSUME Form!SettingsConstants, NEW c \in Form!Config
    PROVE  /\ Form!FromConfig(c) \in Form!Form
           /\ \A f \in Field : Form!FromConfig(c)[f] = Shows[c[f]]
BY DEF Form!SettingsConstants, Form!Form, Form!Config, Form!FromConfig

-----------------------------------------------------------------------------
\* Type correctness.
LEMMA WindowInit ==
    ASSUME Form!SettingsConstants, Form!Init
    PROVE  Form!TypeOK /\ FormFollowsSaved /\ Form!TitleIsTrue
<1>1. Default \in Form!Config /\ Form!FromConfig(Default) \in Form!Form
  BY ShownIsForm DEF Form!SettingsConstants
<1>2. Form!TypeOK
  BY <1>1 DEF Form!Init, Form!TypeOK, Form!Phase, Form!SettingsConstants
<1>3. FormFollowsSaved
  BY DEF Form!Init, FormFollowsSaved, Open, Busy
<1>4. Form!TitleIsTrue
  BY DEF Form!Init, Form!TitleIsTrue
<1> QED
  BY <1>2, <1>3, <1>4

\* Every command of a window preserves the types.
LEMMA WindowTypeStep ==
    ASSUME Form!SettingsConstants, Form!TypeOK, FormFollowsSaved, [Form!Next]_Form!vars
    PROVE  Form!TypeOK'
<1> USE DEF Form!TypeOK, Form!Become, Form!Change, Form!Phase
<1>1. ASSUME NEW w \in Window, Form!Start(w) PROVE Form!TypeOK'
  BY <1>1 DEF Form!Start
<1>2. ASSUME NEW w \in Window, Form!CreateControls(w) PROVE Form!TypeOK'
  <2>1. CASE file = Broken
    BY <1>2, <2>1 DEF Form!CreateControls
  <2>2. CASE file # Broken
    <3>1. Form!Loaded \in Form!Config
      BY <2>2 DEF Form!Loaded, Form!SettingsConstants
    <3>2. Form!FromConfig(Form!Loaded) \in Form!Form
      BY <3>1, ShownIsForm
    <3>3. form' \in [Window -> Form!Form] /\ saved' \in [Window -> Form!Config]
          /\ edited' \in [Window -> SUBSET Field]
      BY <1>2, <2>2, <3>1, <3>2 DEF Form!CreateControls
    <3>4. Form!HasUnsavedChanges(form'[w], saved'[w]) \in BOOLEAN
      BY DEF Form!HasUnsavedChanges, Form!Parses
    <3>5. marked' \in [Window -> BOOLEAN]
      BY <1>2, <2>2, <3>4, Zenon DEF Form!CreateControls
    <3> QED
      BY <1>2, <2>2, <3>3, <3>5 DEF Form!CreateControls
  <2> QED
    BY <2>1, <2>2
<1>3. ASSUME NEW w \in Window, Form!Edit(w) PROVE Form!TypeOK'
  <2>1. Form!HasUnsavedChanges(form'[w], saved[w]) \in BOOLEAN
    BY DEF Form!HasUnsavedChanges, Form!Parses
  <2>2. marked' \in [Window -> BOOLEAN]
    BY <1>3, <2>1, Zenon DEF Form!Edit
  <2>3. form' \in [Window -> Form!Form]
    BY <1>3 DEF Form!Edit, Form!Form, Form!SettingsConstants
  <2>4. edited' \in [Window -> SUBSET Field]
    BY <1>3 DEF Form!Edit
  <2> QED
    BY <1>3, <2>2, <2>3, <2>4 DEF Form!Edit
<1>4. ASSUME NEW w \in Window, Form!RestoreDefaults(w) PROVE Form!TypeOK'
  <2>1. Form!HasUnsavedChanges(form'[w], saved[w]) \in BOOLEAN
    BY DEF Form!HasUnsavedChanges, Form!Parses
  <2>2. marked' \in [Window -> BOOLEAN]
    BY <1>4, <2>1, Zenon DEF Form!RestoreDefaults
  <2>3. Form!FromConfig(Default) \in Form!Form
    BY ShownIsForm DEF Form!SettingsConstants
  <2> QED
    BY <1>4, <2>2, <2>3 DEF Form!RestoreDefaults
<1>5. ASSUME NEW w \in Window, NEW next \in Form!Phase, Form!BeginSave(w, next) PROVE Form!TypeOK'
  BY <1>5 DEF Form!BeginSave
<1>6. ASSUME NEW w \in Window, Form!Save(w) PROVE Form!TypeOK'
  BY <1>5, <1>6 DEF Form!Save
<1>7. ASSUME NEW w \in Window, Form!FinishSave(w) PROVE Form!TypeOK'
  <2>1. Form!IntoConfig(form[w]) \in Form!Config
    BY <1>7, ParsedFormIsConfig DEF Form!FinishSave, FormFollowsSaved, Busy
  <2>2. Form!HasUnsavedChanges(form[w], saved'[w]) \in BOOLEAN
    BY DEF Form!HasUnsavedChanges, Form!Parses
  <2>3. marked' \in [Window -> BOOLEAN]
    BY <1>7, <2>2, Zenon DEF Form!FinishSave
  <2> QED
    BY <1>7, <2>1, <2>3 DEF Form!FinishSave
<1>8. ASSUME NEW w \in Window, Form!SaveFails(w) PROVE Form!TypeOK'
  BY <1>8 DEF Form!SaveFails
<1>9. ASSUME NEW w \in Window, Form!Import(w) \/ Form!RunScript(w) \/ Form!Doctor(w) \/ Form!Close(w)
      PROVE  Form!TypeOK'
  BY <1>9 DEF Form!Import, Form!RunScript, Form!Doctor, Form!Close
<1>10. ASSUME NEW w \in Window, Form!Record(w) PROVE Form!TypeOK'
  BY <1>5, <1>10 DEF Form!Record
<1>11. ASSUME NEW w \in Window, Form!WriteProbe(w) \/ Form!EndProbe(w) PROVE Form!TypeOK'
  BY <1>11 DEF Form!WriteProbe, Form!EndProbe
<1>12. ASSUME Form!OtherWrites PROVE Form!TypeOK'
  BY <1>12 DEF Form!OtherWrites, Form!windowVars
<1>13. CASE UNCHANGED Form!vars
  BY <1>13 DEF Form!vars, Form!windowVars
<1> QED
  BY <1>1, <1>2, <1>3, <1>4, <1>6, <1>7, <1>8, <1>9, <1>10, <1>11, <1>12, <1>13
     DEF Form!Next, Form!Act

-----------------------------------------------------------------------------
\* A step of a window leaves the forms of the others alone.
LEMMA FormStep ==
    ASSUME Form!SettingsConstants, Form!TypeOK, FormFollowsSaved, [Form!Next]_Form!vars
    PROVE  FormFollowsSaved'
<1> USE DEF Form!TypeOK, Form!Become, Form!Change, FormFollowsSaved, Open, Busy, Form!Phase
<1>1. ASSUME NEW w \in Window, Form!Start(w) PROVE FormFollowsSaved'
  BY <1>1 DEF Form!Start
<1>2. ASSUME NEW w \in Window, Form!CreateControls(w) PROVE FormFollowsSaved'
  <2>1. CASE file = Broken
    BY <1>2, <2>1 DEF Form!CreateControls
  <2>2. CASE file # Broken
    <3>1. form'[w] = Form!FromConfig(Form!Loaded) /\ saved'[w] = Form!Loaded
      BY <1>2, <2>2 DEF Form!CreateControls
    <3>2. \A v \in Window \ {w} :
             form'[v] = form[v] /\ saved'[v] = saved[v] /\ edited'[v] = edited[v]
             /\ phase'[v] = phase[v]
      BY <1>2, <2>2 DEF Form!CreateControls
    <3>3. phase'[w] = "ready"
      BY <1>2, <2>2 DEF Form!CreateControls
    <3> QED
      BY <3>1, <3>2, <3>3 DEF Form!FromConfig, Form!Parses
  <2> QED
    BY <2>1, <2>2
<1>3. ASSUME NEW w \in Window, Form!Edit(w) PROVE FormFollowsSaved'
  <2>1. PICK f \in Field, t \in Typed :
            /\ form' = [form EXCEPT ![w][f] = t]
            /\ edited' = [edited EXCEPT ![w] = @ \cup {f}]
    BY <1>3 DEF Form!Edit
  <2>2. /\ phase' = phase /\ saved' = saved /\ phase[w] = "ready"
        /\ edited'[w] = edited[w] \cup {f} /\ form'[w] = [form[w] EXCEPT ![f] = t]
    BY <1>3, <2>1 DEF Form!Edit
  <2>3. \A g \in Field \ {f} : form'[w][g] = form[w][g]
    BY <2>2 DEF Form!Form
  <2>4. \A v \in Window \ {w} : form'[v] = form[v] /\ edited'[v] = edited[v]
    BY <2>1
  <2>5. \A v \in Window : \A g \in Field \ edited'[v] :
           phase[v] \in Open => ReadAs[form'[v][g]] = ReadAs[Shows[saved[v][g]]]
    <3> HIDE DEF Open
    <3> SUFFICES ASSUME NEW v \in Window, NEW g \in Field \ edited'[v], phase[v] \in Open
                 PROVE  ReadAs[form'[v][g]] = ReadAs[Shows[saved[v][g]]]
      OBVIOUS
    <3>1. CASE v = w
      <4>1. g # f /\ g \in Field \ edited[w]
        BY <2>2, <3>1
      <4>2. form'[w][g] = form[w][g]
        BY <2>3, <4>1
      <4> QED
        BY <3>1, <4>1, <4>2
    <3>2. CASE v # w
      BY <2>4, <3>2
    <3> QED
      BY <3>1, <3>2
  <2> QED
    BY <2>2, <2>4, <2>5 DEF Form!Parses
<1>4. ASSUME NEW w \in Window, Form!RestoreDefaults(w) PROVE FormFollowsSaved'
  <2>1. form'[w] = Form!FromConfig(Default) /\ edited'[w] = Field
    BY <1>4 DEF Form!RestoreDefaults
  <2>2. \A v \in Window \ {w} : form'[v] = form[v] /\ edited'[v] = edited[v]
    BY <1>4 DEF Form!RestoreDefaults
  <2> QED
    BY <1>4, <2>1, <2>2 DEF Form!RestoreDefaults, Form!Parses
<1>5. ASSUME NEW w \in Window, Form!Save(w) \/ Form!Import(w) \/ Form!Doctor(w)
      PROVE  FormFollowsSaved'
  BY <1>5 DEF Form!Save, Form!Import, Form!Doctor, Form!Chosen, Form!BeginSave,
     Form!Parses
<1>6. ASSUME NEW w \in Window, Form!FinishSave(w) PROVE FormFollowsSaved'
  <2>1. /\ saved'[w] = Form!IntoConfig(form[w]) /\ edited'[w] = {} /\ form' = form
        /\ phase'[w] = "ready"
    BY <1>6 DEF Form!FinishSave
  <2>2. \A f \in Field : ReadAs[form'[w][f]] = ReadAs[Shows[saved'[w][f]]]
    <3>1. Form!Parses(form[w])
      BY <1>6 DEF Form!FinishSave
    <3> QED
      BY <2>1, <3>1, ParsedFormIsConfig
  <2>3. \A v \in Window \ {w} : saved'[v] = saved[v] /\ edited'[v] = edited[v]
                                /\ phase'[v] = phase[v]
    BY <1>6 DEF Form!FinishSave
  <2> QED
    BY <2>1, <2>2, <2>3 DEF Form!Parses
<1>7. ASSUME NEW w \in Window, Form!SaveFails(w) PROVE FormFollowsSaved'
  BY <1>7 DEF Form!SaveFails, Form!Parses
<1>8. ASSUME NEW w \in Window, Form!RunScript(w) \/ Form!Record(w) PROVE FormFollowsSaved'
  BY <1>8 DEF Form!RunScript, Form!Record, Form!BeginSave, Form!Parses
<1>9. ASSUME NEW w \in Window, Form!WriteProbe(w) \/ Form!EndProbe(w) PROVE FormFollowsSaved'
  BY <1>9 DEF Form!WriteProbe, Form!EndProbe, Form!Parses
<1>10. ASSUME NEW w \in Window, Form!Close(w) PROVE FormFollowsSaved'
  BY <1>10 DEF Form!Close
<1>11. CASE Form!OtherWrites \/ UNCHANGED Form!vars
  BY <1>11 DEF Form!OtherWrites, Form!vars, Form!windowVars, Form!Parses
<1> QED
  BY <1>1, <1>2, <1>3, <1>4, <1>5, <1>6, <1>7, <1>8, <1>9, <1>10, <1>11 DEF Form!Next, Form!Act

\* Each command leaves the * of its window's title true, and the others' alone.
LEMMA TitleStep ==
    ASSUME Form!TypeOK, Form!TitleIsTrue, [Form!Next]_Form!vars
    PROVE  Form!TitleIsTrue'
<1> DEFINE True(w) == phase[w] \notin {"closed", "loaded"} =>
                          (marked[w] <=> Form!HasUnsavedChanges(form[w], saved[w]))
<1> SUFFICES ASSUME NEW v \in Window PROVE True(v)'
  BY DEF Form!TitleIsTrue
<1>0. True(v)
  BY DEF Form!TitleIsTrue
<1>1. ASSUME marked'[v] = marked[v], form'[v] = form[v], saved'[v] = saved[v],
             phase'[v] \in {"closed", "loaded"} \/ phase[v] \notin {"closed", "loaded"}
      PROVE  True(v)'
  BY <1>0, <1>1 DEF Form!HasUnsavedChanges, Form!Parses, Form!IntoConfig
<1>2. ASSUME marked'[v] <=> Form!HasUnsavedChanges(form'[v], saved'[v]) PROVE True(v)'
  BY <1>2 DEF Form!HasUnsavedChanges, Form!Parses, Form!IntoConfig
<1> HIDE DEF True
<1> USE DEF Form!TypeOK, Form!Become, Form!Change, Form!Phase
<1>3. ASSUME NEW w \in Window, Form!Start(w) PROVE True(v)'
  BY <1>1, <1>3 DEF Form!Start
<1>4. ASSUME NEW w \in Window, Form!CreateControls(w) PROVE True(v)'
  <2>1. CASE v # w
    BY <1>1, <1>4, <2>1 DEF Form!CreateControls
  <2>2. CASE file = Broken
    BY <1>1, <1>4, <2>2 DEF Form!CreateControls
  <2>3. CASE v = w /\ file # Broken
    <3> DEFINE b == Form!HasUnsavedChanges(form'[w], saved'[w])
    <3>1. marked' = [marked EXCEPT ![w] = b]
      BY <1>4, <2>3 DEF Form!CreateControls
    <3> HIDE DEF b
    <3>2. marked'[v] = b
      BY <2>3, <3>1
    <3> QED
      BY <1>2, <2>3, <3>2, Zenon DEF b
  <2> QED
    BY <2>1, <2>2, <2>3
<1>5. ASSUME NEW w \in Window, Form!Edit(w) \/ Form!RestoreDefaults(w) PROVE True(v)'
  <2>1. CASE v # w
    BY <1>1, <1>5, <2>1 DEF Form!Edit, Form!RestoreDefaults
  <2>2. CASE v = w
    <3> DEFINE b == Form!HasUnsavedChanges(form'[w], saved[w])
    <3>1. marked' = [marked EXCEPT ![w] = b] /\ saved' = saved
      BY <1>5 DEF Form!Edit, Form!RestoreDefaults
    <3> HIDE DEF b
    <3>2. marked'[v] = b
      BY <2>2, <3>1
    <3> QED
      BY <1>2, <2>2, <3>1, <3>2, Zenon DEF b
  <2> QED
    BY <2>1, <2>2
<1>6. ASSUME NEW w \in Window, Form!FinishSave(w) PROVE True(v)'
  <2>1. CASE v # w
    BY <1>1, <1>6, <2>1 DEF Form!FinishSave
  <2>2. CASE v = w
    <3> DEFINE b == Form!HasUnsavedChanges(form[w], saved'[w])
    <3>1. marked' = [marked EXCEPT ![w] = b] /\ form' = form
      BY <1>6 DEF Form!FinishSave
    <3> HIDE DEF b
    <3>2. marked'[v] = b
      BY <2>2, <3>1
    <3> QED
      BY <1>2, <2>2, <3>1, <3>2, Zenon DEF b
  <2> QED
    BY <2>1, <2>2
<1>7. ASSUME NEW w \in Window, Form!Save(w) \/ Form!SaveFails(w) PROVE True(v)'
  BY <1>1, <1>7 DEF Form!Save, Form!Chosen, Form!BeginSave, Form!SaveFails
<1>8. ASSUME NEW w \in Window, Form!Import(w) \/ Form!RunScript(w) \/ Form!Record(w) PROVE True(v)'
  BY <1>1, <1>8 DEF Form!Import, Form!Chosen, Form!RunScript, Form!Record, Form!BeginSave
<1>9. ASSUME NEW w \in Window,
             Form!Doctor(w) \/ Form!WriteProbe(w) \/ Form!EndProbe(w) \/ Form!Close(w)
      PROVE  True(v)'
  BY <1>1, <1>9 DEF Form!Doctor, Form!Chosen, Form!WriteProbe, Form!EndProbe, Form!Close
<1>10. CASE Form!OtherWrites \/ UNCHANGED Form!vars
  BY <1>1, <1>10 DEF Form!OtherWrites, Form!vars, Form!windowVars
<1> QED
  BY <1>3, <1>4, <1>5, <1>6, <1>7, <1>8, <1>9, <1>10 DEF Form!Next, Form!Act

-----------------------------------------------------------------------------
\* The state of a window.
BarState == [range : Nat, page : Nat, pos : Nat]
Win == [dpi : Dpis, page : [View!Axis -> Nat \ {0}], scroll : [View!Axis -> Nat],
        bar : [View!Axis -> BarState],
        place : [Control -> [View!Axis -> [first : Int, size : Int]]]]

Follows(w) ==
    \A c \in Control, a \in View!Axis :
        /\ w.place[c][a].first = View!ScaleLogical(Layout[c][a].first, w.dpi) - w.scroll[a]
        /\ w.place[c][a].size = View!ScaleLogical(Layout[c][a].size, w.dpi)

\* A bar is there if the page does not fit ...
Tells(w, a) == View!Shown(w.bar[a]) <=> w.page[a] < View!ScaleLogical(Content[a], w.dpi)

\* ... with the range of the page and its position;
BarHolds(w, a) ==
    /\ w.bar[a].range = View!ScaleLogical(Content[a], w.dpi)
    /\ w.bar[a].pos = View!Min2(w.scroll[a], w.bar[a].range - w.bar[a].page)
    /\ Tells(w, a)

\* and its own page is the client area.
BarExact(w, a) == w.bar[a].page = View!Min2(w.page[a], w.bar[a].range)

\* The page is scrolled no further than its content.
Bounded(w, a) == w.scroll[a] <= View!Largest(w, a)

-----------------------------------------------------------------------------
\* The densities are positive numbers.
LEMMA DpiNat ==
    ASSUME View!LayoutConstants
    PROVE  \A d \in Dpis : d \in Nat /\ d >= View!BASE_DPI
BY DEF View!LayoutConstants

\* Rounding to the pixels of a density.
LEMMA ScaledNat ==
    ASSUME NEW v \in Nat, NEW d \in Nat, d >= View!BASE_DPI
    PROVE  /\ View!ScaleLogical(v, d) = (v * d + 48) \div 96
           /\ View!ScaleLogical(v, d) \in Nat
<1> DEFINE n == v * d
<1>1. n \in Nat
  OBVIOUS
<1>2. View!ScaleLogical(v, d) = View!Rounded(n, 96)
  BY DEF View!ScaleLogical, View!Max2, View!BASE_DPI
<1> HIDE DEF n
<1>3. View!Rounded(n, 96) = (n + 48) \div 96 /\ (n + 48) \div 96 \in Nat
  BY <1>1 DEF View!Rounded, View!Quotient
<1> QED
  BY <1>2, <1>3 DEF n

\* A part that ends before the whole does so in pixels too, whatever is rounded up.
LEMMA PartsFit ==
    ASSUME NEW f \in Nat, NEW z \in Nat, NEW c \in Nat, f + z < c,
           NEW d \in Nat, d >= View!BASE_DPI
    PROVE  View!ScaleLogical(f, d) + View!ScaleLogical(z, d) <= View!ScaleLogical(c, d)
<1> DEFINE A == f * d  B == z * d  E == c * d
<1>1. A \in Nat /\ B \in Nat /\ E \in Nat
  OBVIOUS
<1>2. E >= A + B + 96
  <2>1. PICK r \in Nat : c = f + z + 1 + r
    <3>1. c - (f + z + 1) \in Nat /\ c = f + z + 1 + (c - (f + z + 1))
      OBVIOUS
    <3> QED
      BY <3>1
  <2>2. E = A + B + d + r * d
    BY <2>1
  <2>3. r * d \in Nat
    BY <2>1
  <2> QED
    BY <1>1, <2>2, <2>3 DEF View!BASE_DPI
<1>3. /\ View!ScaleLogical(f, d) = (A + 48) \div 96
      /\ View!ScaleLogical(z, d) = (B + 48) \div 96
      /\ View!ScaleLogical(c, d) = (E + 48) \div 96
  BY ScaledNat
<1> HIDE DEF A, B, E
<1> QED
  BY <1>1, <1>2, <1>3

\* A length scaled from one density to another is a number.
LEMMA ScaledBetween ==
    ASSUME NEW v \in Nat, NEW s \in Nat, NEW t \in Nat
    PROVE  View!ScaleBetween(v, s, t) \in Nat
<1> DEFINE n == v * View!Max2(t, View!BASE_DPI)  d == View!Max2(s, View!BASE_DPI)
<1>1. d \in Nat \ {0} /\ View!Max2(t, View!BASE_DPI) \in Nat
  BY DEF View!Max2, View!BASE_DPI
<1>2. n \in Nat
  BY <1>1
<1> HIDE DEF n, d
<1>3. d \div 2 \in Nat
  BY <1>1
<1> DEFINE m == n + d \div 2
<1>4. m \in Nat
  BY <1>2, <1>3
<1> HIDE DEF m
<1>5. m \div d \in Nat
  BY <1>1, <1>4
<1> QED
  BY <1>2, <1>4, <1>5 DEF View!ScaleBetween, View!Rounded, View!Quotient, n, d, m

\* Clamp keeps a request that is within the limits.
LEMMA Clamped ==
    ASSUME NEW v \in Int, NEW high \in Nat
    PROVE  /\ View!Clamp(v, 0, high) \in 0 .. high
           /\ v \in 0 .. high => View!Clamp(v, 0, high) = v
           /\ v < 0 => View!Clamp(v, 0, high) = 0
           /\ v > high => View!Clamp(v, 0, high) = high
BY DEF View!Clamp, View!Min2, View!Max2

\* The end of a scroll bar is a number.
LEMMA LargestNat ==
    ASSUME View!LayoutConstants, NEW w \in Win, NEW a \in View!Axis
    PROVE  /\ View!Largest(w, a) \in Nat
           /\ View!ScaleLogical(Content[a], w.dpi) \in Nat
           /\ View!Largest(w, a) >= View!ScaleLogical(Content[a], w.dpi) - w.page[a]
<1>1. Content[a] \in Nat /\ w.dpi \in Nat /\ w.dpi >= View!BASE_DPI /\ w.page[a] \in Nat
  BY DEF View!LayoutConstants, Win
<1>2. View!ScaleLogical(Content[a], w.dpi) \in Nat
  BY <1>1, ScaledNat
<1> QED
  BY <1>1, <1>2 DEF View!Largest, View!Max2

-----------------------------------------------------------------------------
\* What SetScrollInfo makes of a range, a page and a position.
LEMMA BarWhole ==
    ASSUME NEW range \in Nat, NEW extent \in Nat, NEW pos \in Nat
    PROVE  LET b == View!Bar(range, extent, pos)
           IN  /\ b \in BarState
               /\ b.range = range /\ b.page = View!Min2(extent, range)
               /\ b.pos = View!Min2(pos, range - b.page)
               /\ View!Shown(b) <=> extent < range
<1> DEFINE shown == View!Min2(extent, range)  b == View!Bar(range, extent, pos)
<1>1. shown \in Nat /\ shown <= range /\ (shown < range <=> extent < range)
  BY DEF View!Min2
<1>2. b = [range |-> range, page |-> shown, pos |-> View!Min2(pos, range - shown)]
  BY DEF View!Bar
<1> HIDE DEF shown, b
<1>3. View!Min2(pos, range - shown) \in Nat
  BY <1>1 DEF View!Min2
<1> QED
  BY <1>1, <1>2, <1>3 DEF b, shown, BarState, View!Shown

\* Scrolling moves the children by as much as the position, and touches neither
\* the other axis nor what is drawn of the page.
LEMMA Scrolled ==
    ASSUME View!LayoutConstants, NEW w \in Win, NEW a \in View!Axis, NEW r \in Int
    PROVE  LET v == View!ScrollTo(w, a, r)
           IN  /\ v \in Win
               /\ v.dpi = w.dpi /\ v.page = w.page
               /\ v.scroll = [w.scroll EXCEPT ![a] = View!Clamp(r, 0, View!Largest(w, a))]
               /\ v.bar[a] = View!Bar(w.bar[a].range, w.bar[a].page, v.scroll[a])
               /\ \A b \in View!Axis \ {a} : v.bar[b] = w.bar[b]
               /\ Follows(w) => Follows(v)
<1> DEFINE t == View!Clamp(r, 0, View!Largest(w, a))
           m == w.scroll[a] - t
           set == View!Bar(w.bar[a].range, w.bar[a].page, t)
           v == View!ScrollTo(w, a, r)
<1>1. View!Largest(w, a) \in Nat /\ t \in Nat
  BY LargestNat, Clamped
<1>2. v = [w EXCEPT !.scroll = [w.scroll EXCEPT ![a] = t],
               !.bar = [w.bar EXCEPT ![a] = set],
               !.place = [c \in Control |-> [w.place[c] EXCEPT ![a].first = @ + m]]]
  BY DEF View!ScrollTo
<1> HIDE DEF t, v
<1>s. set \in BarState
  <2>1. w.bar[a].range \in Nat /\ w.bar[a].page \in Nat
    BY DEF Win, BarState
  <2> QED
    BY <1>1, <2>1, BarWhole
<1> HIDE DEF set
<1>3. /\ w.scroll[a] \in Nat /\ m \in Int /\ w.dpi \in Dpis /\ w.dpi \in Nat
      /\ w.dpi >= View!BASE_DPI
  <2>1. w.scroll \in [View!Axis -> Nat] /\ w.dpi \in Dpis
    BY DEF Win
  <2>2. w.scroll[a] \in Nat
    BY <2>1
  <2>3. m \in Int
    BY <1>1, <2>2
  <2> QED
    BY <2>1, <2>2, <2>3, DpiNat
<1> HIDE DEF m
<1>4. /\ v.dpi = w.dpi /\ v.page = w.page
      /\ v.scroll = [w.scroll EXCEPT ![a] = t]
      /\ v.bar = [w.bar EXCEPT ![a] = set]
      /\ v.place = [c \in Control |-> [w.place[c] EXCEPT ![a].first = @ + m]]
  <2> DEFINE moved == [c \in Control |-> [w.place[c] EXCEPT ![a].first = @ + m]]
             s == [w.scroll EXCEPT ![a] = t]
             b == [w.bar EXCEPT ![a] = set]
  <2>1. v = [w EXCEPT !.scroll = s, !.bar = b, !.place = moved]
    BY <1>2 DEF moved, s, b
  <2> HIDE DEF moved, s, b
  <2>2. v.dpi = w.dpi /\ v.page = w.page /\ v.scroll = s /\ v.bar = b /\ v.place = moved
    BY <2>1 DEF Win
  <2> QED
    BY <2>2 DEF moved, s, b
<1>5. v \in Win
  <2>1. ASSUME NEW c \in Control
        PROVE  [w.place[c] EXCEPT ![a].first = @ + m] \in [View!Axis -> [first : Int, size : Int]]
    <3> DEFINE q == w.place[c]
    <3>1. q \in [View!Axis -> [first : Int, size : Int]]
      BY DEF Win
    <3> HIDE DEF q
    <3>2. q[a] \in [first : Int, size : Int]
      BY <3>1
    <3>3. [q[a] EXCEPT !.first = @ + m] \in [first : Int, size : Int]
      BY <1>3, <3>2
    <3>4. [q EXCEPT ![a].first = @ + m] = [q EXCEPT ![a] = [q[a] EXCEPT !.first = @ + m]]
      BY <3>1
    <3>5. [q EXCEPT ![a].first = @ + m] \in [View!Axis -> [first : Int, size : Int]]
      BY <3>1, <3>3, <3>4
    <3> QED
      BY <3>5 DEF q
  <2>2. v.place \in [Control -> [View!Axis -> [first : Int, size : Int]]]
    BY <1>4, <2>1
  <2>3. v.scroll \in [View!Axis -> Nat]
    BY <1>1, <1>4 DEF Win
  <2>4. v.bar \in [View!Axis -> BarState]
    BY <1>4, <1>s DEF Win
  <2> HIDE DEF v
  <2>5. v = [dpi |-> v.dpi, page |-> v.page, scroll |-> v.scroll, bar |-> v.bar,
             place |-> v.place]
    BY <1>2 DEF Win
  <2>6. v.dpi \in Dpis /\ v.page \in [View!Axis -> Nat \ {0}]
    BY <1>4 DEF Win
  <2> QED
    BY <2>2, <2>3, <2>4, <2>5, <2>6 DEF Win
<1>6. v.bar[a] = set /\ v.scroll[a] = t
      /\ \A b \in View!Axis \ {a} : v.bar[b] = w.bar[b]
  BY <1>4 DEF Win
<1>7. ASSUME Follows(w) PROVE Follows(v)
  <2> SUFFICES ASSUME NEW c \in Control, NEW b \in View!Axis
               PROVE  /\ v.place[c][b].first =
                              View!ScaleLogical(Layout[c][b].first, v.dpi) - v.scroll[b]
                      /\ v.place[c][b].size = View!ScaleLogical(Layout[c][b].size, v.dpi)
    BY DEF Follows
  <2> DEFINE f == View!ScaleLogical(Layout[c][b].first, w.dpi)
  <2>1. f \in Int
    BY <1>3, ScaledNat DEF View!LayoutConstants
  <2>2. w.place[c][b].first = f - w.scroll[b]
        /\ w.place[c][b].size = View!ScaleLogical(Layout[c][b].size, w.dpi)
    BY <1>7 DEF Follows
  <2> HIDE DEF f
  <2>3. w.place[c] \in [View!Axis -> [first : Int, size : Int]] /\ w.scroll \in [View!Axis -> Nat]
    BY DEF Win
  <2>4. CASE b = a
    <3>1. v.place[c][b].first = w.place[c][b].first + m
          /\ v.place[c][b].size = w.place[c][b].size
      BY <1>4, <2>3, <2>4
    <3>2. v.scroll[b] = t /\ m = w.scroll[b] - t
      BY <1>4, <2>3, <2>4 DEF m
    <3> QED
      BY <1>1, <1>3, <1>4, <2>1, <2>2, <2>4, <3>1, <3>2 DEF f
  <2>5. CASE b # a
    BY <1>4, <2>2, <2>3, <2>5 DEF f
  <2> QED
    BY <2>4, <2>5
<1> QED
  BY <1>4, <1>5, <1>6, <1>7 DEF v, t, set

\* The position goes back to the end of a page that has shrunk.
LEMMA BroughtWithin ==
    ASSUME View!LayoutConstants, NEW w \in Win, NEW a \in View!Axis
    PROVE  LET v == View!Within(w, a)
           IN  /\ v \in Win /\ v.dpi = w.dpi /\ v.page = w.page
               /\ \A b \in View!Axis \ {a} : v.scroll[b] = w.scroll[b]
               /\ Bounded(v, a)
               /\ Follows(w) => Follows(v)
<1> DEFINE high == View!Largest(w, a)  s == View!ScrollTo(w, a, high)  v == View!Within(w, a)
<1>1. high \in Nat /\ w.scroll \in [View!Axis -> Nat]
  BY LargestNat DEF Win
<1>2. v = IF w.scroll[a] > high THEN s ELSE w
  BY DEF View!Within
<1>3. /\ s \in Win /\ s.dpi = w.dpi /\ s.page = w.page
      /\ s.scroll = [w.scroll EXCEPT ![a] = View!Clamp(high, 0, high)]
      /\ Follows(w) => Follows(s)
  BY <1>1, Scrolled
<1>4. View!Clamp(high, 0, high) = high
  BY <1>1, Clamped
<1> HIDE DEF s, v, high
<1>5. /\ v \in Win /\ v.dpi = w.dpi /\ v.page = w.page
      /\ \A b \in View!Axis \ {a} : v.scroll[b] = w.scroll[b]
      /\ v.scroll[a] <= high
      /\ Follows(w) => Follows(v)
  BY <1>1, <1>2, <1>3, <1>4
<1>6. View!Largest(v, a) = high
  BY <1>5 DEF View!Largest, high
<1> QED
  BY <1>5, <1>6 DEF v, Bounded

\* A bar is written, and nothing else.
LEMMA BarWritten ==
    ASSUME View!LayoutConstants, NEW w \in Win, NEW a \in View!Axis, NEW extent \in Nat
    PROVE  LET v == View!WriteBar(w, a, extent)
           IN  /\ v \in Win /\ v.dpi = w.dpi /\ v.page = w.page /\ v.scroll = w.scroll
               /\ v.place = w.place
               /\ v.bar[a] = View!Bar(View!ScaleLogical(Content[a], w.dpi), extent, w.scroll[a])
               /\ \A b \in View!Axis \ {a} : v.bar[b] = w.bar[b]
<1> DEFINE set == View!Bar(View!ScaleLogical(Content[a], w.dpi), extent, w.scroll[a])
           v == View!WriteBar(w, a, extent)
<1>1. v = [w EXCEPT !.bar = [w.bar EXCEPT ![a] = set]]
  BY DEF View!WriteBar
<1>2. set \in BarState
  <2>1. View!ScaleLogical(Content[a], w.dpi) \in Nat /\ w.scroll[a] \in Nat
    BY LargestNat DEF Win
  <2> QED
    BY <2>1, BarWhole
<1> HIDE DEF set, v
<1> DEFINE bars == [w.bar EXCEPT ![a] = set]
<1>3. bars \in [View!Axis -> BarState] /\ bars[a] = set
      /\ \A b \in View!Axis \ {a} : bars[b] = w.bar[b]
  BY <1>2 DEF Win
<1>4. v = [w EXCEPT !.bar = bars]
  BY <1>1
<1> HIDE DEF bars
<1>5. v = [dpi |-> w.dpi, page |-> w.page, scroll |-> w.scroll, bar |-> bars,
           place |-> w.place]
  BY <1>4 DEF Win
<1> QED
  BY <1>3, <1>5 DEF Win, v, set

\* What the handler of a size leaves as it was.
LEMMA Paged ==
    ASSUME NEW w \in Win, NEW p \in [View!Axis -> Nat \ {0}]
    PROVE  LET v == [w EXCEPT !.page = p]
           IN  /\ v \in Win /\ v.page = p /\ v.dpi = w.dpi /\ v.scroll = w.scroll
               /\ v.bar = w.bar /\ v.place = w.place
BY DEF Win

\* A bar that is written, with the resizing of the client area that it may cause.
LEMMA Written ==
    ASSUME View!LayoutConstants, NEW w \in Win, \A b \in View!Axis : w.page[b] \in Page[b],
           NEW a \in View!Axis, NEW other \in View!Axis, NEW len \in Nat,
           View!WriteAndResize(w, a, len, other)
    PROVE  /\ updating' \in BOOLEAN
           /\ \E v \in Win :
                 /\ View!Become(v) /\ v.dpi = w.dpi /\ v.scroll = w.scroll /\ v.place = w.place
                 /\ v.bar[a] = View!Bar(View!ScaleLogical(Content[a], w.dpi), len, w.scroll[a])
                 /\ \A b \in View!Axis \ {a} : v.bar[b] = w.bar[b]
                 /\ \A b \in View!Axis : v.page[b] \in Page[b]
                 /\ ~updating' => /\ v.page = w.page
                                  /\ View!Shown(v.bar[a]) <=> View!Shown(w.bar[a])
<1> DEFINE u == View!WriteBar(w, a, len)
<1>1. /\ u \in Win /\ u.dpi = w.dpi /\ u.page = w.page /\ u.scroll = w.scroll
      /\ u.place = w.place
      /\ u.bar[a] = View!Bar(View!ScaleLogical(Content[a], w.dpi), len, w.scroll[a])
      /\ \A b \in View!Axis \ {a} : u.bar[b] = w.bar[b]
  BY BarWritten
<1>2. \/ /\ View!Shown(u.bar[a]) = View!Shown(w.bar[a])
         /\ View!Become(u) /\ updating' = FALSE
      \/ /\ \E extent \in Page[other] :
               View!Become([u EXCEPT !.page = [w.page EXCEPT ![other] = extent]])
         /\ updating' = TRUE
  BY Zenon DEF View!WriteAndResize
<1> HIDE DEF u
<1>3. CASE /\ View!Shown(u.bar[a]) = View!Shown(w.bar[a])
           /\ View!Become(u) /\ updating' = FALSE
  <2>1. View!Shown(u.bar[a]) <=> View!Shown(w.bar[a])
    BY <1>3
  <2> QED
    BY <1>1, <1>3, <2>1, Zenon
<1>4. CASE /\ \E extent \in Page[other] :
                  View!Become([u EXCEPT !.page = [w.page EXCEPT ![other] = extent]])
           /\ updating' = TRUE
  <2>1. PICK extent \in Page[other] :
            View!Become([u EXCEPT !.page = [w.page EXCEPT ![other] = extent]])
    BY <1>4
  <2> DEFINE p == [w.page EXCEPT ![other] = extent]  v == [u EXCEPT !.page = p]
  <2>2. p \in [View!Axis -> Nat \ {0}] /\ \A b \in View!Axis : p[b] \in Page[b]
    BY DEF Win, View!LayoutConstants
  <2>3. View!Become(v)
    BY <2>1
  <2> HIDE DEF p
  <2>4. /\ v \in Win /\ v.page = p /\ v.dpi = u.dpi /\ v.scroll = u.scroll
        /\ v.bar = u.bar /\ v.place = u.place
    BY <1>1, <2>2, Paged
  <2> HIDE DEF v
  <2> QED
    BY <1>1, <1>4, <2>2, <2>3, <2>4, Zenon
<1> QED
  BY <1>2, <1>3, <1>4

\* layout_controls, complete or not.
LEMMA LaidOut ==
    ASSUME View!LayoutConstants, NEW w \in Win, NEW some \in SUBSET Control
    PROVE  LET v == View!LayOut(w, some)
           IN  /\ v \in Win /\ v.dpi = w.dpi /\ v.page = w.page
               /\ v.scroll = w.scroll /\ v.bar = w.bar
               /\ some = Control => Follows(v)
<1> DEFINE v == View!LayOut(w, some)
           at(c) == [a \in View!Axis |->
                        [first |-> View!ScaleLogical(Layout[c][a].first, w.dpi) - w.scroll[a],
                         size |-> View!ScaleLogical(Layout[c][a].size, w.dpi)]]
<1>1. v = [w EXCEPT !.place = [c \in Control |-> IF c \in some THEN at(c) ELSE @[c]]]
  BY DEF View!LayOut
<1>2. w.dpi \in Nat /\ w.dpi >= View!BASE_DPI
  BY DEF Win, View!LayoutConstants
<1>3. ASSUME NEW c \in Control PROVE at(c) \in [View!Axis -> [first : Int, size : Int]]
  <2>1. ASSUME NEW a \in View!Axis
        PROVE  /\ View!ScaleLogical(Layout[c][a].first, w.dpi) \in Nat
               /\ View!ScaleLogical(Layout[c][a].size, w.dpi) \in Nat
               /\ w.scroll[a] \in Nat
    BY <1>2, ScaledNat, SMTT(60) DEF View!LayoutConstants, Win
  <2> QED
    BY <2>1
<1>4. \A c \in Control, a \in View!Axis :
         /\ at(c)[a].first = View!ScaleLogical(Layout[c][a].first, w.dpi) - w.scroll[a]
         /\ at(c)[a].size = View!ScaleLogical(Layout[c][a].size, w.dpi)
  OBVIOUS
<1> HIDE DEF v, at
<1>5. /\ v.dpi = w.dpi /\ v.page = w.page /\ v.scroll = w.scroll /\ v.bar = w.bar
      /\ v.place = [c \in Control |-> IF c \in some THEN at(c) ELSE w.place[c]]
  BY <1>1 DEF Win
<1>6. v \in Win
  <2>1. v = [dpi |-> v.dpi, page |-> v.page, scroll |-> v.scroll, bar |-> v.bar,
             place |-> v.place]
    BY <1>1 DEF Win
  <2>2. v.place \in [Control -> [View!Axis -> [first : Int, size : Int]]]
    BY <1>3, <1>5 DEF Win
  <2> QED
    BY <1>5, <2>1, <2>2 DEF Win
<1>7. some = Control => Follows(v)
  BY <1>4, <1>5 DEF Follows
<1> QED
  BY <1>5, <1>6, <1>7 DEF v

-----------------------------------------------------------------------------
\* A window without a failed relayout, when its updates have ended; the pages of
\* the bars of some axes are those of now.
Settled(w, axes) ==
    /\ Follows(w)
    /\ \A a \in View!Axis : Bounded(w, a) /\ BarHolds(w, a)
    /\ \A a \in axes : BarExact(w, a)

\* A page that is scrolled to any place agrees with its bars and controls.
LEMMA ScrolledSettled ==
    ASSUME View!LayoutConstants, NEW w \in Win, NEW a \in View!Axis, NEW r \in Int,
           NEW S, S \subseteq View!Axis
    PROVE  Settled(w, S) => Settled(View!ScrollTo(w, a, r), S)
<1> DEFINE v == View!ScrollTo(w, a, r)
           t == View!Clamp(r, 0, View!Largest(w, a))
<1>1. t \in Nat /\ t <= View!Largest(w, a)
  BY LargestNat, Clamped
<1>2. /\ v \in Win /\ v.dpi = w.dpi /\ v.page = w.page
      /\ v.scroll = [w.scroll EXCEPT ![a] = t]
      /\ v.bar[a] = View!Bar(w.bar[a].range, w.bar[a].page, v.scroll[a])
      /\ \A b \in View!Axis \ {a} : v.bar[b] = w.bar[b]
      /\ Follows(w) => Follows(v)
  BY Scrolled
<1> HIDE DEF v, t
<1>3. v.scroll[a] = t /\ \A b \in View!Axis \ {a} : v.scroll[b] = w.scroll[b]
  BY <1>2 DEF Win
<1>4. \A b \in View!Axis : View!Largest(v, b) = View!Largest(w, b)
  BY <1>2 DEF View!Largest
<1>5. ASSUME Settled(w, S), NEW b \in View!Axis
      PROVE  Bounded(v, b) /\ BarHolds(v, b) /\ (BarExact(w, b) => BarExact(v, b))
  <2>0. Bounded(w, b) /\ BarHolds(w, b)
    BY <1>5 DEF Settled
  <2>1. CASE b = a
    <3> DEFINE all == w.bar[a].range  P == w.bar[a].page  d == v.bar[a]
    <3>0. d = View!Bar(all, P, t)
      BY <1>2, <1>3
    <3>1. all \in Nat /\ P \in Nat /\ w.page[a] \in Nat
      BY DEF Win, BarState
    <3> HIDE DEF all, P, d
    <3>2. /\ d.range = all /\ d.page = View!Min2(P, all)
          /\ d.pos = View!Min2(t, all - d.page)
          /\ View!Shown(d) <=> P < all
      BY <1>1, <3>0, <3>1, BarWhole
    <3>3. View!Shown(w.bar[a]) <=> P < all
      BY DEF View!Shown, all, P
    <3>4. all = View!ScaleLogical(Content[a], w.dpi)
          /\ (View!Shown(w.bar[a]) <=> w.page[a] < View!ScaleLogical(Content[a], w.dpi))
      BY <2>0, <2>1 DEF BarHolds, Tells, all
    <3>5. BarHolds(v, a)
      BY <1>2, <1>3, <3>2, <3>3, <3>4 DEF BarHolds, Tells, d
    <3>6. BarExact(w, a) => BarExact(v, a)
      <4>1. BarExact(w, a) <=> P = View!Min2(w.page[a], all)
        BY DEF BarExact, P, all
      <4>2. P = View!Min2(w.page[a], all) => View!Min2(P, all) = View!Min2(w.page[a], all)
        BY <3>1 DEF View!Min2
      <4> QED
        BY <1>2, <3>2, <4>1, <4>2 DEF BarExact, d
    <3> QED
      BY <1>1, <1>3, <1>4, <2>1, <3>5, <3>6 DEF Bounded
  <2>2. CASE b # a
    BY <1>2, <1>3, <1>4, <2>0, <2>2 DEF BarHolds, Tells, BarExact, Bounded
  <2> QED
    BY <2>1, <2>2
<1>6. Settled(w, S) => Settled(v, S)
  BY <1>2, <1>5 DEF Settled
<1> QED
  BY <1>6 DEF v

\* One axis of Visible and Fits, of a window as a record.
InView(w, a, c) == w.place[c][a].first >= 0 /\ w.place[c][a].first + w.place[c][a].size <= w.page[a]
FitsIn(w, a, c) == w.place[c][a].size + 2 * View!Max2(View!ScaleLogical(12, w.dpi), 1) <= w.page[a]

\* ensure_focus_visible on one axis brings into view what fits with its margins.
LEMMA Revealed ==
    ASSUME View!LayoutConstants, NEW w \in Win, NEW a \in View!Axis, NEW c \in Control,
           NEW S, S \subseteq View!Axis
    PROVE  LET v == View!Reveal(w, a, c)
           IN  /\ v \in Win /\ v.dpi = w.dpi /\ v.page = w.page
               /\ \A b \in View!Axis \ {a} : v.scroll[b] = w.scroll[b]
               /\ Settled(w, S) => Settled(v, S)
               /\ Settled(w, S) /\ FitsIn(w, a, c) => InView(v, a, c)
<1> DEFINE v == View!Reveal(w, a, c)
           first == w.place[c][a].first
           size == w.place[c][a].size
           margin == View!Max2(View!ScaleLogical(12, w.dpi), 1)
           extent == w.page[a]
           high == View!Largest(w, a)
           up == w.scroll[a] + first - margin
           down == w.scroll[a] + (first + size) - extent + margin
<1>1. /\ w.place \in [Control -> [View!Axis -> [first : Int, size : Int]]]
      /\ w.scroll \in [View!Axis -> Nat] /\ w.page \in [View!Axis -> Nat \ {0}] /\ w.dpi \in Dpis
  BY DEF Win
<1>2. View!ScaleLogical(12, w.dpi) \in Nat
  BY <1>1, DpiNat, ScaledNat
<1>3. /\ first \in Int /\ size \in Int /\ margin \in Nat \ {0} /\ extent \in Nat \ {0}
      /\ w.scroll[a] \in Nat /\ high \in Nat
  BY <1>1, <1>2, LargestNat DEF View!Max2
<1>4. up \in Int /\ down \in Int
  BY <1>3
<1>5. v = IF first < margin THEN View!ScrollTo(w, a, up)
          ELSE IF first + size > extent - margin THEN View!ScrollTo(w, a, down)
          ELSE w
  BY DEF View!Reveal
<1>6. ASSUME NEW r \in Int, v = View!ScrollTo(w, a, r)
      PROVE  /\ v \in Win /\ v.dpi = w.dpi /\ v.page = w.page
             /\ \A b \in View!Axis \ {a} : v.scroll[b] = w.scroll[b]
             /\ v.scroll[a] = View!Clamp(r, 0, high)
             /\ Settled(w, S) => Settled(v, S)
  <2>1. /\ v \in Win /\ v.dpi = w.dpi /\ v.page = w.page
        /\ v.scroll = [w.scroll EXCEPT ![a] = View!Clamp(r, 0, high)]
    BY <1>6, Scrolled
  <2>2. Settled(w, S) => Settled(v, S)
    BY <1>6, ScrolledSettled
  <2> HIDE DEF v, high
  <2> QED
    BY <1>1, <2>1, <2>2
<1>7. /\ v \in Win /\ v.dpi = w.dpi /\ v.page = w.page
      /\ \A b \in View!Axis \ {a} : v.scroll[b] = w.scroll[b]
      /\ Settled(w, S) => Settled(v, S)
  <2>1. CASE first < margin
    BY <1>4, <1>5, <1>6, <2>1, SMTT(60)
  <2>2. CASE ~(first < margin) /\ first + size > extent - margin
    BY <1>4, <1>5, <1>6, <2>2, Zenon
  <2>3. CASE ~(first < margin) /\ ~(first + size > extent - margin)
    BY <1>5, <2>3
  <2> QED
    BY <2>1, <2>2, <2>3, SMTT(60)
<1>8. ASSUME Settled(w, S), FitsIn(w, a, c) PROVE InView(v, a, c)
  <2> DEFINE f == View!ScaleLogical(Layout[c][a].first, w.dpi)
             z == View!ScaleLogical(Layout[c][a].size, w.dpi)
             all == View!ScaleLogical(Content[a], w.dpi)
  <2>1. f \in Nat /\ z \in Nat /\ all \in Nat /\ f + z <= all
    <3> DEFINE q == Layout[c][a]
    <3>1. q \in [first : Nat, size : Nat \ {0}] /\ Content[a] \in Nat
          /\ q.first + q.size < Content[a]
      BY DEF View!LayoutConstants
    <3> HIDE DEF q
    <3>2. q.first \in Nat /\ q.size \in Nat
      BY <3>1
    <3>3. w.dpi \in Nat /\ w.dpi >= View!BASE_DPI
      BY <1>1, DpiNat
    <3>4. /\ View!ScaleLogical(q.first, w.dpi) + View!ScaleLogical(q.size, w.dpi) <= all
          /\ View!ScaleLogical(q.first, w.dpi) \in Nat /\ View!ScaleLogical(q.size, w.dpi) \in Nat
          /\ all \in Nat
      BY <3>1, <3>2, <3>3, ScaledNat, PartsFit
    <3> QED
      BY <3>4 DEF q
  <2>2. first = f - w.scroll[a] /\ size = z /\ w.scroll[a] <= high
    BY <1>8 DEF Settled, Follows, Bounded
  <2>3. v.place[c][a].first = f - v.scroll[a] /\ v.place[c][a].size = z
    BY <1>7, <1>8 DEF Settled, Follows
  <2>4. z + 2 * margin <= extent
    BY <1>8, <2>2 DEF FitsIn
  <2>5. high >= all - extent
    BY LargestNat
  <2> DEFINE s == v.scroll[a]
  <2>6. s \in Int /\ (f - s >= 0 /\ f - s + z <= extent)
    <3>1. CASE first < margin
      <4>1. s = View!Clamp(up, 0, high)
        BY <1>4, <1>5, <1>6, <3>1
      <4> HIDE DEF v, s, f, z, all, first, size, margin, extent, high, up
      <4>2. up = f - margin
        BY <1>3, <2>1, <2>2 DEF up
      <4>3. up <= high
        BY <1>3, <2>1, <2>2, <3>1, <4>2
      <4>4. s = IF up < 0 THEN 0 ELSE up
        BY <1>3, <1>4, <4>1, <4>3 DEF View!Clamp, View!Min2, View!Max2
      <4> QED
        BY <1>3, <1>4, <2>1, <2>4, <4>2, <4>4
    <3>2. CASE ~(first < margin) /\ first + size > extent - margin
      <4>1. s = View!Clamp(down, 0, high)
        BY <1>4, <1>5, <1>6, <3>2, Zenon
      <4> HIDE DEF v, s, f, z, all, first, size, margin, extent, high, down
      <4>2. down = f + z - extent + margin
        BY <1>3, <2>1, <2>2 DEF down
      <4>3. s = IF down < 0 THEN 0 ELSE IF down > high THEN high ELSE down
        BY <1>3, <1>4, <4>1 DEF View!Clamp, View!Min2, View!Max2
      <4> QED
        BY <1>3, <1>4, <2>1, <2>4, <2>5, <4>2, <4>3, SMTT(60)
    <3>3. CASE ~(first < margin) /\ ~(first + size > extent - margin)
      <4>1. s = w.scroll[a]
        BY <1>5, <3>3
      <4> HIDE DEF s, f, z, all, first, size, margin, extent, high
      <4> QED
        BY <1>3, <2>1, <2>2, <3>3, <4>1
    <3> QED
      BY <3>1, <3>2, <3>3
  <2> QED
    BY <1>7, <2>3, <2>6 DEF InView
<1> QED
  BY <1>7, <1>8

\* ensure_focus_visible on both axes.
LEMMA FocusRevealed ==
    ASSUME View!LayoutConstants, NEW w \in Win, NEW c \in Control, NEW S, S \subseteq View!Axis
    PROVE  LET v == View!Reveal(View!Reveal(w, "x", c), "y", c)
           IN  /\ v \in Win /\ v.dpi = w.dpi /\ v.page = w.page
               /\ Settled(w, S) => Settled(v, S)
               /\ Settled(w, S) /\ (\A a \in View!Axis : FitsIn(v, a, c)) =>
                     \A a \in View!Axis : InView(v, a, c)
<1> DEFINE u == View!Reveal(w, "x", c)  v == View!Reveal(u, "y", c)
<1>0. "x" \in View!Axis /\ "y" \in View!Axis /\ View!Axis = {"x", "y"}
  BY DEF View!Axis
<1>1. /\ u \in Win /\ u.dpi = w.dpi /\ u.page = w.page
      /\ Settled(w, S) => Settled(u, S)
      /\ Settled(w, S) /\ FitsIn(w, "x", c) => InView(u, "x", c)
  BY <1>0, Revealed
<1> HIDE DEF u
<1>2. /\ v \in Win /\ v.dpi = u.dpi /\ v.page = u.page
      /\ \A b \in View!Axis \ {"y"} : v.scroll[b] = u.scroll[b]
      /\ Settled(u, S) => Settled(v, S)
      /\ Settled(u, S) /\ FitsIn(u, "y", c) => InView(v, "y", c)
  BY <1>0, <1>1, Revealed
<1> HIDE DEF v
<1>3. ASSUME Settled(w, S), \A a \in View!Axis : FitsIn(v, a, c)
      PROVE  \A a \in View!Axis : InView(v, a, c)
  <2>1. Settled(u, S) /\ Settled(v, S)
    BY <1>1, <1>2, <1>3
  <2>2. /\ \A a \in View!Axis : /\ w.place[c][a].size = v.place[c][a].size
                           /\ u.place[c][a].size = v.place[c][a].size
        /\ u.place[c]["x"].first = v.place[c]["x"].first
    BY <1>0, <1>1, <1>2, <1>3, <2>1 DEF Settled, Follows
  <2>3. FitsIn(w, "x", c) /\ FitsIn(u, "y", c)
    BY <1>0, <1>1, <1>2, <1>3, <2>2 DEF FitsIn
  <2>4. InView(u, "x", c) /\ InView(v, "y", c)
    BY <1>1, <1>2, <1>3, <2>1, <2>3
  <2>5. InView(v, "x", c)
    BY <1>0, <1>1, <1>2, <2>2, <2>4 DEF InView
  <2> QED
    BY <1>0, <2>4, <2>5
<1>4. /\ v \in Win /\ v.dpi = w.dpi /\ v.page = w.page
      /\ Settled(w, S) => Settled(v, S)
  BY <1>1, <1>2
<1> QED
  BY <1>3, <1>4 DEF u, v

-----------------------------------------------------------------------------
\* update_scrollbar between its two halves, when it will write a bar of that height.
Ready(w, height) ==
    /\ \A a \in View!Axis : Bounded(w, a)
    /\ BarHolds(w, "x") /\ BarExact(w, "x")
    /\ height = w.page["y"] \/ Tells(w, "y")

ExactAxes == IF interrupted THEN {"x"} ELSE View!Axis

ViewTypes ==
    /\ View!WindowState \in Win
    /\ \A a \in View!Axis : page[a] \in Page[a]
    /\ focus \in Control \cup {NoControl}
    /\ failed \in BOOLEAN /\ updating \in BOOLEAN /\ relayout \in BOOLEAN
    /\ interrupted \in BOOLEAN
    /\ heights \in Seq(Nat)
    /\ messages \in Nat

\* The inductive invariant: TypeOK with what Windows keeps, Settled once the updates
\* have ended, and what those that go on have left so far.  A height that is not that
\* of now is written only where a nested update has put the vertical bar right.
ViewInv ==
    /\ ViewTypes
    /\ ~failed /\ ~relayout => Follows(View!WindowState)
    /\ ~failed /\ View!Idle => Settled(View!WindowState, ExactAxes)
    /\ ~updating /\ heights # <<>> => Ready(View!WindowState, Head(heights))
    /\ ~interrupted /\ heights # <<>> => ~updating /\ heights = <<page["y"]>>

\* A window becomes exactly what a message makes of it.
LEMMA Whole ==
    ASSUME NEW v \in Win, View!Become(v)
    PROVE  View!WindowState' = v
<1>1. v = [dpi |-> v.dpi, page |-> v.page, scroll |-> v.scroll, bar |-> v.bar,
           place |-> v.place]
  BY DEF Win
<1> QED
  BY <1>1 DEF View!Become, View!WindowState

\* What a step leaves keeps the invariant, if it does so as a record.
LEMMA Handled ==
    ASSUME NEW v \in Win, View!Become(v), \A a \in View!Axis : v.page[a] \in Page[a],
           messages' \in Nat, focus' \in Control \cup {NoControl},
           failed' \in BOOLEAN, updating' \in BOOLEAN, relayout' \in BOOLEAN,
           interrupted' \in BOOLEAN, heights' \in Seq(Nat),
           ~failed' /\ ~relayout' => Follows(v),
           ~failed' /\ ~updating' /\ heights' = <<>> /\ ~relayout' => Settled(v, ExactAxes'),
           ~updating' /\ heights' # <<>> => Ready(v, Head(heights')),
           ~interrupted' /\ heights' # <<>> => ~updating' /\ heights' = <<v.page["y"]>>
    PROVE  ViewInv'
<1>1. View!WindowState' = v
  BY Whole
<1>2. page' = v.page
  BY DEF View!Become
<1>3. ViewTypes'
  BY <1>1, <1>2 DEF ViewTypes
<1>4. Follows(View!WindowState)' <=> Follows(v)
  BY <1>1 DEF Follows
<1>5. Settled(View!WindowState, ExactAxes)' <=> Settled(v, ExactAxes')
  BY <1>1
     DEF Settled, Follows, BarHolds, Tells, BarExact, Bounded, View!Largest, ExactAxes
<1>6. Ready(View!WindowState, Head(heights))' <=> Ready(v, Head(heights'))
  BY <1>1 DEF Ready, BarHolds, Tells, BarExact, Bounded, View!Largest
<1>7. View!Idle' <=> ~updating' /\ heights' = <<>> /\ ~relayout'
  BY DEF View!Idle
<1> QED
  BY <1>2, <1>3, <1>4, <1>5, <1>6, <1>7 DEF ViewInv

\* So does what a message leaves that only scrolls the page.
LEMMA Kept ==
    ASSUME ViewInv, NEW v \in Win, View!Become(v), v.page = page, View!Message, View!Quiet,
           focus' \in Control \cup {NoControl},
           ~failed => Settled(v, ExactAxes)
    PROVE  ViewInv'
<1>1. /\ messages' \in Nat /\ \A a \in View!Axis : v.page[a] \in Page[a]
      /\ failed' = failed /\ failed \in BOOLEAN /\ updating' = updating /\ relayout' = relayout
      /\ interrupted' = interrupted /\ interrupted \in BOOLEAN /\ heights' = heights
      /\ heights \in Seq(Nat)
      /\ updating = FALSE /\ heights = <<>> /\ relayout = FALSE
  BY DEF ViewInv, ViewTypes, View!Message, View!Quiet, View!Idle
<1>2. ExactAxes' = ExactAxes
  BY <1>1 DEF ExactAxes
<1>3. ~failed => Follows(v)
  BY DEF Settled
<1> QED
  BY <1>1, <1>2, <1>3, Handled

\* What the invariant says field by field.
LEMMA ViewFields ==
    /\ View!WindowState.dpi = dpi /\ View!WindowState.page = page
    /\ View!WindowState.scroll = scroll
    /\ View!WindowState.bar = bar /\ View!WindowState.place = place
BY DEF View!WindowState

\* The invariant holds initially.
LEMMA ViewInit == ASSUME View!LayoutConstants, View!Init PROVE ViewInv
<1>0. PICK d \in Dpis, x \in Page["x"], y \in Page["y"] :
          dpi = d /\ page = [a \in View!Axis |-> IF a = "x" THEN x ELSE y]
  BY DEF View!Init
<1> DEFINE p == [a \in View!Axis |-> IF a = "x" THEN x ELSE y]
<1>1. /\ \A a \in View!Axis : p[a] \in Page[a]
      /\ dpi = d /\ page = p /\ scroll = [a \in View!Axis |-> 0]
      /\ bar = [a \in View!Axis |-> [range |-> 101, page |-> 0, pos |-> 0]]
      /\ place = [c \in Control |->
                     [a \in View!Axis |->
                        [first |-> View!ScaleLogical(Layout[c][a].first, d),
                         size |-> View!ScaleLogical(Layout[c][a].size, d)]]]
  <2>1. \A a \in View!Axis : p[a] \in Page[a]
    BY DEF View!Axis
  <2> QED
    BY <1>0, <2>1 DEF View!Init
<1> HIDE DEF p
<1> DEFINE w == View!WindowState
<1>2. p \in [View!Axis -> Nat \ {0}]
  BY <1>1 DEF View!LayoutConstants, p
<1>3. \A c \in Control, a \in View!Axis :
         /\ View!ScaleLogical(Layout[c][a].first, d) \in Nat
         /\ View!ScaleLogical(Layout[c][a].size, d) \in Nat
  <2>1. \A c \in Control, a \in View!Axis :
           Layout[c][a].first \in Nat /\ Layout[c][a].size \in Nat
    <3>1. Layout \in [Control -> [View!Axis -> [first : Nat, size : Nat \ {0}]]]
      BY DEF View!LayoutConstants
    <3> QED
      BY <3>1
  <2>2. d \in Nat /\ d >= View!BASE_DPI
    BY DpiNat
  <2> QED
    BY <2>1, <2>2, ScaledNat
<1>4. w.dpi \in Dpis /\ w.page \in [View!Axis -> Nat \ {0}] /\ w.scroll \in [View!Axis -> Nat]
      /\ w.bar \in [View!Axis -> BarState]
  BY <1>1, <1>2, ViewFields DEF BarState
<1>5. w.place \in [Control -> [View!Axis -> [first : Int, size : Int]]]
  BY <1>1, <1>3, ViewFields
<1>6. w \in Win
  BY <1>4, <1>5, ViewFields DEF View!WindowState, Win
<1>7. Follows(w)
  <2> SUFFICES ASSUME NEW c \in Control, NEW a \in View!Axis
               PROVE  /\ w.place[c][a].first =
                              View!ScaleLogical(Layout[c][a].first, w.dpi) - w.scroll[a]
                      /\ w.place[c][a].size = View!ScaleLogical(Layout[c][a].size, w.dpi)
    BY DEF Follows
  <2>1. /\ place[c][a].first = View!ScaleLogical(Layout[c][a].first, d)
        /\ place[c][a].size = View!ScaleLogical(Layout[c][a].size, d)
        /\ scroll[a] = 0 /\ dpi = d
    BY <1>1
  <2> QED
    BY <1>3, <2>1, ViewFields
<1>8. /\ focus \in Control \cup {NoControl} /\ messages \in Nat
      /\ failed = FALSE /\ updating = TRUE /\ relayout = FALSE /\ interrupted = FALSE
      /\ heights = <<>> /\ \A a \in View!Axis : page[a] \in Page[a]
  BY <1>1 DEF View!Init
<1> HIDE DEF w
<1>9. <<>> \in Seq(Nat)
  OBVIOUS
<1> QED
  BY <1>6, <1>7, <1>8, <1>9 DEF ViewInv, ViewTypes, View!Idle, w

\* What a message of the queue leaves: the focus is in view.
LEMMA Focused ==
    ASSUME View!LayoutConstants, ViewInv, NEW w \in Win, w.page = page,
           ~failed => Settled(w, ExactAxes),
           focus' \in Control \cup {NoControl}, View!Become(View!EnsureFocusVisible(w, focus')),
           View!Message, View!Quiet
    PROVE  ViewInv' /\ View!FocusInView'
<1>1. CASE focus' \in Control
  <2>0. PICK c \in Control : c = focus'
    BY <1>1
  <2> DEFINE v == View!Reveal(View!Reveal(w, "x", c), "y", c)
  <2>s. ExactAxes \subseteq View!Axis
    BY DEF ExactAxes, View!Axis
  <2>1. c # NoControl /\ View!Become(v)
    BY <2>0 DEF View!LayoutConstants, View!EnsureFocusVisible
  <2>2. /\ v \in Win /\ v.page = w.page
        /\ Settled(w, ExactAxes) => Settled(v, ExactAxes)
        /\ Settled(w, ExactAxes) /\ (\A a \in View!Axis : FitsIn(v, a, c)) =>
              \A a \in View!Axis : InView(v, a, c)
    BY <2>s, FocusRevealed
  <2> HIDE DEF v
  <2>3. ViewInv'
    BY <2>1, <2>2, Kept
  <2>4. place' = v.place /\ page' = v.page /\ dpi' = v.dpi
    BY <2>1 DEF View!Become
  <2>5. View!FocusInView'
    <3>f. failed' = failed
      BY DEF View!Quiet
    <3> SUFFICES ASSUME ~failed', View!Fits(c)', NEW a \in View!Axis
                 PROVE  /\ place'[c][a].first >= 0
                        /\ place'[c][a].first + place'[c][a].size <= page'[a]
      BY <2>0 DEF View!FocusInView, View!Visible, View!Fits
    <3>1. \A b \in View!Axis : FitsIn(v, b, c)
      BY <2>4 DEF View!Fits, FitsIn
    <3>2. InView(v, a, c)
      BY <2>2, <3>f, <3>1
    <3> QED
      BY <2>4, <3>2 DEF InView
  <2> QED
    BY <2>3, <2>5
<1>2. CASE focus' = NoControl
  <2>1. View!EnsureFocusVisible(w, focus') = w
    BY <1>2 DEF View!EnsureFocusVisible
  <2>2. View!Become(w)
    BY <2>1
  <2>3. ViewInv'
    BY <2>2, Kept
  <2>4. View!FocusInView'
    BY <1>2 DEF View!FocusInView, View!LayoutConstants
  <2> QED
    BY <2>3, <2>4
<1> QED
  BY <1>1, <1>2

\* After a message of the queue the focus is in view,
LEMMA QueuedStep ==
    ASSUME View!LayoutConstants, ViewInv, View!QueuedMessage
    PROVE  ViewInv' /\ View!FocusInView'
<1>1. View!WindowState.page = page /\ focus' \in Control \cup {NoControl}
  BY ViewFields DEF ViewInv, ViewTypes, View!QueuedMessage
<1> QED
  BY <1>1, Focused DEF View!QueuedMessage, View!Message, ViewInv, ViewTypes

\* and after a turn of the wheel.
LEMMA WheelStep ==
    ASSUME View!LayoutConstants, ViewInv, View!Wheel
    PROVE  ViewInv' /\ View!FocusInView'
<1> DEFINE line == View!Max2(View!ScaleLogical(32, dpi), 1)
<1>1. PICK turn \in {-1, 1} :
          View!Become(View!EnsureFocusVisible(
              View!ScrollTo(View!WindowState, "y", scroll["y"] - turn * line * 3), focus))
  BY DEF View!Wheel
<1> DEFINE r == scroll["y"] - turn * line * 3
           v == View!ScrollTo(View!WindowState, "y", r)
<1>2. "y" \in View!Axis
  BY DEF View!Axis
<1>3. View!WindowState \in Win /\ dpi \in Dpis /\ scroll["y"] \in Nat
  BY <1>2 DEF ViewInv, ViewTypes, View!WindowState, Win
<1>s. ExactAxes \subseteq View!Axis
  BY DEF ExactAxes, View!Axis
<1>4. line \in Nat
  BY <1>3, DpiNat, ScaledNat DEF View!Max2
<1> HIDE DEF line
<1>5. r \in Int
  BY <1>3, <1>4
<1> HIDE DEF r
<1>6. /\ v \in Win /\ v.page = page
      /\ Settled(View!WindowState, ExactAxes) => Settled(v, ExactAxes)
  BY <1>2, <1>3, <1>5, <1>s, Scrolled, ScrolledSettled, ViewFields, ZenonT(60)
<1>7. View!Become(View!EnsureFocusVisible(v, focus'))
  BY <1>1 DEF r, line, View!Wheel
<1> HIDE DEF v
<1> QED
  BY <1>6, <1>7, Focused DEF View!Wheel, View!Message, ViewInv, ViewTypes

\* A bar that has just been written.
LEMMA Fresh ==
    ASSUME View!LayoutConstants, NEW w \in Win, NEW a \in View!Axis, NEW extent \in Nat,
           w.bar[a] = View!Bar(View!ScaleLogical(Content[a], w.dpi), extent, w.scroll[a])
    PROVE  /\ w.bar[a].range = View!ScaleLogical(Content[a], w.dpi)
           /\ w.bar[a].pos = View!Min2(w.scroll[a], w.bar[a].range - w.bar[a].page)
           /\ View!Shown(w.bar[a]) <=> extent < View!ScaleLogical(Content[a], w.dpi)
           /\ extent = w.page[a] => BarHolds(w, a) /\ BarExact(w, a)
<1>1. View!ScaleLogical(Content[a], w.dpi) \in Nat /\ w.scroll[a] \in Nat
  BY LargestNat DEF Win
<1> DEFINE all == View!ScaleLogical(Content[a], w.dpi)  b == w.bar[a]
<1>2. /\ b.range = all /\ b.page = View!Min2(extent, all)
      /\ b.pos = View!Min2(w.scroll[a], all - b.page)
      /\ View!Shown(b) <=> extent < all
  BY <1>1, BarWhole
<1> HIDE DEF all, b
<1>3. extent = w.page[a] => BarHolds(w, a) /\ BarExact(w, a)
  BY <1>2 DEF BarHolds, BarExact, Tells, all, b
<1> QED
  BY <1>2, <1>3 DEF all, b

\* The first half of update_scrollbar: everything that a resize could have left is put
\* right, and the height it has read is that of now unless the bar changed it.
LEMMA HorizontalStep ==
    ASSUME View!LayoutConstants, ViewInv, View!WriteHorizontal
    PROVE  ViewInv'
<1> DEFINE w == View!WindowState  u == View!Within(w, "x")  t == View!Within(u, "y")
<1>0. "x" \in View!Axis /\ "y" \in View!Axis /\ View!Axis = {"x", "y"} /\ "x" # "y"
  BY DEF View!Axis
<1>1. /\ w \in Win /\ w.page = page /\ \A a \in View!Axis : page[a] \in Page[a]
      /\ (~failed /\ ~relayout => Follows(w))
  BY ViewFields DEF ViewInv, ViewTypes
<1>2. View!WriteAndResize(t, "x", t.page["x"], "y")
  BY DEF View!WriteHorizontal
<1> HIDE DEF w
<1>3. /\ u \in Win /\ u.dpi = w.dpi /\ u.page = w.page /\ Bounded(u, "x")
      /\ Follows(w) => Follows(u)
  BY <1>0, <1>1, BroughtWithin
<1> HIDE DEF u
<1>4. /\ t \in Win /\ t.dpi = u.dpi /\ t.page = u.page /\ Bounded(t, "y")
      /\ t.scroll["x"] = u.scroll["x"]
      /\ Follows(u) => Follows(t)
  BY <1>0, <1>3, BroughtWithin
<1> HIDE DEF t
<1>5. Bounded(t, "x")
  BY <1>0, <1>3, <1>4 DEF Bounded, View!Largest
<1>6. t.page["x"] \in Nat /\ page["y"] \in Nat
  BY <1>0, <1>1, <1>3, <1>4 DEF Win
<1>7. /\ updating' \in BOOLEAN
      /\ \E v \in Win :
            /\ View!Become(v) /\ v.dpi = t.dpi /\ v.scroll = t.scroll /\ v.place = t.place
            /\ v.bar["x"] =
                   View!Bar(View!ScaleLogical(Content["x"], t.dpi), t.page["x"], t.scroll["x"])
            /\ \A b \in View!Axis \ {"x"} : v.bar[b] = t.bar[b]
            /\ \A b \in View!Axis : v.page[b] \in Page[b]
            /\ ~updating' => /\ v.page = t.page
                             /\ View!Shown(v.bar["x"]) <=> View!Shown(t.bar["x"])
  <2>1. \A b \in View!Axis : t.page[b] \in Page[b]
    BY <1>1, <1>3, <1>4
  <2> QED
    BY <1>0, <1>2, <1>4, <1>6, <2>1, Written
<1>8. PICK v \in Win :
          /\ View!Become(v) /\ v.dpi = t.dpi /\ v.scroll = t.scroll /\ v.place = t.place
          /\ v.bar["x"] =
                 View!Bar(View!ScaleLogical(Content["x"], t.dpi), t.page["x"], t.scroll["x"])
          /\ \A b \in View!Axis : v.page[b] \in Page[b]
          /\ ~updating' => v.page = t.page
  BY <1>7
<1>9. /\ heights' = <<page["y"]>> \o heights /\ heights \in Seq(Nat) /\ updating = TRUE
      /\ interrupted' = (interrupted \/ updating') /\ interrupted \in BOOLEAN
      /\ focus' = focus /\ focus \in Control \cup {NoControl}
      /\ failed' = failed /\ failed \in BOOLEAN /\ relayout' = relayout /\ relayout \in BOOLEAN
      /\ messages' = messages /\ messages \in Nat
  BY DEF View!WriteHorizontal, ViewInv, ViewTypes
<1>10. heights' \in Seq(Nat) /\ heights' # <<>> /\ Head(heights') = page["y"]
  BY <1>6, <1>9
<1>11. Follows(t) => Follows(v)
  BY <1>8 DEF Follows
<1>12. ASSUME ~updating' PROVE Ready(v, page["y"])
  <2>1. Bounded(v, "x") /\ Bounded(v, "y")
    BY <1>4, <1>5, <1>8, <1>12 DEF Bounded, View!Largest
  <2>2. BarHolds(v, "x") /\ BarExact(v, "x")
    BY <1>0, <1>6, <1>8, <1>12, Fresh
  <2>3. v.page["y"] = page["y"]
    BY <1>1, <1>3, <1>4, <1>8, <1>12
  <2> QED
    BY <1>0, <2>1, <2>2, <2>3 DEF Ready
<1>13. ASSUME ~interrupted' PROVE ~updating' /\ heights' = <<v.page["y"]>>
  <2>1. ~interrupted /\ ~updating'
    BY <1>7, <1>9, <1>13
  <2>2. heights = <<>>
    BY <1>9, <2>1 DEF ViewInv
  <2> QED
    BY <1>1, <1>3, <1>4, <1>8, <1>6, <1>9, <2>1, <2>2
<1>14. interrupted' \in BOOLEAN
  BY <1>7, <1>9
<1> QED
  BY <1>1, <1>3, <1>4, <1>7, <1>8, <1>9, <1>10, <1>11, <1>12, <1>13, <1>14, Handled

\* The second half: a height of before shows or hides nothing that the height of now
\* would not, or else WM_SIZE makes up for it.
LEMMA VerticalStep ==
    ASSUME View!LayoutConstants, ViewInv, View!WriteVertical
    PROVE  ViewInv'
<1> DEFINE w == View!WindowState  h == Head(heights)
<1>0. "x" \in View!Axis /\ "y" \in View!Axis /\ View!Axis = {"x", "y"} /\ "x" # "y"
  BY DEF View!Axis
<1>1. /\ w \in Win /\ w.page = page /\ \A a \in View!Axis : page[a] \in Page[a]
      /\ (~failed /\ ~relayout => Follows(w))
  BY ViewFields DEF ViewInv, ViewTypes
<1>2. /\ ~updating /\ heights # <<>> /\ heights' = Tail(heights) /\ heights \in Seq(Nat)
      /\ interrupted' = interrupted /\ interrupted \in BOOLEAN
      /\ focus' = focus /\ focus \in Control \cup {NoControl}
      /\ failed' = failed /\ failed \in BOOLEAN /\ relayout' = relayout /\ relayout \in BOOLEAN
      /\ messages' = messages /\ messages \in Nat
  BY DEF View!WriteVertical, ViewInv, ViewTypes
<1>3. View!WriteAndResize(w, "y", h, "x")
  BY DEF View!WriteVertical
<1>4. Ready(w, h) /\ (~interrupted => heights = <<page["y"]>>)
  BY <1>2 DEF ViewInv
<1>5. h \in Nat /\ heights' \in Seq(Nat)
      /\ (~interrupted => h = page["y"] /\ heights' = <<>>)
  <2>1. h \in Nat /\ heights' \in Seq(Nat)
    BY <1>2
  <2>2. PICK q : q = page["y"]
    OBVIOUS
  <2>3. Head(<<q>>) = q /\ Tail(<<q>>) = <<>>
    OBVIOUS
  <2> QED
    BY <1>2, <1>4, <2>1, <2>2, <2>3
<1> HIDE DEF w, h
<1>6. /\ updating' \in BOOLEAN
      /\ \E v \in Win :
            /\ View!Become(v) /\ v.dpi = w.dpi /\ v.scroll = w.scroll /\ v.place = w.place
            /\ v.bar["y"] = View!Bar(View!ScaleLogical(Content["y"], w.dpi), h, w.scroll["y"])
            /\ \A b \in View!Axis \ {"y"} : v.bar[b] = w.bar[b]
            /\ \A b \in View!Axis : v.page[b] \in Page[b]
            /\ ~updating' => /\ v.page = w.page
                             /\ View!Shown(v.bar["y"]) <=> View!Shown(w.bar["y"])
  <2>1. \A b \in View!Axis : w.page[b] \in Page[b]
    BY <1>1
  <2> QED
    BY <1>0, <1>1, <1>3, <1>5, <2>1, Written
<1>7. PICK v \in Win :
          /\ View!Become(v) /\ v.dpi = w.dpi /\ v.scroll = w.scroll /\ v.place = w.place
          /\ v.bar["y"] = View!Bar(View!ScaleLogical(Content["y"], w.dpi), h, w.scroll["y"])
          /\ v.bar["x"] = w.bar["x"]
          /\ \A b \in View!Axis : v.page[b] \in Page[b]
          /\ ~updating' => /\ v.page = w.page
                           /\ View!Shown(v.bar["y"]) <=> View!Shown(w.bar["y"])
  BY <1>0, <1>6
<1>8. Follows(w) => Follows(v)
  BY <1>7 DEF Follows
<1>9. ASSUME ~updating'
      PROVE  /\ \A a \in View!Axis : Bounded(v, a) /\ BarHolds(v, a)
             /\ BarExact(v, "x") /\ (h = page["y"] => BarExact(v, "y"))
  <2>1. \A a \in View!Axis : Bounded(v, a)
    BY <1>4, <1>7, <1>9 DEF Ready, Bounded, View!Largest
  <2>2. BarHolds(v, "x") /\ BarExact(v, "x")
    BY <1>4, <1>7, <1>9 DEF Ready, BarHolds, BarExact, Tells
  <2>3. /\ v.bar["y"].range = View!ScaleLogical(Content["y"], v.dpi)
        /\ v.bar["y"].pos = View!Min2(v.scroll["y"], v.bar["y"].range - v.bar["y"].page)
        /\ View!Shown(v.bar["y"]) <=> h < View!ScaleLogical(Content["y"], v.dpi)
        /\ h = v.page["y"] => BarHolds(v, "y") /\ BarExact(v, "y")
    BY <1>0, <1>5, <1>7, Fresh
  <2>4. Tells(w, "y") => Tells(v, "y")
    BY <1>7, <1>9 DEF Tells
  <2>5. BarHolds(v, "y")
    <3>1. h = v.page["y"] \/ Tells(w, "y")
      BY <1>4, <1>7, <1>9 DEF Ready
    <3> QED
      BY <2>3, <2>4, <3>1 DEF BarHolds
  <2>6. h = page["y"] => BarExact(v, "y")
    BY <1>1, <1>7, <1>9, <2>3
  <2> QED
    BY <1>0, <2>1, <2>2, <2>5, <2>6
<1>10. ASSUME ~updating' PROVE Ready(v, Head(heights'))
  BY <1>0, <1>9, <1>10 DEF Ready, BarHolds
<1>11. ASSUME ~failed', ~updating', ~relayout' PROVE Settled(v, ExactAxes')
  <2>1. \A a \in ExactAxes' : BarExact(v, a)
    BY <1>0, <1>2, <1>5, <1>9, <1>11 DEF ExactAxes
  <2> QED
    BY <1>1, <1>2, <1>8, <1>9, <1>11, <2>1 DEF Settled
<1> QED
  BY <1>1, <1>2, <1>5, <1>6, <1>7, <1>8, <1>10, <1>11, Handled

\* A monitor of another density: everything but the controls and bars is scaled.
LEMMA RescaledWin ==
    ASSUME View!LayoutConstants, ViewTypes, NEW d \in Dpis, View!Rescale(d),
           NEW p \in [View!Axis -> Nat \ {0}], page' = p, UNCHANGED <<bar, place>>
    PROVE  \E v \in Win : View!Become(v) /\ v.page = p
<1> DEFINE s == [a \in View!Axis |-> View!ScaleBetween(scroll[a], dpi, d)]
           v == [dpi |-> d, page |-> p, scroll |-> s, bar |-> bar, place |-> place]
<1>1. scroll \in [View!Axis -> Nat] /\ dpi \in Nat /\ d \in Nat
  BY DpiNat DEF ViewTypes, View!WindowState, Win
<1>2. s \in [View!Axis -> Nat]
  BY <1>1, ScaledBetween
<1>3. dpi' = d /\ scroll' = s
  BY DEF View!Rescale
<1> HIDE DEF s
<1>4. v \in Win
  BY <1>2 DEF ViewTypes, View!WindowState, Win
<1>5. View!Become(v) /\ v.page = p
  BY <1>3 DEF View!Become
<1> QED
  BY <1>4, <1>5

\* Every step preserves the invariant.
LEMMA ViewStep == ASSUME View!LayoutConstants, ViewInv, [View!Next]_View!vars PROVE ViewInv'
<1> DEFINE w == View!WindowState
<1>0. /\ w \in Win /\ messages \in Nat /\ \A a \in View!Axis : w.page[a] \in Page[a]
      /\ failed \in BOOLEAN /\ updating \in BOOLEAN /\ relayout \in BOOLEAN
      /\ interrupted \in BOOLEAN /\ heights \in Seq(Nat)
      /\ focus \in Control \cup {NoControl}
      /\ (~failed /\ View!Idle => Settled(w, ExactAxes))
  BY ViewFields DEF ViewInv, ViewTypes
<1>f. w.dpi = dpi /\ w.page = page /\ w.scroll = scroll /\ w.bar = bar /\ w.place = place
  BY ViewFields
<1>s. ExactAxes \subseteq View!Axis
  BY DEF ExactAxes, View!Axis
<1>m. View!Message => /\ View!Idle /\ updating = FALSE /\ heights = <<>> /\ relayout = FALSE
                      /\ messages' \in Nat
  BY <1>0 DEF View!Message, View!Idle
<1>p. ASSUME NEW x \in Page["x"], NEW y \in Page["y"]
      PROVE  LET p == [a \in View!Axis |-> IF a = "x" THEN x ELSE y]
             IN  p \in [View!Axis -> Nat \ {0}] /\ \A a \in View!Axis : p[a] \in Page[a]
  <2>1. View!Axis = {"x", "y"} /\ "x" # "y"
    BY DEF View!Axis
  <2> QED
    BY <2>1 DEF View!LayoutConstants
<1> HIDE DEF w
<1>1. ASSUME View!Size PROVE ViewInv'
  <2>1. PICK x \in Page["x"], y \in Page["y"] :
            page' = [a \in View!Axis |-> IF a = "x" THEN x ELSE y]
    BY <1>1 DEF View!Size
  <2> DEFINE p == [a \in View!Axis |-> IF a = "x" THEN x ELSE y]  v == [w EXCEPT !.page = p]
  <2>2. p \in [View!Axis -> Nat \ {0}] /\ (\A a \in View!Axis : p[a] \in Page[a]) /\ page' = p
    BY <1>p, <2>1
  <2> HIDE DEF p
  <2>3. /\ v \in Win /\ v.page = p /\ v.dpi = w.dpi /\ v.scroll = w.scroll
        /\ v.bar = w.bar /\ v.place = w.place
    BY <1>0, <2>2, Paged
  <2> HIDE DEF v
  <2>4. View!Become(v)
    BY <1>1, <1>f, <2>2, <2>3 DEF View!Size, View!Become
  <2>5. /\ updating' = TRUE /\ heights' = heights /\ failed' = failed /\ relayout' = relayout
        /\ interrupted' = FALSE /\ focus' = focus /\ View!Message
    BY <1>1 DEF View!Size
  <2>6. ~failed => Follows(v)
    BY <1>0, <1>m, <2>3, <2>5 DEF Settled, Follows
  <2> QED
    BY <1>0, <1>m, <2>2, <2>3, <2>4, <2>5, <2>6, Handled
<1>2. ASSUME View!DpiChanged PROVE ViewInv'
  <2>1. PICK d \in Dpis, x \in Page["x"], y \in Page["y"] :
            View!Rescale(d) /\ page' = [a \in View!Axis |-> IF a = "x" THEN x ELSE y]
    BY <1>2 DEF View!DpiChanged
  <2>2. PICK p \in [View!Axis -> Nat \ {0}] : (\A a \in View!Axis : p[a] \in Page[a]) /\ page' = p
    BY <1>p, <2>1
  <2>3. /\ View!Message /\ updating' = (page' # page) /\ relayout' = TRUE /\ failed' = FALSE
        /\ interrupted' = FALSE /\ UNCHANGED <<bar, place>> /\ focus' = focus
        /\ heights' = heights
    BY <1>2 DEF View!DpiChanged
  <2>4. PICK v \in Win : View!Become(v) /\ v.page = p
    BY <2>1, <2>2, <2>3, RescaledWin DEF ViewInv
  <2>5. updating' \in BOOLEAN
    BY <2>3
  <2> QED
    BY <1>0, <1>m, <2>2, <2>3, <2>4, <2>5, Handled
<1>3. ASSUME View!DpiChangeFails PROVE ViewInv'
  <2>1. PICK d \in Dpis : View!Rescale(d)
    BY <1>3 DEF View!DpiChangeFails
  <2>2. /\ View!Message /\ failed' = TRUE /\ UNCHANGED <<bar, place>> /\ page' = page
        /\ focus' = focus /\ updating' = updating /\ heights' = heights
        /\ relayout' = relayout /\ interrupted' = interrupted
    BY <1>3 DEF View!DpiChangeFails
  <2>3. page \in [View!Axis -> Nat \ {0}] /\ \A a \in View!Axis : page[a] \in Page[a]
    BY <1>0, <1>f DEF Win
  <2>4. PICK p \in [View!Axis -> Nat \ {0}] : p = page
    BY <2>3
  <2>5. PICK v \in Win : View!Become(v) /\ v.page = p
    BY <2>1, <2>2, <2>4, RescaledWin DEF ViewInv
  <2> QED
    BY <1>0, <1>m, <2>2, <2>3, <2>4, <2>5, Handled
<1>4. ASSUME View!LayOutControls \/ View!LayOutFails PROVE ViewInv'
  <2>1. PICK some \in SUBSET Control :
            /\ View!Become(View!LayOut(w, some))
            /\ \/ some = Control /\ updating' = TRUE /\ failed' = failed /\ interrupted' = FALSE
               \/ failed' = TRUE /\ updating' = updating /\ interrupted' = interrupted
    BY <1>4, Zenon DEF View!LayOutControls, View!LayOutFails, w
  <2> DEFINE v == View!LayOut(w, some)
  <2>2. v \in Win /\ v.page = w.page /\ (some = Control => Follows(v))
    BY <1>0, LaidOut
  <2>3. /\ heights' = <<>> /\ relayout' = FALSE /\ focus' = focus /\ messages' = messages
        /\ updating = FALSE
    BY <1>0, <1>4 DEF View!LayOutControls, View!LayOutFails
  <2> HIDE DEF v
  <2>4. View!Become(v)
    BY <2>1 DEF v
  <2>5. <<>> \in Seq(Nat)
    OBVIOUS
  <2>6. CASE some = Control /\ updating' = TRUE /\ failed' = failed /\ interrupted' = FALSE
    BY <1>0, <2>2, <2>3, <2>4, <2>5, <2>6, Handled
  <2>7. CASE failed' = TRUE /\ updating' = updating /\ interrupted' = interrupted
    BY <1>0, <2>2, <2>3, <2>4, <2>5, <2>7, Handled
  <2> QED
    BY <2>1, <2>6, <2>7
<1>5. ASSUME View!ScrollBar PROVE ViewInv'
  <2>1. PICK a \in View!Axis : \E r \in View!Requests(a) : View!Become(View!ScrollTo(w, a, r))
    BY <1>5 DEF View!ScrollBar, w
  <2>2. PICK r \in View!Requests(a) : View!Become(View!ScrollTo(w, a, r))
    BY <2>1
  <2>3. r \in Int
    <3>1. bar[a].pos \in Nat /\ bar[a].page \in Nat
      BY <1>0, <1>f DEF Win, BarState
    <3>2. View!ScaleLogical(32, dpi) \in Nat
      BY <1>0, <1>f, DpiNat, ScaledNat DEF Win
    <3>3. View!Largest(View!WindowState, a) \in Nat
      BY <1>0, LargestNat DEF w
    <3> QED
      BY <3>1, <3>2, <3>3 DEF View!Requests, View!Max2, View!LayoutConstants
  <2> DEFINE v == View!ScrollTo(w, a, r)
  <2>4. v \in Win /\ v.page = w.page /\ (Settled(w, ExactAxes) => Settled(v, ExactAxes))
    BY <1>0, <1>s, <2>3, Scrolled, ScrolledSettled, ZenonT(60)
  <2> HIDE DEF v
  <2>5. View!Message /\ View!Quiet /\ focus' = focus /\ View!Become(v)
    BY <1>5, <2>2 DEF View!ScrollBar, v
  <2> QED
    BY <1>0, <1>f, <1>m, <2>4, <2>5, Kept
<1>6. CASE View!Wheel
  BY <1>6, WheelStep
<1>7. CASE View!QueuedMessage
  BY <1>7, QueuedStep
<1>8. CASE View!WriteHorizontal
  BY <1>8, HorizontalStep
<1>9. CASE View!WriteVertical
  BY <1>9, VerticalStep
<1>10. CASE UNCHANGED View!vars
  <2>1. View!WindowState' = View!WindowState /\ ExactAxes' = ExactAxes
    BY <1>10 DEF View!vars, View!WindowState, ExactAxes
  <2>2. View!Become(w)
    BY <1>f, <1>10 DEF View!vars, View!Become
  <2>3. /\ messages' = messages /\ focus' = focus /\ failed' = failed /\ updating' = updating
        /\ relayout' = relayout /\ interrupted' = interrupted /\ heights' = heights
    BY <1>10 DEF View!vars
  <2> QED
    BY <1>0, <1>f, <2>1, <2>2, <2>3, Handled DEF ViewInv, View!Idle, w
<1> QED
  BY <1>1, <1>2, <1>3, <1>4, <1>5, <1>6, <1>7, <1>8, <1>9, <1>10 DEF View!Next

-----------------------------------------------------------------------------
\* A behaviour of one component stays one of it, from its first state to each step.
LEMMA Halves ==
    ASSUME [Next]_vars
    PROVE  /\ half' = half
           /\ half = "form" => [Form!Next]_Form!vars
           /\ half = "view" => [View!Next]_View!vars
BY DEF Next, vars, formVars, viewVars, Form!vars, Form!windowVars, View!vars

FormHalf == half = "form" => Form!TypeOK /\ FormFollowsSaved /\ Form!TitleIsTrue

\* The windows keep their invariant in every behaviour of the components.
LEMMA FormHolds == ASSUME Form!SettingsConstants PROVE Spec => []FormHalf
<1>1. Init => FormHalf
  BY WindowInit DEF Init, FormHalf
<1>2. FormHalf /\ [Next]_vars => FormHalf'
  BY Halves, WindowTypeStep, FormStep, TitleStep DEF FormHalf
<1> QED
  BY <1>1, <1>2, PTL DEF Spec

\* Every reachable state of the settings windows is well formed, and what a
\* window shows of the fields that its user left alone reads as what it has
\* loaded or saved does once it is shown.
THEOREM WindowTypeCorrect ==
    ASSUME Form!SettingsConstants
    PROVE  Spec => [](half = "form" => Form!TypeOK /\ FormFollowsSaved)
<1>1. FormHalf => (half = "form" => Form!TypeOK /\ FormFollowsSaved)
  BY DEF FormHalf
<1> QED
  BY <1>1, FormHolds, PTL

\* The * in a title tells of unsaved changes after every command of every window,
\* failed saves, imports and concurrent changes of the file included.
THEOREM TitleTellsOfChanges ==
    ASSUME Form!SettingsConstants
    PROVE  Spec => []TitleIsTrue
<1>1. FormHalf => TitleIsTrue
  BY DEF FormHalf, TitleIsTrue
<1> QED
  BY <1>1, FormHolds, PTL

\* A save of a file that still holds what the window has loaded leaves each field
\* its user did not edit what its shown value is read as, for any values and texts
\* of which the conversions need not be inverses, and however many windows.
THEOREM SavesKeepTheRest ==
    ASSUME Form!SettingsConstants
    PROVE  Spec => OnlyEditsAreSaved
<1>1. FormFollowsSaved => Form!EditsAlone
  <2> SUFFICES ASSUME FormFollowsSaved, NEW w \in Window, Form!FinishSave(w), aside = saved[w],
                      NEW f \in Field \ edited[w]
               PROVE  file'[f] = ReadAs[Shows[aside[f]]]
    BY DEF Form!EditsAlone
  <2>1. file'[f] = ReadAs[form[w][f]] /\ phase[w] \in Open
    BY DEF Form!FinishSave, Form!IntoConfig, Open, Form!Phase
  <2> QED
    BY <2>1 DEF FormFollowsSaved
<1>2. FormHalf /\ [Next]_vars => [half = "form" => Form!EditsAlone]_vars
  BY <1>1 DEF FormHalf
<1> QED
  BY <1>2, FormHolds, PTL DEF Spec, OnlyEditsAreSaved

-----------------------------------------------------------------------------
ViewHalf == half = "view" => ViewInv

\* A window keeps its invariant in every behaviour of the components.
LEMMA ViewHolds == ASSUME View!LayoutConstants PROVE Spec => []ViewHalf
<1>1. Init => ViewHalf
  BY ViewInit DEF Init, ViewHalf
<1>2. ViewHalf /\ [Next]_vars => ViewHalf'
  BY Halves, ViewStep DEF ViewHalf
<1> QED
  BY <1>1, <1>2, PTL DEF Spec

\* Every reachable state of a window is well formed, and what the updates of its bars
\* that are under way will write shows or hides no bar against the client area, for any
\* layout that fits its page, any densities and any sizes the bars leave of the area.
THEOREM ViewTypeCorrect ==
    ASSUME View!LayoutConstants
    PROVE  Spec => [](half = "view" => ViewInv /\ View!TypeOK)
<1>1. ViewInv => View!TypeOK
  BY DEF ViewInv, ViewTypes, View!TypeOK, View!WindowState, Win
<1>2. ViewHalf => (half = "view" => ViewInv /\ View!TypeOK)
  BY <1>1 DEF ViewHalf
<1> QED
  BY <1>2, ViewHolds, PTL

\* Unless a relayout failed, every control is where the scroll position says at the
\* density of the monitor, and once the nested updates have ended each scrollbar is
\* there exactly if the page does not fit and shows that position.
THEOREM ControlsAreInPlace ==
    ASSUME View!LayoutConstants
    PROVE  Spec => []ControlsFollowScroll
<1>1. ViewInv => View!ControlsFollowScroll
  <2> SUFFICES ASSUME ViewInv PROVE View!ControlsFollowScroll
    OBVIOUS
  <2>1. ASSUME ~failed, ~relayout, NEW c \in Control, NEW a \in View!Axis
        PROVE  /\ place[c][a].first = View!ScaleLogical(Layout[c][a].first, dpi) - scroll[a]
               /\ place[c][a].size = View!ScaleLogical(Layout[c][a].size, dpi)
    BY <2>1, ViewFields DEF ViewInv, Follows
  <2>2. ASSUME ~failed, View!Idle, NEW a \in View!Axis
        PROVE  /\ scroll[a] <= View!Largest(View!WindowState, a)
               /\ bar[a].range = View!ScaleLogical(Content[a], dpi)
               /\ View!Shown(bar[a]) <=> page[a] < bar[a].range
               /\ bar[a].pos = View!Min2(scroll[a], bar[a].range - bar[a].page)
               /\ bar[a].page = View!Min2(page[a], bar[a].range) \/ (a = "y" /\ interrupted)
    <3>1. Settled(View!WindowState, ExactAxes)
      BY <2>2 DEF ViewInv
    <3>2. Bounded(View!WindowState, a) /\ BarHolds(View!WindowState, a)
          /\ (a \in ExactAxes => BarExact(View!WindowState, a))
      BY <3>1 DEF Settled
    <3>3. a \in ExactAxes \/ (a = "y" /\ interrupted)
      BY DEF ExactAxes, View!Axis
    <3> QED
      BY <3>2, <3>3, ViewFields DEF Bounded, BarHolds, BarExact, Tells
  <2> QED
    BY <2>1, <2>2 DEF View!ControlsFollowScroll
<1>2. ViewHalf => ControlsFollowScroll
  BY <1>1 DEF ViewHalf, ControlsFollowScroll
<1> QED
  BY <1>2, ViewHolds, PTL

\* Every message of the queue leaves the control with the focus in view, if the
\* client area has room for it and its margins.
THEOREM FocusStaysVisible ==
    ASSUME View!LayoutConstants
    PROVE  Spec => FocusIsVisible
<1>1. ViewHalf /\ [Next]_vars =>
          [half = "view" /\ (View!QueuedMessage \/ View!Wheel) => View!FocusInView']_vars
  BY QueuedStep, WheelStep DEF ViewHalf
<1> QED
  BY <1>1, ViewHolds, PTL DEF Spec, FocusIsVisible

-----------------------------------------------------------------------------
\* Every set of numbers that is not empty has a least one.
LEMMA Smallest ==
    ASSUME NEW S, S \subseteq Nat, S # {}
    PROVE  \E x \in S : \A y \in S : x =< y
<1>1. PICK less : less = OpToRel(<, Nat)
  OBVIOUS
<1>2. \A x, y \in Nat : <<x, y>> \in less <=> x < y
  BY <1>1 DEF OpToRel
<1>3. IsWellFoundedOn(less, Nat)
  BY <1>1, NatLessThanWellFounded
<1>4. \E x \in S : \A y \in S : ~(<<y, x>> \in less)
  BY <1>3, WFMin
<1>5. PICK x \in S : \A y \in S : ~(<<y, x>> \in less)
  BY <1>4
<1>6. \A y \in S : x =< y
  <2> SUFFICES ASSUME NEW y \in S PROVE x =< y
    OBVIOUS
  <2>1. ~(<<y, x>> \in less)
    BY <1>5
  <2>2. x \in Nat /\ y \in Nat
    OBVIOUS
  <2>3. ~(y < x)
    BY <1>2, <2>1, <2>2
  <2> QED
    BY <2>2, <2>3
<1> QED
  BY <1>6

\* Induction, for a set of numbers.
LEMMA AllNumbers ==
    ASSUME NEW T, 0 \in T, \A n \in Nat : n \in T => n + 1 \in T
    PROVE  Nat \subseteq T
<1> SUFFICES ASSUME Nat \ T # {} PROVE FALSE
  OBVIOUS
<1>1. PICK m \in Nat \ T : \A y \in Nat \ T : m =< y
  BY Smallest
<1>2. m # 0 /\ m - 1 \in Nat
  BY <1>1
<1>3. m - 1 \notin T
  BY <1>1, <1>2
<1>4. m - 1 \in Nat \ T /\ m - 1 < m
  BY <1>2, <1>3
<1> QED
  BY <1>1, <1>4

\* The elements of two lists, one after the other.
LEMMA Joined ==
    ASSUME NEW m \in Nat, NEW n \in Nat, NEW f, NEW g,
           f = [i \in 1..m |-> f[i]], g = [j \in 1..n |-> g[j]]
    PROVE  /\ DOMAIN (f \o g) = 1..(m + n) /\ Len(f \o g) = m + n
           /\ \A i \in 1..m : (f \o g)[i] = f[i]
           /\ \A j \in 1..n : (f \o g)[m + j] = g[j]
<1> DEFINE S == {f[i] : i \in 1..m} \cup {g[j] : j \in 1..n}
<1>1. f \in [1..m -> S] /\ g \in [1..n -> S]
  OBVIOUS
<1> HIDE DEF S
<1>2. f \in Seq(S) /\ Len(f) = m /\ g \in Seq(S) /\ Len(g) = n
  BY <1>1
<1>3. /\ f \o g \in Seq(S) /\ Len(f \o g) = m + n
      /\ \A i \in 1..(m + n) : (f \o g)[i] = IF i <= m THEN f[i] ELSE g[i - m]
  BY <1>2, ConcatProperties, ZenonT(60)
<1>4. ASSUME NEW j \in 1..n PROVE (f \o g)[m + j] = g[j]
  <2>1. m + j \in 1..(m + n) /\ ~(m + j <= m) /\ (m + j) - m = j
    OBVIOUS
  <2> QED
    BY <1>3, <2>1
<1>5. ASSUME NEW i \in 1..m PROVE (f \o g)[i] = f[i]
  <2>1. i \in 1..(m + n) /\ i <= m
    OBVIOUS
  <2> QED
    BY <1>3, <2>1
<1> QED
  BY <1>3, <1>4, <1>5

\* Induction up to a bound.
LEMMA UpToBound ==
    ASSUME NEW n \in Nat, NEW T, 0 \in T, \A k \in 0..(n - 1) : k \in T => k + 1 \in T
    PROVE  \A k \in 0..n : k \in T
<1> DEFINE A == {k \in Nat : k <= n => k \in T}
<1>1. 0 \in A
  OBVIOUS
<1>2. ASSUME NEW k \in Nat, k \in A PROVE k + 1 \in A
  <2>1. k + 1 <= n => k \in 0..(n - 1) /\ k <= n
    OBVIOUS
  <2> QED
    BY <1>2, <2>1
<1> HIDE DEF A
<1>3. Nat \subseteq A
  BY <1>1, <1>2, AllNumbers
<1> QED
  BY <1>3 DEF A

\* The greatest of some positions is one of them.
LEMMA MaxIsElement ==
    ASSUME NEW n \in Nat, NEW s \in SUBSET (1..n), s # {}
    PROVE  Format!Max(s) \in s
<1> DEFINE T == {n - x : x \in s}
<1>1. T \subseteq Nat /\ T # {}
  <2>1. \A x \in s : n - x \in Nat
    OBVIOUS
  <2>2. PICK x \in s : TRUE
    OBVIOUS
  <2>3. n - x \in T
    OBVIOUS
  <2> QED
    BY <2>1, <2>3
<1>2. PICK y \in T : \A z \in T : y =< z
  BY <1>1, Smallest
<1>3. PICK x \in s : y = n - x
  BY <1>2
<1>4. \A z \in s : x >= z
  <2> SUFFICES ASSUME NEW z \in s PROVE x >= z
    OBVIOUS
  <2>1. n - x =< n - z
    BY <1>2, <1>3
  <2> QED
    BY <2>1
<1> QED
  BY <1>4 DEF Format!Max

\* The positions up to the next one: the fold over a list takes off the last of them.
LEMMA FirstSets ==
    ASSUME NEW n \in Nat, NEW k \in 0..(n - 1)
    PROVE  /\ 1..(k + 1) \in SUBSET (1..n) /\ 1..(k + 1) # {}
           /\ Format!Max(1..(k + 1)) = k + 1 /\ (1..(k + 1)) \ {k + 1} = 1..k
<1>1. k \in Nat /\ \A x \in 1..(k + 1) : x \in 1..n
  OBVIOUS
<1>2. \A x \in 1..(k + 1) : (\A y \in 1..(k + 1) : x >= y) => x = k + 1
  OBVIOUS
<1>3. k + 1 \in 1..(k + 1) /\ \A y \in 1..(k + 1) : k + 1 >= y
  OBVIOUS
<1>4. Format!Max(1..(k + 1)) = k + 1
  BY <1>2, <1>3 DEF Format!Max
<1> QED
  BY <1>1, <1>3, <1>4

\* What a run through a list keeps.
LEMMA StepsStay ==
    ASSUME NEW n \in Nat, NEW t, NEW X, t[0] \in X,
           \A k \in 0..(n - 1) : t[k] \in X => t[k + 1] \in X
    PROVE  \A k \in 0..n : t[k] \in X
<1> DEFINE T == {k \in 0..n : t[k] \in X}
<1>1. 0 \in T /\ \A k \in 0..(n - 1) : k \in T => k + 1 \in T
  OBVIOUS
<1>2. \A k \in 0..n : k \in T
  <2> HIDE DEF T
  <2> QED
    BY <1>1, UpToBound
<1> QED
  BY <1>2

\* What a fold over n elements of a list is defined by: f[s] for each set s of indices,
\* where o has the result after one more of them.
After1(f, s, o) == o[<<f[s \ {Format!Max(s)}], Format!Max(s)>>]
Folding(n, start, o, f) ==
    f = [s \in SUBSET (1..n) |-> IF s = {} THEN start ELSE After1(f, s, o)]

\* The recursion of the fold defines a value for every set of positions.
LEMMA FoldExists ==
    ASSUME NEW n \in Nat, NEW X, NEW start \in X, NEW o \in [X \X (1..n) -> X]
    PROVE  \E f \in [SUBSET (1..n) -> X] : Folding(n, start, o, f)
<1> PICK S : S = 1..n
  OBVIOUS
<1> DEFINE Right(f, s) == f[s] = IF s = {} THEN start ELSE After1(f, s, o)
           T == {m \in Nat : \E f \in [SUBSET S -> X] :
                                \A s \in SUBSET S : Cardinality(s) <= m => Right(f, s)}
<1>f. IsFiniteSet(S)
  BY FS_Interval
<1>0. \A s \in SUBSET S : Cardinality(s) \in Nat /\ (Cardinality(s) = 0 <=> s = {})
  BY <1>f, FS_Subset, FS_CardinalityType, FS_EmptySet
<1>1. 0 \in T
  <2> DEFINE z == [s \in SUBSET S |-> start]
  <2>1. z \in [SUBSET S -> X] /\ \A s \in SUBSET S : Cardinality(s) <= 0 => Right(z, s)
    BY <1>0
  <2> QED
    BY <2>1
<1>2. ASSUME NEW m \in Nat, m \in T PROVE m + 1 \in T
  <2>1. PICK f \in [SUBSET S -> X] : \A s \in SUBSET S : Cardinality(s) <= m => Right(f, s)
    BY <1>2
  <2> DEFINE next(s) == IF s = {} THEN start ELSE After1(f, s, o)
             h == [s \in SUBSET S |-> IF Cardinality(s) <= m THEN f[s] ELSE next(s)]
  <2>2. ASSUME NEW s \in SUBSET S PROVE next(s) \in X
    <3> SUFFICES ASSUME s # {} PROVE After1(f, s, o) \in X
      OBVIOUS
    <3>1. Format!Max(s) \in S /\ s \ {Format!Max(s)} \in SUBSET S
      BY MaxIsElement
    <3> PICK x, y : x = Format!Max(s) /\ y = f[s \ {Format!Max(s)}]
      OBVIOUS
    <3>2. x \in 1..n /\ y \in X
      BY <3>1
    <3>3. o[<<y, x>>] \in X
      BY <3>2
    <3> QED
      BY <3>3 DEF After1
  <2>3. h \in [SUBSET S -> X]
    BY <2>2
  <2>4. ASSUME NEW s \in SUBSET S, Cardinality(s) <= m + 1 PROVE Right(h, s)
    <3>1. h[s] = next(s)
      BY <2>1
    <3>2. CASE s = {}
      BY <3>1, <3>2
    <3>3. CASE s # {}
      <4> PICK x : x = Format!Max(s)
        OBVIOUS
      <4>1. x \in s
        BY <3>3, MaxIsElement
      <4>2. s \ {x} \in SUBSET S /\ Cardinality(s) \in Nat
            /\ Cardinality(s \ {x}) = Cardinality(s) - 1
        <5>1. IsFiniteSet(s) /\ Cardinality(s) \in Nat
          BY <1>f, <1>0, FS_Subset
        <5>2. Cardinality(s \ {x}) = Cardinality(s) - 1
          BY <4>1, <5>1, FS_RemoveElement
        <5> QED
          BY <5>1, <5>2
      <4>3. Cardinality(s \ {x}) <= m
        BY <2>4, <4>2
      <4>4. h[s \ {x}] = f[s \ {x}]
        BY <4>2, <4>3
      <4> QED
        BY <3>1, <3>3, <4>4 DEF After1
    <3> QED
      BY <3>2, <3>3
  <2> HIDE DEF h
  <2>5. \E g \in [SUBSET S -> X] : \A s \in SUBSET S : Cardinality(s) <= m + 1 => Right(g, s)
    BY <2>3, <2>4, Zenon
  <2> HIDE DEF Right, next
  <2> QED
    BY <2>5
<1> HIDE DEF T
<1>3. Nat \subseteq T
  BY <1>1, <1>2, AllNumbers
<1>4. Cardinality(S) \in Nat /\ \A s \in SUBSET S : Cardinality(s) <= Cardinality(S)
  BY <1>f, FS_Subset, FS_CardinalityType
<1>5. PICK f \in [SUBSET S -> X] : \A s \in SUBSET S : Right(f, s)
  BY <1>3, <1>4 DEF T
<1>6. Folding(n, start, o, f)
  BY <1>5 DEF Folding
<1> QED
  BY <1>6

\* Two runs that take the same steps.
LEMMA SameRun ==
    ASSUME NEW n \in Nat, NEW t, NEW r, t[0] = r[0],
           \A k \in 0..(n - 1) : t[k] = r[k] => t[k + 1] = r[k + 1]
    PROVE  t[n] = r[n]
<1> DEFINE T == {k \in 0..n : t[k] = r[k]}
<1>1. 0 \in T /\ \A k \in 0..(n - 1) : k \in T => k + 1 \in T
  OBVIOUS
<1>2. \A k \in 0..n : k \in T
  <2> HIDE DEF T
  <2> QED
    BY <1>1, UpToBound
<1> QED
  BY <1>2

\* Induction over the lists of some elements.
LEMMA AllLists ==
    ASSUME NEW U, NEW T, <<>> \in T, \A s \in Seq(U), u \in U : s \in T => Append(s, u) \in T
    PROVE  Seq(U) \subseteq T
<1> DEFINE A == {n \in Nat : \A s \in Seq(U) : Len(s) = n => s \in T}
<1>1. 0 \in A
  BY EmptySeq
<1>2. ASSUME NEW n \in Nat, n \in A PROVE n + 1 \in A
  <2> SUFFICES ASSUME NEW s \in Seq(U), Len(s) = n + 1 PROVE s \in T
    OBVIOUS
  <2>1. s # <<>>
    OBVIOUS
  <2>2. PICK r \in Seq(U), u \in U : s = Append(r, u)
    BY <2>1, SequenceEmptyOrAppend
  <2>3. Len(r) = n
    BY <2>2, AppendProperties
  <2> QED
    BY <1>2, <2>2, <2>3
<1> HIDE DEF A
<1>3. Nat \subseteq A
  BY <1>1, <1>2, AllNumbers
<1> QED
  BY <1>3, LenProperties DEF A

-----------------------------------------------------------------------------
\* What a document is accepted for, check by check.
Sound(d) ==
    /\ Evidence!CollectOK(d)
    /\ Evidence!ProvenanceOK(d)
    /\ Evidence!SpdxOK(d)
    /\ Evidence!InventoryOK(d)
    /\ Evidence!TreeOK(d)

Verdicts == {"collect", "provenance", "spdx", "inventory", "tree", "accepted", "refused"}
After(stages) == verdict \in stages \cup {"accepted"}

\* The checks that are behind it have succeeded, or one of them has not.
EvidenceInv ==
    /\ directory \in Directories
    /\ verdict \in Verdicts
    /\ After({"provenance", "spdx", "inventory", "tree"}) => Evidence!CollectOK(directory)
    /\ After({"spdx", "inventory", "tree"}) => Evidence!ProvenanceOK(directory)
    /\ After({"inventory", "tree"}) => Evidence!SpdxOK(directory)
    /\ After({"tree"}) => Evidence!InventoryOK(directory)
    /\ After({}) => Evidence!TreeOK(directory)
    /\ verdict = "refused" => ~Sound(directory)

\* Every directory is checked from the first document.
LEMMA EvidenceInit == Evidence!Init => EvidenceInv
BY DEF Evidence!Init, EvidenceInv, Verdicts, After

\* Every check that passes has found its part of the documents sound.
LEMMA EvidenceStep == EvidenceInv /\ [Evidence!Next]_evidenceVars => EvidenceInv'
<1> SUFFICES ASSUME EvidenceInv, [Evidence!Next]_evidenceVars PROVE EvidenceInv'
  OBVIOUS
<1>1. CASE Evidence!Collect
  BY <1>1 DEF EvidenceInv, Evidence!Collect, Evidence!CheckStep, Verdicts, After, Sound
<1>2. CASE Evidence!CheckProvenance
  BY <1>2 DEF EvidenceInv, Evidence!CheckProvenance, Evidence!CheckStep, Verdicts, After, Sound
<1>3. CASE Evidence!CheckSpdx
  BY <1>3 DEF EvidenceInv, Evidence!CheckSpdx, Evidence!CheckStep, Verdicts, After, Sound
<1>4. CASE Evidence!CheckInventory
  BY <1>4 DEF EvidenceInv, Evidence!CheckInventory, Evidence!CheckStep, Verdicts, After, Sound
<1>5. CASE Evidence!CheckTree
  BY <1>5 DEF EvidenceInv, Evidence!CheckTree, Evidence!CheckStep, Verdicts, After, Sound
<1>6. CASE UNCHANGED evidenceVars
  BY <1>6 DEF evidenceVars, EvidenceInv, After
<1> QED
  BY <1>1, <1>2, <1>3, <1>4, <1>5, <1>6 DEF Evidence!Next

-----------------------------------------------------------------------------
\* The size of a set is the same in the module of the documents.
LEMMA SameCardinality == ASSUME NEW S PROVE Evidence!Cardinality(S) = Cardinality(S)
BY DEF Evidence!Cardinality, Cardinality

\* A document's list is a sequence of its records.
LEMMA ListIsSequence ==
    ASSUME NEW s, Evidence!List(s)
    PROVE  /\ s \in Seq(Evidence!Range(s))
           /\ Len(s) \in Nat /\ DOMAIN s = 1..Len(s)
           /\ Evidence!Range(s) = {s[i] : i \in 1..Len(s)}
           /\ \A r : r \in Evidence!Range(s) <=> \E i \in 1..Len(s) : r = s[i]
<1>1. s \in Seq(Evidence!Range(s))
  BY DEF Evidence!List
<1>2. Len(s) \in Nat /\ DOMAIN s = 1..Len(s)
  BY <1>1
<1> QED
  BY <1>1, <1>2 DEF Evidence!Range

\* As many elements as an injective list is long.
LEMMA Counted ==
    ASSUME NEW n \in Nat, NEW f, NEW S, \A x : x \in S <=> \E i \in 1..n : x = f[i],
           \A i, j \in 1..n : f[i] = f[j] => i = j
    PROVE  IsFiniteSet(S) /\ Cardinality(S) = n
<1> DEFINE g == [i \in 1..n |-> f[i]]
<1>1. g \in Bijection(1..n, S)
  BY DEF Bijection, Injection, IsInjective, Surjection
<1>2. ExistsBijection(1..n, S)
  BY <1>1 DEF ExistsBijection
<1> QED
  BY <1>2, FS_NatBijection, FS_CountingElements

\* The ids of a sorted list are in the order of the list.
LEMMA IdsInOrder ==
    ASSUME Evidence!EvidenceConstants, NEW rs, Evidence!List(rs), Evidence!Sorted(rs),
           \A i \in 1..Len(rs) : rs[i].id \in DOMAIN Before
    PROVE  \A i, j \in 1..Len(rs) : rs[i].id = rs[j].id => i = j
<1> DEFINE T == {n \in Nat : \A i \in 1..Len(rs) : i + n + 1 \in 1..Len(rs)
                                => rs[i].id \in Before[rs[i + n + 1].id]}
<1>1. Len(rs) \in Nat
  BY ListIsSequence
<1>2. 0 \in T
  BY <1>1 DEF Evidence!Sorted
<1>3. ASSUME NEW n \in Nat, n \in T PROVE n + 1 \in T
  <2> SUFFICES ASSUME NEW i \in 1..Len(rs), i + (n + 1) + 1 \in 1..Len(rs)
               PROVE  rs[i].id \in Before[rs[i + (n + 1) + 1].id]
    OBVIOUS
  <2> PICK k : k = i + n + 1
    OBVIOUS
  <2>1. k \in 1..Len(rs) /\ k + 1 \in 2..Len(rs) /\ i + (n + 1) + 1 = k + 1 /\ (k + 1) - 1 = k
    BY <1>1
  <2>2. rs[i].id \in Before[rs[k].id]
    BY <1>3, <2>1
  <2>3. rs[k].id \in Before[rs[k + 1].id]
    BY <2>1 DEF Evidence!Sorted
  <2>4. Before[rs[k].id] \subseteq Before[rs[k + 1].id]
    <3>1. k + 1 \in 1..Len(rs)
      BY <2>1, <1>1
    <3> QED
      BY <2>3, <3>1 DEF Evidence!EvidenceConstants
  <2> QED
    BY <2>1, <2>2, <2>4
<1> HIDE DEF T
<1>4. Nat \subseteq T
  BY <1>2, <1>3, AllNumbers
<1>5. ASSUME NEW i \in 1..Len(rs), NEW j \in 1..Len(rs), i < j PROVE rs[i].id # rs[j].id
  <2>1. PICK n \in Nat : n = j - i - 1
    BY <1>1, <1>5
  <2>2. i + n + 1 = j
    BY <2>1, <1>1
  <2>3. n \in T
    BY <1>4
  <2>4. rs[i].id \in Before[rs[j].id]
    BY <2>2, <2>3 DEF T
  <2>5. rs[j].id \notin Before[rs[j].id]
    BY DEF Evidence!EvidenceConstants
  <2> QED
    BY <2>4, <2>5
<1>6. \A i, j \in 1..Len(rs) : i = j \/ i < j \/ j < i
  BY <1>1
<1> QED
  BY <1>5, <1>6

\* Records that list the payload list each of its files once.
LEMMA RecordsAre ==
    ASSUME NEW d, NEW rs, NEW ids, Evidence!List(rs), Evidence!RecordsOK(rs, ids),
           Evidence!Listed(rs) = Evidence!Payload(d)
    PROVE  /\ {rs[i].path : i \in 1..Len(rs)} = DOMAIN d.payload
           /\ \A i \in 1..Len(rs) : rs[i].hash = d.payload[rs[i].path]
           /\ \A i \in 1..Len(rs) : rs[i].package \in ids
           /\ \A i, j \in 1..Len(rs) : rs[i].path = rs[j].path => i = j
<1>1. \A i \in 1..Len(rs) : <<rs[i].path, rs[i].hash>> \in Evidence!Payload(d)
  BY DEF Evidence!Listed
<1>2. \A i \in 1..Len(rs) : rs[i].path \in DOMAIN d.payload /\ rs[i].hash = d.payload[rs[i].path]
  BY <1>1 DEF Evidence!Payload
<1>3. ASSUME NEW p \in DOMAIN d.payload PROVE \E i \in 1..Len(rs) : p = rs[i].path
  <2>1. <<p, d.payload[p]>> \in Evidence!Listed(rs)
    BY DEF Evidence!Payload
  <2> QED
    BY <2>1 DEF Evidence!Listed
<1> QED
  BY <1>2, <1>3 DEF Evidence!RecordsOK

\* Records of the payload, each once and with its hash, are the payload.
LEMMA RecordsFit ==
    ASSUME NEW d, NEW rs, NEW ids,
           {rs[i].path : i \in 1..Len(rs)} = DOMAIN d.payload,
           \A i \in 1..Len(rs) : rs[i].hash = d.payload[rs[i].path],
           \A i \in 1..Len(rs) : rs[i].package \in ids,
           \A i, j \in 1..Len(rs) : rs[i].path = rs[j].path => i = j
    PROVE  Evidence!RecordsOK(rs, ids) /\ Evidence!Listed(rs) = Evidence!Payload(d)
<1>1. Evidence!RecordsOK(rs, ids)
  BY DEF Evidence!RecordsOK
<1>2. ASSUME NEW e \in Evidence!Listed(rs) PROVE e \in Evidence!Payload(d)
  <2>1. PICK i \in 1..Len(rs) : e = <<rs[i].path, rs[i].hash>>
    BY DEF Evidence!Listed
  <2>2. rs[i].path \in DOMAIN d.payload /\ e = <<rs[i].path, d.payload[rs[i].path]>>
    BY <2>1
  <2> QED
    BY <2>2 DEF Evidence!Payload
<1>3. ASSUME NEW e \in Evidence!Payload(d) PROVE e \in Evidence!Listed(rs)
  <2>1. PICK p \in DOMAIN d.payload : e = <<p, d.payload[p]>>
    BY DEF Evidence!Payload
  <2>2. PICK i \in 1..Len(rs) : p = rs[i].path
    OBVIOUS
  <2>3. e = <<rs[i].path, rs[i].hash>>
    BY <2>1, <2>2
  <2> QED
    BY <2>3 DEF Evidence!Listed
<1> QED
  BY <1>1, <1>2, <1>3

-----------------------------------------------------------------------------
\* What holds of a directory as it is parsed.
LEMMA ParsedIs ==
    ASSUME Evidence!EvidenceConstants, NEW d \in Directories
    PROVE  /\ Evidence!List(d.provenance.packages) /\ Evidence!List(d.provenance.files)
           /\ Evidence!List(d.spdx.packages) /\ Evidence!List(d.spdx.files)
           /\ Evidence!List(d.spdx.relations)
           /\ Evidence!List(d.inventory.packages) /\ Evidence!List(d.inventory.files)
           /\ \A i \in 1..Len(d.provenance.packages) : d.provenance.packages[i].id \in DOMAIN Before
           /\ \A i \in 1..Len(d.inventory.packages) :
                 /\ Evidence!List(d.inventory.packages[i].licenses)
                 /\ \A l \in Evidence!Range(d.inventory.packages[i].licenses) :
                       l = [path |-> l.path, hash |-> l.hash] /\ Evidence!List(l.path)
<1>1. Evidence!Parsed(d)
  BY DEF Evidence!EvidenceConstants
<1>2. /\ Evidence!List(d.provenance.packages) /\ Evidence!List(d.inventory.packages)
  BY <1>1 DEF Evidence!Parsed
<1>3. \A i \in 1..Len(d.provenance.packages) :
         d.provenance.packages[i] \in Evidence!Range(d.provenance.packages)
  BY <1>2, ListIsSequence
<1>4. \A i \in 1..Len(d.inventory.packages) :
         d.inventory.packages[i] \in Evidence!Range(d.inventory.packages)
  BY <1>2, ListIsSequence
<1> QED
  BY <1>1, <1>3, <1>4 DEF Evidence!Parsed

\* The indices that a comparison of two lists of one length visits.
LEMMA AllPairs ==
    ASSUME NEW s, NEW t, Len(s) \in Nat, Evidence!SameLength(s, t)
    PROVE  Len(t) = Len(s) /\ Evidence!Pairs(s, t) = 1..Len(s)
<1>1. {Len(s), Len(t)} = {Len(s)}
  BY DEF Evidence!SameLength
<1>2. Evidence!Min({Len(s)}) = Len(s)
  BY DEF Evidence!Min
<1> QED
  BY <1>1, <1>2 DEF Evidence!SameLength, Evidence!Pairs

\* The provenance of an accepted backend.
LEMMA ProvenanceIs ==
    ASSUME Evidence!EvidenceConstants, NEW d \in Directories, Evidence!ProvenanceOK(d)
    PROVE  LET packages == d.provenance.packages
               files == d.provenance.files
           IN  /\ Len(packages) \in Nat /\ Len(files) \in Nat
               /\ Evidence!Ids(d) = {packages[i].id : i \in 1..Len(packages)}
               /\ \A i, j \in 1..Len(packages) : packages[i].id = packages[j].id => i = j
               /\ DOMAIN d.payload = {files[j].path : j \in 1..Len(files)}
               /\ \A j, k \in 1..Len(files) : files[j].path = files[k].path => j = k
               /\ \A j \in 1..Len(files) : files[j].package \in Evidence!Ids(d)
               /\ \A id \in Evidence!Ids(d) : \E j \in 1..Len(files) : files[j].package = id
<1> DEFINE packages == d.provenance.packages
           files == d.provenance.files
<1>1. Evidence!List(packages) /\ Evidence!List(files)
  BY ParsedIs
<1>2. Len(packages) \in Nat /\ Len(files) \in Nat
  BY <1>1, ListIsSequence
<1>3. \A i, j \in 1..Len(packages) : packages[i].id = packages[j].id => i = j
  <2>1. Evidence!Sorted(packages) /\ \A i \in 1..Len(packages) : packages[i].id \in DOMAIN Before
    BY ParsedIs DEF Evidence!ProvenanceOK
  <2> QED
    BY <1>1, <2>1, IdsInOrder
<1>4. Evidence!RecordsOK(files, Evidence!Ids(d)) /\ Evidence!Listed(files) = Evidence!Payload(d)
  BY DEF Evidence!ProvenanceOK
<1>5. /\ DOMAIN d.payload = {files[j].path : j \in 1..Len(files)}
      /\ \A j, k \in 1..Len(files) : files[j].path = files[k].path => j = k
      /\ \A j \in 1..Len(files) : files[j].package \in Evidence!Ids(d)
  BY <1>1, <1>4, RecordsAre
<1>6. ASSUME NEW id \in Evidence!Ids(d) PROVE \E j \in 1..Len(files) : files[j].package = id
  <2>1. PICK r \in Evidence!Owned(d, id) : TRUE
    BY DEF Evidence!ProvenanceOK
  <2>2. r \in Evidence!Range(files) /\ r.package = id
    BY <2>1 DEF Evidence!Owned
  <2> QED
    BY <1>1, <2>2, ListIsSequence, ZenonT(60)
<1> QED
  BY <1>2, <1>3, <1>5, <1>6 DEF Evidence!Ids

\* The SPDX document of an accepted backend.
LEMMA SpdxIs ==
    ASSUME Evidence!EvidenceConstants, NEW d \in Directories, Evidence!ProvenanceOK(d),
           Evidence!SpdxOK(d)
    PROVE  LET packages == d.provenance.packages
               files == d.provenance.files
           IN  /\ Len(d.spdx.packages) = Len(packages) /\ Len(d.spdx.files) = Len(files)
               /\ \A i \in 1..Len(packages) : d.spdx.packages[i].id = packages[i].id
               /\ \A j \in 1..Len(files) : d.spdx.files[j].path = files[j].path
               /\ Evidence!IsInjective(d.spdx.relations)
               /\ \A r : r \in Evidence!Range(d.spdx.relations) <=>
                     \/ \E i \in 1..Len(packages) : r = <<0, i>>
                     \/ \E i \in 1..Len(packages), j \in 1..Len(files) :
                           files[j].package = packages[i].id /\ r = <<i, Len(packages) + j>>
<1> DEFINE packages == d.provenance.packages
           files == d.provenance.files
           relations == d.spdx.relations
<1>1. Len(packages) \in Nat /\ Len(files) \in Nat
  BY ProvenanceIs
<1>2. /\ Len(d.spdx.packages) = Len(packages) /\ Len(d.spdx.files) = Len(files)
      /\ Evidence!Pairs(packages, d.spdx.packages) = 1..Len(packages)
      /\ Evidence!Pairs(files, d.spdx.files) = 1..Len(files)
  <2>1. Evidence!SameLength(packages, d.spdx.packages) /\ Evidence!SameLength(files, d.spdx.files)
    BY DEF Evidence!SpdxOK
  <2> QED
    BY <1>1, <2>1, AllPairs
<1>3. \A i \in 1..Len(packages) : d.spdx.packages[i].id = packages[i].id
  <2> SUFFICES ASSUME NEW i \in 1..Len(packages) PROVE d.spdx.packages[i].id = packages[i].id
    OBVIOUS
  <2>1. d.spdx.packages[i] =
            [number |-> i, id |-> packages[i].id, about |-> packages[i].about,
             code |-> Evidence!Code(d, packages[i].id)]
    BY <1>2 DEF Evidence!SpdxOK
  <2> QED
    BY <2>1
<1>4. \A j \in 1..Len(files) : d.spdx.files[j].path = files[j].path
  <2> SUFFICES ASSUME NEW j \in 1..Len(files) PROVE d.spdx.files[j].path = files[j].path
    OBVIOUS
  <2>1. d.spdx.files[j] = [number |-> j, path |-> files[j].path, hash |-> d.payload[files[j].path]]
    BY <1>2 DEF Evidence!SpdxOK
  <2> QED
    BY <2>1
<1>5. Evidence!IsInjective(relations)
  BY DEF Evidence!SpdxOK
<1>6. ASSUME NEW r
      PROVE  r \in Evidence!Range(relations) <=>
                \/ \E i \in 1..Len(packages) : r = <<0, i>>
                \/ \E i \in 1..Len(packages), j \in 1..Len(files) :
                      files[j].package = packages[i].id /\ r = <<i, Len(packages) + j>>
  <2> DEFINE contained == {c \in (1..Len(packages)) \X (1..Len(files)) :
                             files[c[2]].package = packages[c[1]].id}
  <2>1. Evidence!Range(relations) =
            {<<0, i>> : i \in 1..Len(packages)}
            \cup {<<c[1], Len(packages) + c[2]>> : c \in contained}
    BY DEF Evidence!SpdxOK
  <2>2. ASSUME NEW c \in contained
        PROVE  /\ c[1] \in 1..Len(packages) /\ c[2] \in 1..Len(files)
               /\ files[c[2]].package = packages[c[1]].id
    OBVIOUS
  <2>3. ASSUME NEW i \in 1..Len(packages), NEW j \in 1..Len(files),
               files[j].package = packages[i].id
        PROVE  \E c \in contained : <<i, Len(packages) + j>> = <<c[1], Len(packages) + c[2]>>
    <3>1. <<i, j>> \in contained
      BY <2>3
    <3> QED
      BY <3>1
  <2> HIDE DEF contained, packages, files, relations
  <2> QED
    BY <2>1, <2>2, <2>3
<1> QED
  BY <1>2, <1>3, <1>4, <1>5, <1>6

\* The license inventory of an accepted backend.
LEMMA InventoryIs ==
    ASSUME Evidence!EvidenceConstants, NEW d \in Directories, Evidence!ProvenanceOK(d),
           Evidence!InventoryOK(d)
    PROVE  LET packages == d.provenance.packages
               files == d.inventory.files
           IN  /\ Len(d.inventory.packages) = Len(packages)
               /\ \A i \in 1..Len(packages) :
                     /\ d.inventory.packages[i].id = packages[i].id
                     /\ Evidence!LicensesOK(d.inventory.packages[i], d.files)
               /\ Len(files) \in Nat
               /\ DOMAIN d.payload = {files[j].path : j \in 1..Len(files)}
               /\ \A j, k \in 1..Len(files) : files[j].path = files[k].path => j = k
               /\ Evidence!Owners(files) = Evidence!Owners(d.provenance.files)
<1> DEFINE packages == d.provenance.packages
           files == d.inventory.files
<1>1. Len(packages) \in Nat
  BY ProvenanceIs
<1>2. Evidence!SameLength(packages, d.inventory.packages)
  BY DEF Evidence!InventoryOK
<1>3. Len(d.inventory.packages) = Len(packages)
      /\ Evidence!Pairs(packages, d.inventory.packages) = 1..Len(packages)
  BY <1>1, <1>2, AllPairs
<1>4. \A i \in 1..Len(packages) :
         /\ d.inventory.packages[i].id = packages[i].id
         /\ Evidence!LicensesOK(d.inventory.packages[i], d.files)
  BY <1>3 DEF Evidence!InventoryOK
<1>5. Evidence!List(files)
  BY ParsedIs
<1>6. /\ Evidence!RecordsOK(files, Evidence!Ids(d)) /\ Evidence!Listed(files) = Evidence!Payload(d)
      /\ Evidence!Owners(files) = Evidence!Owners(d.provenance.files)
  BY DEF Evidence!InventoryOK
<1>7. /\ DOMAIN d.payload = {files[j].path : j \in 1..Len(files)}
      /\ \A j, k \in 1..Len(files) : files[j].path = files[k].path => j = k
  BY <1>5, <1>6, RecordsAre
<1>8. Len(files) \in Nat
  BY <1>5, ListIsSequence
<1> QED
  BY <1>3, <1>4, <1>6, <1>7, <1>8

\* The documents agree on the files and on the packages.
LEMMA SamePaths ==
    ASSUME Evidence!EvidenceConstants, NEW d \in Directories, Sound(d)
    PROVE  \A paths \in {Evidence!Paths(d.provenance.files), Evidence!Paths(d.inventory.files),
                         Evidence!Paths(d.spdx.files)} :
              Evidence!Range(paths) = DOMAIN d.payload /\ Evidence!IsInjective(paths)
<1>1. ASSUME NEW files, Len(files) \in Nat,
             DOMAIN d.payload = {files[j].path : j \in 1..Len(files)},
             \A j, k \in 1..Len(files) : files[j].path = files[k].path => j = k
      PROVE  /\ Evidence!Range(Evidence!Paths(files)) = DOMAIN d.payload
             /\ Evidence!IsInjective(Evidence!Paths(files))
  BY <1>1 DEF Evidence!Range, Evidence!IsInjective, Evidence!Paths
<1>2. Evidence!ProvenanceOK(d) /\ Evidence!SpdxOK(d) /\ Evidence!InventoryOK(d)
  BY DEF Sound
<1>3. /\ Evidence!Range(Evidence!Paths(d.provenance.files)) = DOMAIN d.payload
      /\ Evidence!IsInjective(Evidence!Paths(d.provenance.files))
  BY <1>1, <1>2, ProvenanceIs
<1>4. /\ Evidence!Range(Evidence!Paths(d.inventory.files)) = DOMAIN d.payload
      /\ Evidence!IsInjective(Evidence!Paths(d.inventory.files))
  BY <1>1, <1>2, InventoryIs
<1>5. Evidence!Paths(d.spdx.files) = Evidence!Paths(d.provenance.files)
  <2>1. /\ Len(d.spdx.files) = Len(d.provenance.files)
        /\ \A j \in 1..Len(d.provenance.files) : d.spdx.files[j].path = d.provenance.files[j].path
    BY <1>2, SpdxIs
  <2> QED
    BY <2>1 DEF Evidence!Paths
<1> QED
  BY <1>3, <1>4, <1>5

\* Every document of a sound directory names the same packages, each once.
LEMMA SameIds ==
    ASSUME Evidence!EvidenceConstants, NEW d \in Directories, Sound(d)
    PROVE  \A ids \in {Evidence!PackageIds(d.provenance.packages),
                       Evidence!PackageIds(d.inventory.packages),
                       Evidence!PackageIds(d.spdx.packages)} :
              Evidence!Range(ids) = Evidence!Ids(d) /\ Evidence!IsInjective(ids)
<1> DEFINE packages == d.provenance.packages
<1>1. Evidence!ProvenanceOK(d) /\ Evidence!SpdxOK(d) /\ Evidence!InventoryOK(d)
  BY DEF Sound
<1>2. /\ Evidence!Range(Evidence!PackageIds(packages)) = Evidence!Ids(d)
      /\ Evidence!IsInjective(Evidence!PackageIds(packages))
  <2>1. /\ Evidence!Ids(d) = {packages[i].id : i \in 1..Len(packages)}
        /\ \A i, j \in 1..Len(packages) : packages[i].id = packages[j].id => i = j
    BY <1>1, ProvenanceIs
  <2> QED
    BY <2>1 DEF Evidence!Range, Evidence!IsInjective, Evidence!PackageIds
<1>3. Evidence!PackageIds(d.inventory.packages) = Evidence!PackageIds(packages)
  <2>1. /\ Len(d.inventory.packages) = Len(packages)
        /\ \A i \in 1..Len(packages) : d.inventory.packages[i].id = packages[i].id
    BY <1>1, InventoryIs
  <2> QED
    BY <2>1 DEF Evidence!PackageIds
<1>4. Evidence!PackageIds(d.spdx.packages) = Evidence!PackageIds(packages)
  <2>1. /\ Len(d.spdx.packages) = Len(packages)
        /\ \A i \in 1..Len(packages) : d.spdx.packages[i].id = packages[i].id
    BY <1>1, SpdxIs
  <2> QED
    BY <2>1 DEF Evidence!PackageIds
<1> QED
  BY <1>2, <1>3, <1>4

\* One relationship for each package and each file, and no other.
LEMMA RelationsAreCounted ==
    ASSUME Evidence!EvidenceConstants, NEW d \in Directories, Sound(d)
    PROVE  Len(d.spdx.relations)
             = Evidence!Cardinality(Evidence!Ids(d)) + Evidence!Cardinality(DOMAIN d.payload)
<1> DEFINE packages == d.provenance.packages
           files == d.provenance.files
           relations == d.spdx.relations
<1>p. PICK P, F : P = Len(packages) /\ F = Len(files)
  OBVIOUS
<1> DEFINE Of(j) == CHOOSE i \in 1..P : files[j].package = packages[i].id
           f == [i \in 1..P |-> <<0, i>>]
           g == [j \in 1..F |-> <<Of(j), P + j>>]
           A == {f[i] : i \in 1..P}
           B == {g[j] : j \in 1..F}
<1>1. Evidence!ProvenanceOK(d) /\ Evidence!SpdxOK(d)
  BY DEF Sound
<1>2. /\ P \in Nat /\ F \in Nat
      /\ Evidence!Ids(d) = {packages[i].id : i \in 1..P}
      /\ \A i, j \in 1..P : packages[i].id = packages[j].id => i = j
      /\ DOMAIN d.payload = {files[j].path : j \in 1..F}
      /\ \A j, k \in 1..F : files[j].path = files[k].path => j = k
      /\ \A j \in 1..F : files[j].package \in Evidence!Ids(d)
  BY <1>1, <1>p, ProvenanceIs
<1>n. P \in Nat /\ F \in Nat
  BY <1>2
<1>3. ASSUME NEW j \in 1..F PROVE Of(j) \in 1..P /\ files[j].package = packages[Of(j)].id
  <2>1. \E i \in 1..P : files[j].package = packages[i].id
    BY <1>2
  <2> QED
    BY <2>1
<1>4. Evidence!Range(relations) = A \cup B
  <2>1. \A r : r \in Evidence!Range(relations) <=>
               \/ \E i \in 1..P : r = <<0, i>>
               \/ \E i \in 1..P, j \in 1..F : files[j].package = packages[i].id /\ r = <<i, P + j>>
    BY <1>1, <1>p, SpdxIs
  <2>2. ASSUME NEW r PROVE r \in A <=> \E i \in 1..P : r = <<0, i>>
    OBVIOUS
  <2>3. ASSUME NEW r
        PROVE  r \in B <=> \E i \in 1..P, j \in 1..F :
                              files[j].package = packages[i].id /\ r = <<i, P + j>>
    <3>1. \A i \in 1..P, j \in 1..F : files[j].package = packages[i].id <=> i = Of(j)
      BY <1>2, <1>3
    <3>2. r \in B <=> \E j \in 1..F : r = <<Of(j), P + j>>
      OBVIOUS
    <3> HIDE DEF Of, B
    <3> QED
      BY <1>3, <3>1, <3>2
  <2> HIDE DEF A, B
  <2> QED
    BY <2>1, <2>2, <2>3
<1>5. IsFiniteSet(A) /\ Cardinality(A) = P
  <2>1. \A x : x \in A <=> \E i \in 1..P : x = f[i]
    OBVIOUS
  <2>2. \A i, j \in 1..P : f[i] = f[j] => i = j
    OBVIOUS
  <2> HIDE DEF A, f
  <2> QED
    BY ONLY <1>n, <2>1, <2>2, Counted
<1>6. IsFiniteSet(B) /\ Cardinality(B) = F
  <2>1. \A x : x \in B <=> \E j \in 1..F : x = g[j]
    OBVIOUS
  <2>2. ASSUME NEW i \in 1..F, NEW j \in 1..F, g[i] = g[j] PROVE i = j
    <3>1. P + i = P + j
      BY <2>2
    <3> QED
      BY <1>n, <3>1
  <2> HIDE DEF B, g
  <2> QED
    BY ONLY <1>n, <2>1, <2>2, Counted
<1>7. A \cap B = {}
  <2> SUFFICES ASSUME NEW i \in 1..P, NEW j \in 1..F PROVE f[i] # g[j]
    OBVIOUS
  <2>1. i # P + j
    BY <1>2
  <2> QED
    BY <2>1
<1>8. Cardinality(A \cup B) = P + F
  <2> HIDE DEF A, B
  <2>1. Cardinality(A \cap B) = 0
    BY <1>7, FS_EmptySet
  <2> QED
    BY ONLY <1>n, <1>5, <1>6, <2>1, FS_Union
<1>9. Cardinality(Evidence!Range(relations)) = Len(relations)
  <2>1. Evidence!List(relations)
    BY ParsedIs
  <2>2. PICK n : n = Len(relations)
    OBVIOUS
  <2>3. /\ n \in Nat /\ DOMAIN relations = 1..n
        /\ \A x : x \in Evidence!Range(relations) <=> \E i \in 1..n : x = relations[i]
    BY <2>1, <2>2, ListIsSequence
  <2>4. \A i, j \in 1..n : relations[i] = relations[j] => i = j
    BY <1>1, <2>3, SpdxIs DEF Evidence!IsInjective
  <2> HIDE DEF relations
  <2>5. Cardinality(Evidence!Range(relations)) = n
    BY ONLY <2>3, <2>4, Counted
  <2> QED
    BY <2>2, <2>5
<1>10. Cardinality(Evidence!Ids(d)) = P
  <2> DEFINE h == [i \in 1..P |-> packages[i].id]
  <2>1. \A x : x \in Evidence!Ids(d) <=> \E i \in 1..P : x = h[i]
    BY <1>2
  <2>2. \A i, j \in 1..P : h[i] = h[j] => i = j
    BY <1>2
  <2> HIDE DEF h
  <2> QED
    BY ONLY <1>n, <2>1, <2>2, Counted
<1>11. Cardinality(DOMAIN d.payload) = F
  <2> DEFINE h == [j \in 1..F |-> files[j].path]
  <2>1. \A x : x \in DOMAIN d.payload <=> \E j \in 1..F : x = h[j]
    BY <1>2
  <2>2. \A i, j \in 1..F : h[i] = h[j] => i = j
    BY <1>2
  <2> HIDE DEF h
  <2> QED
    BY ONLY <1>n, <2>1, <2>2, Counted
<1> QED
  BY <1>4, <1>8, <1>9, <1>10, <1>11, SameCardinality

\* The package of the file with the number j, in all three documents.
LEMMA OwnersAre ==
    ASSUME Evidence!EvidenceConstants, NEW d \in Directories, Sound(d),
           NEW j \in 1..Len(d.provenance.files)
    PROVE  LET id == d.provenance.files[j].package
           IN  Evidence!OwnersIn(d, d.provenance.files[j].path)
                  = [provenance |-> {id}, inventory |-> {id}, spdx |-> {id}]
<1> DEFINE packages == d.provenance.packages
           files == d.provenance.files
           listed == d.inventory.files
           P == Len(packages)
           F == Len(files)
           p == files[j].path
           id == files[j].package
<1>1. Evidence!ProvenanceOK(d) /\ Evidence!SpdxOK(d) /\ Evidence!InventoryOK(d)
  BY DEF Sound
<1>2. /\ P \in Nat /\ F \in Nat
      /\ Evidence!Ids(d) = {packages[i].id : i \in 1..P}
      /\ \A i, k \in 1..P : packages[i].id = packages[k].id => i = k
      /\ \A i, k \in 1..F : files[i].path = files[k].path => i = k
      /\ \A i \in 1..F : files[i].package \in Evidence!Ids(d)
  BY <1>1, ProvenanceIs
<1>3. Evidence!List(files) /\ Evidence!List(listed)
  BY ParsedIs
<1>4. {r.package : r \in {q \in Evidence!Range(files) : q.path = p}} = {id}
  <2>1. Evidence!Range(files) = {files[i] : i \in 1..F}
    BY <1>3, ListIsSequence
  <2>2. {q \in Evidence!Range(files) : q.path = p} = {files[j]}
    BY <1>2, <2>1
  <2> QED
    BY <2>2
<1>5. {r.package : r \in {q \in Evidence!Range(listed) : q.path = p}} = {id}
  <2>1. Evidence!Range(listed) = {listed[i] : i \in 1..Len(listed)}
    BY <1>3, ListIsSequence
  <2>2. Evidence!Owners(listed) = Evidence!Owners(files)
    BY <1>1, InventoryIs
  <2>3. ASSUME NEW i \in 1..Len(listed), listed[i].path = p PROVE listed[i].package = id
    <3>1. <<p, listed[i].package>> \in Evidence!Owners(files)
      BY <2>2, <2>3 DEF Evidence!Owners
    <3>2. PICK k \in 1..F : <<p, listed[i].package>> = <<files[k].path, files[k].package>>
      BY <3>1 DEF Evidence!Owners
    <3>3. files[k].path = p /\ files[k].package = listed[i].package
      BY <3>2
    <3>4. k = j
      BY <1>2, <3>3
    <3> QED
      BY <3>3, <3>4
  <2>4. \E i \in 1..Len(listed) : listed[i].path = p
    <3>1. <<p, id>> \in Evidence!Owners(listed)
      BY <2>2 DEF Evidence!Owners
    <3>2. PICK i \in 1..Len(listed) : <<p, id>> = <<listed[i].path, listed[i].package>>
      BY <3>1 DEF Evidence!Owners
    <3> QED
      BY <3>2
  <2> HIDE DEF p, id, listed
  <2> QED
    BY <2>1, <2>3, <2>4
<1>6. {d.spdx.packages[r[1]].id :
          r \in {q \in Evidence!Range(d.spdx.relations) :
                    /\ q[1] > 0
                    /\ d.spdx.files[q[2] - Len(d.spdx.packages)].path = p}} = {id}
  <2>1. /\ Len(d.spdx.packages) = P
        /\ \A i \in 1..P : d.spdx.packages[i].id = packages[i].id
        /\ \A i \in 1..F : d.spdx.files[i].path = files[i].path
        /\ \A r : r \in Evidence!Range(d.spdx.relations) <=>
               \/ \E i \in 1..P : r = <<0, i>>
               \/ \E i \in 1..P, k \in 1..F : files[k].package = packages[i].id /\ r = <<i, P + k>>
    BY <1>1, SpdxIs
  <2> DEFINE Q == {q \in Evidence!Range(d.spdx.relations) :
                      q[1] > 0 /\ d.spdx.files[q[2] - Len(d.spdx.packages)].path = p}
  <2>2. ASSUME NEW r \in Q PROVE d.spdx.packages[r[1]].id = id
    <3>1. r \in Evidence!Range(d.spdx.relations) /\ r[1] > 0
          /\ d.spdx.files[r[2] - Len(d.spdx.packages)].path = p
      OBVIOUS
    <3>2. ~(\E i \in 1..P : r = <<0, i>>)
      BY <3>1
    <3>3. PICK i \in 1..P, k \in 1..F : files[k].package = packages[i].id /\ r = <<i, P + k>>
      BY <2>1, <3>1, <3>2, SMTT(60)
    <3>4. r[1] = i /\ r[2] - P = k
      BY <3>3, <1>2
    <3>5. files[k].path = p
      BY <2>1, <3>1, <3>4
    <3>6. k = j
      BY <1>2, <3>5
    <3> QED
      BY <2>1, <3>3, <3>4, <3>6
  <2>3. \E r \in Q : TRUE
    <3>1. PICK i \in 1..P : packages[i].id = id
      BY <1>2
    <3>2. <<i, P + j>> \in Evidence!Range(d.spdx.relations)
      BY <2>1, <3>1
    <3>3. <<i, P + j>>[1] = i /\ i > 0 /\ <<i, P + j>>[2] - P = j
      BY <1>2
    <3>4. d.spdx.files[<<i, P + j>>[2] - Len(d.spdx.packages)].path = p
      BY <2>1, <3>3
    <3> QED
      BY <3>2, <3>3, <3>4
  <2>4. {d.spdx.packages[r[1]].id : r \in Q} = {id}
    <3> HIDE DEF Q, id
    <3> QED
      BY <2>2, <2>3
  <2> QED
    BY <2>4
<1> HIDE DEF p, id, files, listed
<1>7. Evidence!OwnersIn(d, p) = [provenance |-> {id}, inventory |-> {id}, spdx |-> {id}]
  BY <1>4, <1>5, <1>6 DEF Evidence!OwnersIn, files, listed
<1> QED
  BY <1>7 DEF p, id, files

\* Whatever else is in the evidence directory is the license of one package.
LEMMA LicensesAreOwned ==
    ASSUME Evidence!EvidenceConstants, NEW d \in Directories, Sound(d),
           NEW p \in DOMAIN d.files \ Documents
    PROVE  Evidence!Cardinality({i \in 1..Len(d.inventory.packages) :
              [path |-> p, hash |-> d.files[p]]
                 \in Evidence!Range(d.inventory.packages[i].licenses)}) = 1
<1> DEFINE packages == d.inventory.packages
           entry == [path |-> p, hash |-> d.files[p]]
<1>1. Evidence!ProvenanceOK(d) /\ Evidence!InventoryOK(d) /\ Evidence!TreeOK(d)
  BY DEF Sound
<1>2. /\ Len(packages) = Len(d.provenance.packages)
      /\ \A i \in 1..Len(packages) : packages[i].id = d.provenance.packages[i].id
      /\ \A i \in 1..Len(packages) : Evidence!LicensesOK(packages[i], d.files)
  BY <1>1, InventoryIs
<1>3. \A i, k \in 1..Len(packages) : packages[i].id = packages[k].id => i = k
  BY <1>1, <1>2, ProvenanceIs
<1>4. PICK l \in Evidence!Licenses(d) : l.path = p
  <2>1. p \in {l.path : l \in Evidence!Licenses(d)}
    BY <1>1 DEF Evidence!TreeOK, Evidence!Expected
  <2> QED
    BY <2>1
<1>5. PICK i \in 1..Len(packages) : l \in Evidence!Range(packages[i].licenses)
  BY DEF Evidence!Licenses
<1>6. l = entry
  <2>1. l = [path |-> l.path, hash |-> l.hash]
    BY <1>5, ParsedIs
  <2>2. d.files[l.path] = l.hash
    BY <1>2, <1>5 DEF Evidence!LicensesOK
  <2> QED
    BY <1>4, <2>1, <2>2
<1>7. ASSUME NEW k \in 1..Len(packages), entry \in Evidence!Range(packages[k].licenses)
      PROVE  SubSeq(p, 1, 2) = <<"licenses", packages[k].id>>
  <2>1. entry.path = p
    OBVIOUS
  <2>2. SubSeq(entry.path, 1, 2) = <<"licenses", packages[k].id>>
    BY <1>2, <1>7 DEF Evidence!LicensesOK
  <2> QED
    BY <2>1, <2>2
<1>8. \A k \in 1..Len(packages) : entry \in Evidence!Range(packages[k].licenses) <=> k = i
  <2> SUFFICES ASSUME NEW k \in 1..Len(packages), entry \in Evidence!Range(packages[k].licenses)
               PROVE  k = i
    BY <1>5, <1>6
  <2>1. <<"licenses", packages[k].id>> = <<"licenses", packages[i].id>>
    BY <1>5, <1>6, <1>7
  <2>2. packages[k].id = packages[i].id
    BY <2>1
  <2> QED
    BY <1>3, <2>2
<1>9. {k \in 1..Len(packages) : entry \in Evidence!Range(packages[k].licenses)} = {i}
  BY <1>8
<1> QED
  BY <1>9, SameCardinality, FS_Singleton

\* The documents of a sound directory tell one story.
LEMMA SoundIsOneStory ==
    ASSUME Evidence!EvidenceConstants, NEW d \in Directories, Sound(d)
    PROVE  Evidence!OneStory(d)
<1> DEFINE files == d.provenance.files
           Of(p, id) == Evidence!OwnersIn(d, p)
                          = [provenance |-> {id}, inventory |-> {id}, spdx |-> {id}]
<1>1. /\ DOMAIN d.payload = {files[j].path : j \in 1..Len(files)}
      /\ \A j \in 1..Len(files) : files[j].package \in Evidence!Ids(d)
      /\ \A id \in Evidence!Ids(d) : \E j \in 1..Len(files) : files[j].package = id
  BY ProvenanceIs DEF Sound
<1>2. \A j \in 1..Len(files) : Of(files[j].path, files[j].package)
  BY OwnersAre
<1>3. \A p \in DOMAIN d.payload : \E id \in Evidence!Ids(d) : Of(p, id)
  <2> HIDE DEF Of
  <2> QED
    BY <1>1, <1>2
<1>4. ASSUME NEW id \in Evidence!Ids(d)
      PROVE  \E p \in DOMAIN d.payload : Evidence!OwnersIn(d, p).spdx = {id}
  <2>1. PICK j \in 1..Len(files) : files[j].package = id
    BY <1>1
  <2>2. files[j].path \in DOMAIN d.payload /\ Of(files[j].path, id)
    BY <1>1, <1>2, <2>1
  <2>3. Evidence!OwnersIn(d, files[j].path).spdx = {id}
    BY <2>2
  <2> QED
    BY <2>2, <2>3
<1> QED
  BY <1>3, <1>4, SamePaths, SameIds, RelationsAreCounted, LicensesAreOwned DEF Evidence!OneStory

-----------------------------------------------------------------------------
\* The files and packages that an import writes.
LEMMA ImportIs ==
    ASSUME Evidence!EvidenceConstants, NEW d \in Directories, Evidence!Imported(d)
    PROVE  LET packages == d.provenance.packages
               files == d.provenance.files
           IN  /\ Len(packages) \in Nat /\ Len(files) \in Nat
               /\ \A r : r \in Evidence!Range(files) <=> \E j \in 1..Len(files) : r = files[j]
               /\ \A i, j \in 1..Len(packages) : packages[i].id = packages[j].id => i = j
               /\ {files[j].path : j \in 1..Len(files)} = DOMAIN d.payload
               /\ \A j \in 1..Len(files) : files[j].hash = d.payload[files[j].path]
               /\ \A j, k \in 1..Len(files) : files[j].path = files[k].path => j = k
               /\ \A j \in 1..Len(files) : \E i \in 1..Len(packages) :
                     files[j].package = packages[i].id
               /\ \A i \in 1..Len(packages) : \E j \in 1..Len(files) :
                     files[j].package = packages[i].id
<1> DEFINE packages == d.provenance.packages
           files == d.provenance.files
<1>1. Evidence!List(packages) /\ Evidence!List(files)
  BY ParsedIs
<1>2. /\ Len(packages) \in Nat /\ Len(files) \in Nat
      /\ \A r : r \in Evidence!Range(files) <=> \E j \in 1..Len(files) : r = files[j]
  BY <1>1, ListIsSequence, ZenonT(60)
<1>3. \A i, j \in 1..Len(packages) : packages[i].id = packages[j].id => i = j
  <2>1. Evidence!Sorted(packages) /\ \A i \in 1..Len(packages) : packages[i].id \in DOMAIN Before
    BY ParsedIs, Zenon DEF Evidence!Imported
  <2> QED
    BY <1>1, <2>1, IdsInOrder
<1>4. /\ \A j, k \in 1..Len(files) : files[j].path = files[k].path => j = k
      /\ {files[j].path : j \in 1..Len(files)} = DOMAIN d.payload
      /\ \A j \in 1..Len(files) : files[j].hash = d.payload[files[j].path]
  BY ZenonT(60) DEF Evidence!Imported
<1>5. {files[j].package : j \in 1..Len(files)} = {packages[i].id : i \in 1..Len(packages)}
  BY Zenon DEF Evidence!Imported, Evidence!Ids
<1>6. \A j \in 1..Len(files) : \E i \in 1..Len(packages) : files[j].package = packages[i].id
  BY <1>5
<1>7. \A i \in 1..Len(packages) : \E j \in 1..Len(files) : files[j].package = packages[i].id
  BY <1>5
<1> QED
  BY <1>2, <1>3, <1>4, <1>6, <1>7

\* The provenance that an import has written is accepted.
LEMMA ImportedProvenance ==
    ASSUME Evidence!EvidenceConstants, NEW d \in Directories, Evidence!Imported(d)
    PROVE  Evidence!ProvenanceOK(d)
<1> DEFINE v == d.provenance
<1>1. /\ Len(v.packages) \in 1..MaxPackages /\ Evidence!Sorted(v.packages)
      /\ v.manifest = d.manifest
      /\ v.verification = IF v.supported THEN "verified" ELSE "accepted by the user"
  BY ZenonT(60) DEF Evidence!Imported
<1>2. IF v.supported THEN \A i \in 1..Len(v.packages) : v.packages[i].origin = "complete"
                     ELSE /\ Len(v.packages) = 1
                          /\ v.packages[1].id = Local.id /\ v.packages[1].about = Local.about
                          /\ v.packages[1].origin = "none"
  BY Zenon DEF Evidence!Imported
<1>k. \A i \in 1..Len(v.packages) : Evidence!PackageOK(v.packages[i], v.supported)
  <2>1. ASSUME Len(v.packages) = 1 PROVE 1..Len(v.packages) = {1}
    BY <2>1
  <2> HIDE DEF v
  <2> QED
    BY <1>2, <2>1 DEF Evidence!PackageOK
<1>3. ASSUME ~v.supported PROVE Evidence!Ids(d) = {Local.id} /\ v.packages[1].about = Local.about
  <2>1. 1..Len(v.packages) = {1}
    BY <1>2, <1>3
  <2>2. Evidence!Ids(d) = {v.packages[i].id : i \in {1}}
    BY <2>1 DEF Evidence!Ids
  <2> QED
    BY <1>2, <1>3, <2>2
<1>4. \A j \in 1..Len(v.files) : v.files[j].package \in Evidence!Ids(d)
  BY ImportIs DEF Evidence!Ids
<1>5. Evidence!RecordsOK(v.files, Evidence!Ids(d)) /\ Evidence!Listed(v.files) = Evidence!Payload(d)
  BY <1>4, ImportIs, RecordsFit
<1>6. ASSUME NEW id \in Evidence!Ids(d) PROVE Evidence!Owned(d, id) # {}
  <2>1. PICK i \in 1..Len(v.packages) : id = v.packages[i].id
    BY DEF Evidence!Ids
  <2>2. PICK j \in 1..Len(v.files) : v.files[j].package = id
    BY <2>1, ImportIs
  <2>3. v.files[j] \in Evidence!Range(v.files)
    BY ImportIs
  <2> QED
    BY <2>2, <2>3 DEF Evidence!Owned
<1> QED
  BY <1>1, <1>k, <1>3, <1>5, <1>6 DEF Evidence!ProvenanceOK

\* The script and the program compute one verification code.
LEMMA SameCode ==
    ASSUME Evidence!EvidenceConstants, NEW d \in Directories, Evidence!Imported(d), NEW id
    PROVE  Evidence!CodeOf(d.provenance.files, id) = Evidence!Code(d, id)
<1> DEFINE files == d.provenance.files
           owned == Evidence!Owned(d, id)
<1>1. owned = {r \in Evidence!Range(files) : r.package = id}
  BY DEF Evidence!Owned
<1>2. ASSUME NEW r \in owned PROVE r.hash = d.payload[r.path]
  <2>1. r \in Evidence!Range(files)
    BY <1>1
  <2>2. \E j \in 1..Len(files) : r = files[j]
    BY <2>1, ParsedIs, ListIsSequence, Zenon
  <2>3. \A j \in 1..Len(files) : files[j].hash = d.payload[files[j].path]
    BY Zenon DEF Evidence!Imported
  <2> QED
    BY <2>2, <2>3
<1> HIDE DEF owned
<1>3. {r.hash : r \in owned} = {d.payload[r.path] : r \in owned}
  BY <1>2
<1>4. \A c : {r \in owned : r.hash = c} = {r \in owned : d.payload[r.path] = c}
  BY <1>2
<1> PICK number : number = [c \in {r.hash : r \in owned} |->
                              Evidence!Cardinality({r \in owned : r.hash = c})]
  OBVIOUS
<1>5. number = [c \in {d.payload[r.path] : r \in owned} |->
                  Evidence!Cardinality({r \in owned : d.payload[r.path] = c})]
  BY <1>3, <1>4
<1>6. Evidence!CodeOf(files, id) = number
  BY <1>1 DEF Evidence!CodeOf
<1>7. Evidence!Code(d, id) = number
  BY <1>5 DEF Evidence!Code, owned
<1> QED
  BY <1>6, <1>7

\* The relationships that are written are those that are expected.
LEMMA ImportedRelations ==
    ASSUME Evidence!EvidenceConstants, NEW d \in Directories, Evidence!Imported(d)
    PROVE  LET packages == d.provenance.packages
               files == d.provenance.files
               contained == {c \in (1..Len(packages)) \X (1..Len(files)) :
                                files[c[2]].package = packages[c[1]].id}
           IN  /\ Evidence!IsInjective(d.spdx.relations)
               /\ Evidence!Range(d.spdx.relations) =
                     {<<0, i>> : i \in 1..Len(packages)}
                     \cup {<<c[1], Len(packages) + c[2]>> : c \in contained}
<1> DEFINE v == d.provenance
           packages == v.packages
           files == v.files
           contained == {c \in (1..Len(packages)) \X (1..Len(files)) :
                            files[c[2]].package = packages[c[1]].id}
           f == [i \in 1..Len(packages) |-> <<0, i>>]
           g == [j \in 1..Len(files) |-> <<Evidence!OwnerOf(v, j), Len(packages) + j>>]
<1>1. d.spdx.relations = f \o g
  <2>1. d.spdx = Evidence!SpdxOf(v)
    BY Zenon DEF Evidence!Imported
  <2>2. d.spdx.relations = Evidence!RelationsOf(v)
    BY <2>1 DEF Evidence!SpdxOf
  <2> QED
    BY <2>2, SMTT(60) DEF Evidence!RelationsOf
<1>p. PICK P, F : P = Len(packages) /\ F = Len(files)
  OBVIOUS
<1>2. P \in Nat /\ F \in Nat
  BY <1>p, ImportIs
<1>3. ASSUME NEW j \in 1..F
      PROVE  \A i \in 1..P : files[j].package = packages[i].id <=> i = Evidence!OwnerOf(v, j)
  <2>1. PICK i \in 1..P : files[j].package = packages[i].id
    BY <1>p, ImportIs
  <2>2. {k \in 1..Len(packages) : packages[k].id = files[j].package} = {i}
    <3>1. \A k, n \in 1..Len(packages) : packages[k].id = packages[n].id => k = n
      BY ImportIs
    <3> QED
      BY <1>p, <2>1, <3>1
  <2>3. Evidence!OwnerOf(v, j) = i
    BY <2>2 DEF Evidence!OwnerOf
  <2> QED
    BY <1>p, <2>1, <2>3, ImportIs
<1>4. PICK s : s = f \o g
  OBVIOUS
<1>5. /\ DOMAIN s = 1..(P + F)
      /\ \A i \in 1..P : s[i] = <<0, i>>
      /\ \A j \in 1..F : s[P + j] = <<Evidence!OwnerOf(v, j), P + j>>
  <2>1. \A i \in 1..P : f[i] = <<0, i>>
    BY <1>p
  <2>2. \A j \in 1..F : g[j] = <<Evidence!OwnerOf(v, j), P + j>>
    BY <1>p
  <2>3. f = [i \in 1..P |-> f[i]] /\ g = [j \in 1..F |-> g[j]]
    BY <1>p
  <2> HIDE DEF f, g
  <2>4. /\ DOMAIN s = 1..(P + F)
        /\ \A i \in 1..P : s[i] = f[i]
        /\ \A j \in 1..F : s[P + j] = g[j]
    BY ONLY <1>2, <1>4, <2>3, Joined
  <2> QED
    BY <2>1, <2>2, <2>4
<1> HIDE DEF f, g
<1>6. ASSUME NEW k \in 1..(P + F)
      PROVE  (k \in 1..P /\ s[k] = <<0, k>>)
             \/ \E j \in 1..F : k = P + j /\ s[k] = <<Evidence!OwnerOf(v, j), P + j>>
  <2>1. k \in 1..P \/ (k - P \in 1..F /\ k = P + (k - P))
    BY <1>2
  <2> QED
    BY <1>5, <2>1
<1>7. Evidence!IsInjective(s)
  <2>1. \A k \in 1..(P + F) : s[k][2] = k
    BY <1>6
  <2> QED
    BY <1>5, <2>1 DEF Evidence!IsInjective
<1>8. \A r : r \in Evidence!Range(s) <=> \E k \in 1..(P + F) : r = s[k]
  BY <1>5 DEF Evidence!Range
<1>9. ASSUME NEW r
      PROVE  r \in Evidence!Range(s) <=>
                \/ \E i \in 1..P : r = <<0, i>>
                \/ \E j \in 1..F : r = <<Evidence!OwnerOf(v, j), P + j>>
  <2>1. ASSUME NEW i \in 1..P PROVE i \in 1..(P + F)
    BY <1>2
  <2>2. ASSUME NEW j \in 1..F PROVE P + j \in 1..(P + F)
    BY <1>2
  <2>3. ASSUME r \in Evidence!Range(s)
        PROVE  \/ \E i \in 1..P : r = <<0, i>>
               \/ \E j \in 1..F : r = <<Evidence!OwnerOf(v, j), P + j>>
    <3>1. PICK k \in 1..(P + F) : r = s[k]
      BY <1>8, <2>3
    <3> QED
      BY <1>6, <3>1
  <2>4. ASSUME NEW i \in 1..P PROVE <<0, i>> \in Evidence!Range(s)
    <3>1. i \in 1..(P + F) /\ s[i] = <<0, i>>
      BY <1>5, <2>1
    <3> QED
      BY <1>8, <3>1
  <2>5. ASSUME NEW j \in 1..F PROVE <<Evidence!OwnerOf(v, j), P + j>> \in Evidence!Range(s)
    <3>1. P + j \in 1..(P + F) /\ s[P + j] = <<Evidence!OwnerOf(v, j), P + j>>
      BY <1>5, <2>2
    <3> QED
      BY <1>8, <3>1
  <2> QED
    BY <2>3, <2>4, <2>5
<1>10. ASSUME NEW r
       PROVE  r \in {<<c[1], P + c[2]>> : c \in contained}
                 <=> \E j \in 1..F : r = <<Evidence!OwnerOf(v, j), P + j>>
  <2>1. ASSUME NEW c \in contained
        PROVE  c[2] \in 1..F /\ c[1] = Evidence!OwnerOf(v, c[2])
    <3>1. c[1] \in 1..P /\ c[2] \in 1..F /\ files[c[2]].package = packages[c[1]].id
      BY <1>p
    <3> QED
      BY <1>3, <3>1
  <2>2. ASSUME NEW j \in 1..F
        PROVE  \E c \in contained : <<c[1], P + c[2]>> = <<Evidence!OwnerOf(v, j), P + j>>
    <3>1. PICK i \in 1..P : files[j].package = packages[i].id
      BY <1>p, ImportIs
    <3>2. <<i, j>> \in contained /\ i = Evidence!OwnerOf(v, j)
      BY <1>3, <1>p, <3>1
    <3> QED
      BY <3>2
  <2> HIDE DEF contained, packages, files
  <2> QED
    BY <2>1, <2>2
<1>11. Evidence!Range(s)
         = {<<0, i>> : i \in 1..P} \cup {<<c[1], P + c[2]>> : c \in contained}
  <2>1. \A r : r \in {<<0, i>> : i \in 1..P} <=> \E i \in 1..P : r = <<0, i>>
    BY SMTT(60)
  <2> HIDE DEF contained
  <2> QED
    BY <1>9, <1>10, <2>1
<1> QED
  BY <1>1, <1>4, <1>7, <1>11, <1>p

\* The SPDX document that an import has written is accepted.
LEMMA ImportedSpdx ==
    ASSUME Evidence!EvidenceConstants, NEW d \in Directories, Evidence!Imported(d)
    PROVE  Evidence!SpdxOK(d)
<1> DEFINE v == d.provenance
           spdx == d.spdx
<1>1. spdx = Evidence!SpdxOf(v) /\ v.manifest = d.manifest
  BY Zenon DEF Evidence!Imported
<1>2. /\ spdx.namespace = <<v.manifest, v>> /\ spdx.created = v.created
      /\ spdx.packages = [i \in 1..Len(v.packages) |->
            [number |-> i, id |-> v.packages[i].id, about |-> v.packages[i].about,
             code |-> Evidence!CodeOf(v.files, v.packages[i].id)]]
      /\ spdx.files = [j \in 1..Len(v.files) |->
            [number |-> j, path |-> v.files[j].path, hash |-> v.files[j].hash]]
  BY <1>1 DEF Evidence!SpdxOf
<1>3. Len(v.packages) \in Nat /\ Len(v.files) \in Nat
  BY ImportIs
<1>4. Evidence!SameLength(v.packages, spdx.packages) /\ Evidence!SameLength(v.files, spdx.files)
  BY <1>2, <1>3 DEF Evidence!SameLength
<1>5. /\ Evidence!Pairs(v.packages, spdx.packages) = 1..Len(v.packages)
      /\ Evidence!Pairs(v.files, spdx.files) = 1..Len(v.files)
  BY <1>3, <1>4, AllPairs
<1>6. \A i \in 1..Len(v.packages) : spdx.packages[i] =
            [number |-> i, id |-> v.packages[i].id, about |-> v.packages[i].about,
             code |-> Evidence!Code(d, v.packages[i].id)]
  BY <1>2, SameCode
<1>7. \A j \in 1..Len(v.files) : spdx.files[j] =
            [number |-> j, path |-> v.files[j].path, hash |-> d.payload[v.files[j].path]]
  BY <1>2, ImportIs, SMTT(60)
<1> QED
  BY <1>1, <1>2, <1>4, <1>5, <1>6, <1>7, ImportedRelations, ZenonT(60) DEF Evidence!SpdxOK

\* The packages of an inventory as it is written.
WrittenPackages(v, licenses) ==
    [i \in 1..Len(v.packages) |->
        [id |-> v.packages[i].id, about |-> v.packages[i].about, licenses |-> licenses[i]]]

\* The parts of an inventory as it is written.
LEMMA WrittenInventory ==
    ASSUME NEW v, NEW notices, NEW licenses, NEW x,
           x = Evidence!InventoryOf(v, notices, licenses)
    PROVE  /\ x.notices = notices
           /\ x.packages = WrittenPackages(v, licenses)
           /\ x.files = v.files
<1> PICK p : p = WrittenPackages(v, licenses)
  OBVIOUS
<1> PICK files : files = v.files
  OBVIOUS
<1>1. x = [notices |-> notices, packages |-> p, files |-> files]
  BY DEF Evidence!InventoryOf, WrittenPackages
<1>2. x.notices = notices /\ x.packages = p /\ x.files = files
  BY ONLY <1>1, SMT
<1> QED
  BY <1>2

\* The inventory that an import has written is accepted.
LEMMA ImportedInventory ==
    ASSUME Evidence!EvidenceConstants, NEW d \in Directories, Evidence!Imported(d)
    PROVE  Evidence!InventoryOK(d)
<1> DEFINE packages == d.provenance.packages
           inventory == d.inventory
           licenses == [i \in 1..Len(packages) |-> inventory.packages[i].licenses]
<1>1. inventory = Evidence!InventoryOf(d.provenance, d.files[<<"notices">>], licenses)
  BY ZenonT(60) DEF Evidence!Imported
<1>2. /\ inventory.notices = d.files[<<"notices">>]
      /\ inventory.packages = [i \in 1..Len(packages) |->
            [id |-> packages[i].id, about |-> packages[i].about, licenses |-> licenses[i]]]
      /\ inventory.files = d.provenance.files
  <2>1. PICK v, notices : v = d.provenance /\ notices = d.files[<<"notices">>]
    OBVIOUS
  <2>2. PICK l : l = licenses
    OBVIOUS
  <2> HIDE DEF licenses, inventory
  <2>3. inventory = Evidence!InventoryOf(v, notices, l)
    BY ONLY <1>1, <2>1, <2>2, Zenon
  <2>4. /\ inventory.notices = notices
        /\ inventory.packages = WrittenPackages(v, l)
        /\ inventory.files = v.files
    BY ONLY <2>3, WrittenInventory, SMT
  <2>5. inventory.packages = WrittenPackages(d.provenance, licenses)
    BY ONLY <2>1, <2>2, <2>4, Zenon
  <2>6. inventory.notices = d.files[<<"notices">>] /\ inventory.files = d.provenance.files
    BY ONLY <2>1, <2>4, Zenon
  <2> QED
    BY ONLY <2>5, <2>6, Zenon DEF WrittenPackages
<1>3. <<"notices">> \in DOMAIN d.files
  BY ZenonT(60) DEF Evidence!Imported, Evidence!EvidenceConstants
<1>4. Len(packages) \in Nat /\ Evidence!SameLength(packages, inventory.packages)
  BY ImportIs, Zenon DEF Evidence!Imported, Evidence!SameLength
<1>5. Evidence!Pairs(packages, inventory.packages) = 1..Len(packages)
      /\ Len(inventory.packages) = Len(packages)
  BY <1>4, AllPairs
<1>6. ASSUME NEW i \in 1..Len(packages)
      PROVE  /\ inventory.packages[i].id = packages[i].id
             /\ inventory.packages[i].about = packages[i].about
             /\ Evidence!LicensesOK(inventory.packages[i], d.files)
  <2>1. inventory.packages[i] = [id |-> packages[i].id, about |-> packages[i].about,
                                 licenses |-> licenses[i]]
    BY <1>2, Zenon
  <2>2. /\ inventory.packages[i].id = packages[i].id
        /\ inventory.packages[i].about = packages[i].about
        /\ inventory.packages[i].licenses = licenses[i]
    <3> HIDE DEF licenses, packages, inventory
    <3> QED
      BY <2>1, SMTT(60)
  <2>3. /\ Evidence!IsInjective(licenses[i])
        /\ \A l \in Evidence!Range(licenses[i]) :
              Len(l.path) > 2 /\ SubSeq(l.path, 1, 2) = <<"licenses", packages[i].id>>
    BY Zenon DEF Evidence!Imported
  <2>4. ASSUME NEW l \in Evidence!Range(licenses[i])
        PROVE  /\ Len(l.path) >= 3 /\ SubSeq(l.path, 1, 2) = <<"licenses", packages[i].id>>
               /\ l.path \in DOMAIN d.files /\ d.files[l.path] = l.hash
    <3>1. l \in Evidence!Licenses(d)
      BY <1>5 DEF Evidence!Licenses
    <3>2. l.path \in DOMAIN d.files /\ d.files[l.path] = l.hash
      BY <3>1, Zenon DEF Evidence!Imported
    <3>3. Evidence!List(l.path)
      BY <1>5, ParsedIs
    <3>4. PICK n : n = Len(l.path)
      OBVIOUS
    <3>5. n \in Nat /\ n > 2
      BY <2>3, <3>3, <3>4, ListIsSequence
    <3>6. n >= 3
      BY <3>5
    <3> QED
      BY <2>3, <3>2, <3>4, <3>6
  <2> HIDE DEF licenses
  <2> QED
    BY <2>2, <2>3, <2>4, SMTT(60) DEF Evidence!LicensesOK
<1>7. \A j \in 1..Len(d.provenance.files) : d.provenance.files[j].package \in Evidence!Ids(d)
  BY ImportIs DEF Evidence!Ids
<1>8. /\ Evidence!RecordsOK(inventory.files, Evidence!Ids(d))
      /\ Evidence!Listed(inventory.files) = Evidence!Payload(d)
  <2>1. /\ Evidence!RecordsOK(d.provenance.files, Evidence!Ids(d))
        /\ Evidence!Listed(d.provenance.files) = Evidence!Payload(d)
    BY <1>7, ImportIs, RecordsFit
  <2> QED
    BY <1>2, <2>1
<1> QED
  BY <1>2, <1>3, <1>4, <1>5, <1>6, <1>8, ZenonT(60) DEF Evidence!InventoryOK

\* All that an import has written is sound.
LEMMA ImportedIsSound ==
    ASSUME Evidence!EvidenceConstants, NEW d \in Directories, Evidence!Imported(d)
    PROVE  Sound(d)
<1>1. Evidence!CollectOK(d)
  BY ZenonT(60) DEF Evidence!Imported, Evidence!CollectOK
<1>2. Evidence!TreeOK(d)
  BY Zenon DEF Evidence!Imported, Evidence!TreeOK, Evidence!Expected, Evidence!FoldersOf
<1> QED
  BY <1>1, <1>2, ImportedProvenance, ImportedSpdx, ImportedInventory DEF Sound

EvidenceHalf == half = "evidence" => EvidenceInv

\* The check of the documents keeps its invariant in every behaviour of the components.
LEMMA EvidenceHolds == Spec => []EvidenceHalf
<1>1. Init => EvidenceHalf
  BY EvidenceInit DEF Init, EvidenceHalf
<1>2. EvidenceHalf /\ [Next]_vars => EvidenceHalf'
  <2>1. ASSUME [Next]_vars PROVE half' = half /\ (half = "evidence" => [Evidence!Next]_evidenceVars)
    BY <2>1 DEF Next, vars
  <2> QED
    BY <2>1, EvidenceStep DEF EvidenceHalf
<1> QED
  BY <1>1, <1>2, PTL DEF Spec

\* The documents beside a backend (backend_evidence.rs), for any directory: once the check
\* accepts it, the provenance, the SPDX document and the inventory tell one story of the
\* payload, and a directory just as an import wrote it is never refused.
THEOREM AcceptedEvidenceIsExact ==
    ASSUME Evidence!EvidenceConstants
    PROVE  Spec => []EvidenceIsExact
<1>1. EvidenceHalf => EvidenceIsExact
  <2> SUFFICES ASSUME EvidenceInv PROVE Evidence!EvidenceIsExact
    BY DEF EvidenceHalf, EvidenceIsExact
  <2>1. verdict = "accepted" => Sound(directory)
    BY DEF EvidenceInv, After, Sound
  <2>2. verdict = "refused" => ~Sound(directory)
    BY DEF EvidenceInv
  <2>3. directory \in Directories
    BY DEF EvidenceInv
  <2> QED
    BY <2>1, <2>2, <2>3, SoundIsOneStory, ImportedIsSound DEF Evidence!EvidenceIsExact
<1> QED
  BY <1>1, EvidenceHolds, PTL

-----------------------------------------------------------------------------
\* The lists of units, which have at least those that the command line uses.
Coded(U) == {"x", "space", "slash", "quote"} \subseteq U
Lines(U) == Seq(U)

\* One unit is a list of units.
LEMMA UnitIsLine ==
    ASSUME NEW U
    PROVE  \A u \in U : <<u>> \in Lines(U)
BY DEF Lines

\* The units of the syntax, and the short lists made of them.
LEMMA MarksAre ==
    ASSUME NEW U, Coded(U)
    PROVE  /\ "slash" \in U
           /\ <<>> \in Lines(U) /\ <<"x">> \in Lines(U) /\ <<"space">> \in Lines(U)
           /\ <<"quote">> \in Lines(U)
<1>1. "x" \in U /\ "space" \in U /\ "slash" \in U /\ "quote" \in U
  BY DEF Coded
<1>2. \A u \in U : <<u>> \in Lines(U)
  BY UnitIsLine
<1>3. <<>> \in Lines(U)
  BY DEF Lines
<1> QED
  BY <1>1, <1>2, <1>3

\* Two lists of units in a row are a list of units.
LEMMA LinesJoin ==
    ASSUME NEW U
    PROVE  \A s, t \in Lines(U) : s \o t \in Lines(U)
BY DEF Lines

\* A run of backslashes is a list of units.
LEMMA RepeatIs ==
    ASSUME NEW U, Coded(U), NEW n \in Nat
    PROVE  Format!Repeat("slash", n) \in Lines(U)
<1>1. "slash" \in U
  BY MarksAre
<1> QED
  BY <1>1 DEF Format!Repeat, Lines

\* The quotation of one argument, unit by unit.
Quoting(U) == [out : Lines(U), slashes : Nat]
Quotes(s, a) == Format!FoldLeft(Format!QuoteUnit, s, a)

\* The quotation of an argument stays a state of it.
LEMMA QuoteType ==
    ASSUME NEW U, Coded(U), NEW s \in Quoting(U), NEW u \in U
    PROVE  Format!QuoteUnit(s, u) \in Quoting(U)
<1>1. s.slashes \in Nat /\ 2 * s.slashes + 1 \in Nat /\ s.out \in Lines(U)
  BY DEF Quoting
<1>2. CASE u = "slash"
  BY <1>1, <1>2 DEF Quoting, Format!QuoteUnit
<1>3. CASE u # "slash"
  <2> PICK n : n = IF u = "quote" THEN 2 * s.slashes + 1 ELSE s.slashes
    OBVIOUS
  <2>1. n \in Nat /\ <<u>> \in Lines(U)
    BY <1>1 DEF Lines
  <2>2. s.out \o Format!Repeat("slash", n) \o <<u>> \in Lines(U)
    BY <1>1, <2>1, RepeatIs, LinesJoin
  <2>3. Format!QuoteUnit(s, u)
          = [out |-> s.out \o Format!Repeat("slash", n) \o <<u>>, slashes |-> 0]
    BY <1>3 DEF Format!QuoteUnit
  <2> QED
    BY <2>2, <2>3 DEF Quoting
<1> QED
  BY <1>2, <1>3

\* The quotation of an argument, one element at a time.
QuoteRun(U, start, a, t) ==
    /\ t \in [0..Len(a) -> Quoting(U)] /\ t[0] = start
    /\ \A k \in 0..(Len(a) - 1) : t[k + 1] = Format!QuoteUnit(t[k], a[k + 1])
    /\ Quotes(start, a) = t[Len(a)]

\* The quotation of an argument unit by unit, as the fold runs.
LEMMA QuoteSteps ==
    ASSUME NEW U, Coded(U), NEW a \in Seq(U), NEW start \in Quoting(U)
    PROVE  \E t : QuoteRun(U, start, a, t)
<1> PICK n : n = Len(a)
  OBVIOUS
<1>0. n \in Nat /\ DOMAIN a = 1..n /\ \A k \in 1..n : a[k] \in U
  BY LenProperties
<1> DEFINE o == [p \in Quoting(U) \X (1..n) |-> Format!QuoteUnit(p[1], a[p[2]])]
           next(f, s) == Format!QuoteUnit(f[s \ {Format!Max(s)}], a[Format!Max(s)])
           Run(f) == f = [s \in SUBSET DOMAIN a |-> IF s = {} THEN start ELSE next(f, s)]
<1>1. o \in [Quoting(U) \X (1..n) -> Quoting(U)]
  BY <1>0, QuoteType
<1> HIDE DEF o
<1>2. PICK f \in [SUBSET (1..n) -> Quoting(U)] : Folding(n, start, o, f)
  BY <1>0, <1>1, FoldExists
<1>3. Run(f)
  <2>1. ASSUME NEW s \in SUBSET (1..n), s # {} PROVE After1(f, s, o) = next(f, s)
    <3> PICK x, y : x = Format!Max(s) /\ y = f[s \ {Format!Max(s)}]
      OBVIOUS
    <3>1. x \in 1..n /\ y \in Quoting(U)
      BY <1>0, <2>1, MaxIsElement
    <3>2. o[<<y, x>>] = Format!QuoteUnit(y, a[x])
      BY <3>1 DEF o
    <3> QED
      BY <3>2 DEF After1
  <2> QED
    BY <1>0, <1>2, <2>1 DEF Folding
<1>4. Quotes(start, a) = (CHOOSE g : Run(g))[DOMAIN a]
  BY DEF Quotes, Format!FoldLeft, Format!MapThenFoldSet
<1> PICK g : g = CHOOSE h : Run(h)
  OBVIOUS
<1>5. g[{}] = start /\ \A s \in SUBSET (1..n) : s # {} => g[s] = next(g, s)
  <2>1. Run(g)
    BY <1>3
  <2> PICK h : h = [s \in SUBSET (1..n) |-> IF s = {} THEN start ELSE next(g, s)]
    OBVIOUS
  <2>2. g = h
    BY <1>0, <2>1
  <2> QED
    BY <2>2
<1> DEFINE t == [k \in 0..n |-> g[1..k]]
<1>6. t[0] = start
  <2>1. 1..0 = {}
    OBVIOUS
  <2> QED
    BY <1>0, <1>5, <2>1
<1>7. ASSUME NEW k \in 0..(n - 1) PROVE t[k + 1] = Format!QuoteUnit(t[k], a[k + 1])
  <2> PICK s : s = 1..(k + 1)
    OBVIOUS
  <2>1. s \in SUBSET (1..n) /\ s # {} /\ Format!Max(s) = k + 1 /\ s \ {k + 1} = 1..k
    BY <1>0, FirstSets
  <2>2. g[s] = Format!QuoteUnit(g[1..k], a[k + 1])
    BY <1>5, <2>1
  <2> QED
    BY <1>0, <2>2
<1>8. t \in [0..n -> Quoting(U)] /\ Quotes(start, a) = t[n]
  <2>1. \A k \in 0..(n - 1) : a[k + 1] \in U
    BY <1>0
  <2>2. Quotes(start, a) = t[n]
    BY <1>0, <1>4
  <2>3. DOMAIN t = 0..n /\ t = [k \in 0..n |-> t[k]]
    OBVIOUS
  <2> HIDE DEF t
  <2>4. \A k \in 0..n : t[k] \in Quoting(U)
    <3>1. ASSUME NEW k \in 0..(n - 1), t[k] \in Quoting(U) PROVE t[k + 1] \in Quoting(U)
      <4>1. Format!QuoteUnit(t[k], a[k + 1]) \in Quoting(U)
        BY <2>1, <3>1, QuoteType
      <4> QED
        BY <1>7, <4>1
    <3>2. t[0] \in Quoting(U)
      BY <1>6
    <3> QED
      BY <1>0, <3>1, <3>2, StepsStay
  <2> QED
    BY <2>2, <2>3, <2>4
<1> HIDE DEF t
<1> QED
  BY <1>6, <1>7, <1>8 DEF QuoteRun

\* The quotation of a longer argument takes one more step.
LEMMA QuoteFolds ==
    ASSUME NEW U, Coded(U), NEW a \in Seq(U), NEW start \in Quoting(U)
    PROVE  /\ Quotes(start, <<>>) = start
           /\ Quotes(start, a) \in Quoting(U)
           /\ \A u \in U : Quotes(start, Append(a, u)) = Format!QuoteUnit(Quotes(start, a), u)
<1>1. Quotes(start, <<>>) = start
  <2>1. <<>> \in Seq(U)
    OBVIOUS
  <2>2. PICK t : QuoteRun(U, start, <<>>, t)
    BY <2>1, QuoteSteps
  <2>3. Len(<<>>) = 0
    OBVIOUS
  <2> QED
    BY <2>2, <2>3 DEF QuoteRun
<1> PICK n : n = Len(a)
  OBVIOUS
<1> PICK t : QuoteRun(U, start, a, t)
  BY QuoteSteps
<1>2. /\ t \in [0..n -> Quoting(U)] /\ t[0] = start
      /\ \A k \in 0..(n - 1) : t[k + 1] = Format!QuoteUnit(t[k], a[k + 1])
      /\ Quotes(start, a) = t[n]
  BY DEF QuoteRun
<1>3. n \in Nat
  BY LenProperties
<1>4. Quotes(start, a) \in Quoting(U)
  BY <1>2, <1>3
<1>5. ASSUME NEW u \in U PROVE Quotes(start, Append(a, u)) = Format!QuoteUnit(Quotes(start, a), u)
  <2> PICK b : b = Append(a, u)
    OBVIOUS
  <2>1. b \in Seq(U) /\ Len(b) = n + 1 /\ (\A k \in 1..n : b[k] = a[k]) /\ b[n + 1] = u
    BY <1>3, AppendProperties
  <2> PICK r : QuoteRun(U, start, b, r)
    BY <2>1, QuoteSteps
  <2>2. /\ r[0] = start
        /\ \A k \in 0..((n + 1) - 1) : r[k + 1] = Format!QuoteUnit(r[k], b[k + 1])
        /\ Quotes(start, b) = r[n + 1]
    BY <2>1 DEF QuoteRun
  <2>3. \A k \in 0..(n - 1) : r[k] = t[k] => r[k + 1] = t[k + 1]
    <3>1. \A k \in 0..(n - 1) : k \in 0..((n + 1) - 1) /\ b[k + 1] = a[k + 1]
      BY <1>3, <2>1
    <3> QED
      BY <1>2, <2>2, <3>1
  <2>4. r[0] = t[0]
    BY <1>2, <2>2
  <2>5. r[n] = t[n]
    BY ONLY <1>3, <2>3, <2>4, SameRun
  <2>6. n \in 0..((n + 1) - 1)
    BY <1>3
  <2> QED
    BY <1>2, <2>1, <2>2, <2>5, <2>6
<1> QED
  BY <1>1, <1>4, <1>5

-----------------------------------------------------------------------------
\* The reading of a command line: between two arguments, in one, or in a quoted part of one.
Between(d) == [done |-> d, now |-> <<>>, slashes |-> 0, at |-> "gap"]
Outside(d, w, n) == [done |-> d, now |-> w, slashes |-> n, at |-> "word"]
Inside(d, w, n) == [done |-> d, now |-> w, slashes |-> n, at |-> "quotes"]
Splitting(U) ==
    {Between(d) : d \in Seq(Lines(U))}
    \cup {Outside(d, w, n) : d \in Seq(Lines(U)), w \in Lines(U), n \in Nat}
    \cup {Inside(d, w, n) : d \in Seq(Lines(U)), w \in Lines(U), n \in Nat}
Reads(s, a) == Format!FoldLeft(Format!SplitUnit, s, a)

\* A run of 2n backslashes reads as n of them, one of 2n + 1 as n and a mark.
LEMMA HalfIs ==
    ASSUME NEW n \in Nat
    PROVE  /\ n \div 2 \in Nat
           /\ (2 * n) \div 2 = n /\ (2 * n) % 2 = 0
           /\ (2 * n + 1) \div 2 = n /\ (2 * n + 1) % 2 = 1
OBVIOUS

\* The reading is between two arguments, in one, or in a quoted part of one.
LEMMA StatesAre ==
    ASSUME NEW U
    PROVE  /\ \A s \in Splitting(U) :
                 \/ \E d \in Seq(Lines(U)) : s = Between(d)
                 \/ \E d \in Seq(Lines(U)), w \in Lines(U), n \in Nat : s = Outside(d, w, n)
                 \/ \E d \in Seq(Lines(U)), w \in Lines(U), n \in Nat : s = Inside(d, w, n)
           /\ \A d \in Seq(Lines(U)) : Between(d) \in Splitting(U)
           /\ \A d \in Seq(Lines(U)), w \in Lines(U), n \in Nat :
                 Outside(d, w, n) \in Splitting(U) /\ Inside(d, w, n) \in Splitting(U)
BY DEF Splitting

\* What is read, and what has been read when an argument ends.
LEMMA FlushIs ==
    ASSUME NEW d, NEW w, NEW n
    PROVE  /\ Format!Fresh(d) = Between(d)
           /\ Format!Flush(Between(d)) = d
           /\ Format!Flush(Outside(d, w, n)) = Append(d, w \o Format!Repeat("slash", n))
BY DEF Format!Fresh, Format!Flush, Between, Outside

\* What a unit does between two arguments.
LEMMA BetweenReads ==
    ASSUME NEW d
    PROVE  /\ Format!SplitUnit(Between(d), "slash") = Outside(d, <<>>, 1)
           /\ Format!SplitUnit(Between(d), "quote")
                 = Inside(d, <<>> \o Format!Repeat("slash", 0), 0)
           /\ Format!SplitUnit(Between(d), "space") = Between(d)
           /\ \A u : u \notin {"slash", "quote", "space"} =>
                 Format!SplitUnit(Between(d), u)
                    = Outside(d, <<>> \o (Format!Repeat("slash", 0) \o <<u>>), 0)
<1>1. 0 \div 2 = 0 /\ 0 % 2 = 0 /\ 0 + 1 = 1
  OBVIOUS
<1> PICK s : s = Between(d)
  OBVIOUS
<1>s. /\ s = [done |-> d, now |-> <<>>, slashes |-> 0, at |-> "gap"]
      /\ s.done = d /\ s.now = <<>> /\ s.slashes = 0 /\ s.at = "gap"
      /\ Format!Opened(s.at) = "word" /\ Format!Turned(s.at) = "quotes"
  BY DEF Between, Format!Opened, Format!Turned
<1>2. Format!SplitUnit(s, "slash") = Outside(d, <<>>, 1)
  <2>1. Format!SplitUnit(s, "slash") = [s EXCEPT !.slashes = 1, !.at = "word"]
    BY <1>1, <1>s DEF Format!SplitUnit
  <2> QED
    BY <1>s, <2>1 DEF Outside
<1>3. Format!SplitUnit(s, "quote")
                 = Inside(d, <<>> \o Format!Repeat("slash", 0), 0)
  BY <1>1, <1>s DEF Format!SplitUnit, Format!Extended, Inside
<1>4. Format!SplitUnit(s, "space") = Between(d)
  BY <1>s, FlushIs DEF Format!SplitUnit
<1>5. ASSUME NEW u, u \notin {"slash", "quote", "space"}
      PROVE  Format!SplitUnit(s, u) = Outside(d, <<>> \o (Format!Repeat("slash", 0) \o <<u>>), 0)
  BY <1>5, <1>s DEF Format!SplitUnit, Format!Extended, Outside
<1> QED
  BY <1>2, <1>3, <1>4, <1>5

\* What a unit does in an argument.
LEMMA OutsideReads ==
    ASSUME NEW d, NEW w, NEW n \in Nat
    PROVE  /\ Format!SplitUnit(Outside(d, w, n), "slash") = Outside(d, w, n + 1)
           /\ n % 2 = 0 => Format!SplitUnit(Outside(d, w, n), "quote")
                 = Inside(d, w \o Format!Repeat("slash", n \div 2), 0)
           /\ n % 2 = 1 => Format!SplitUnit(Outside(d, w, n), "quote")
                 = Outside(d, w \o (Format!Repeat("slash", n \div 2) \o <<"quote">>), 0)
           /\ Format!SplitUnit(Outside(d, w, n), "space")
                 = Between(Append(d, w \o Format!Repeat("slash", n)))
           /\ \A u : u \notin {"slash", "quote", "space"} =>
                 Format!SplitUnit(Outside(d, w, n), u)
                    = Outside(d, w \o (Format!Repeat("slash", n) \o <<u>>), 0)
<1> PICK s : s = Outside(d, w, n)
  OBVIOUS
<1>s. /\ s = [done |-> d, now |-> w, slashes |-> n, at |-> "word"]
      /\ s.done = d /\ s.now = w /\ s.slashes = n /\ s.at = "word"
      /\ Format!Opened(s.at) = "word" /\ Format!Turned(s.at) = "quotes"
  BY DEF Outside, Format!Opened, Format!Turned
<1>1. Format!SplitUnit(s, "slash") = Outside(d, w, n + 1)
  <2>1. Format!SplitUnit(s, "slash") = [s EXCEPT !.slashes = n + 1, !.at = "word"]
    BY <1>s DEF Format!SplitUnit
  <2> QED
    BY <1>s, <2>1 DEF Outside
<1>2. ASSUME n % 2 = 0
      PROVE  Format!SplitUnit(s, "quote") = Inside(d, w \o Format!Repeat("slash", n \div 2), 0)
  BY <1>2, <1>s DEF Format!SplitUnit, Format!Extended, Inside
<1>3. ASSUME n % 2 = 1
      PROVE  Format!SplitUnit(s, "quote")
                = Outside(d, w \o (Format!Repeat("slash", n \div 2) \o <<"quote">>), 0)
  <2> PICK v : v = Format!Repeat("slash", n \div 2) \o <<"quote">>
    OBVIOUS
  <2>1. n % 2 # 0
    BY <1>3
  <2>2. Format!SplitUnit(s, "quote") = Format!Extended(s, v, "word")
    BY <1>s, <2>1 DEF Format!SplitUnit
  <2> QED
    BY <1>s, <2>2 DEF Format!Extended, Outside
<1>4. Format!SplitUnit(s, "space") = Between(Append(d, w \o Format!Repeat("slash", n)))
  <2>1. Format!SplitUnit(s, "space") = Format!Fresh(Format!Flush(s))
    BY <1>s DEF Format!SplitUnit
  <2>2. Format!Flush(s) = Append(d, w \o Format!Repeat("slash", n))
    BY FlushIs
  <2> QED
    BY <2>1, <2>2, FlushIs
<1>5. ASSUME NEW u, u \notin {"slash", "quote", "space"}
      PROVE  Format!SplitUnit(s, u) = Outside(d, w \o (Format!Repeat("slash", n) \o <<u>>), 0)
  BY <1>5, <1>s DEF Format!SplitUnit, Format!Extended, Outside
<1> QED
  BY <1>1, <1>2, <1>3, <1>4, <1>5

\* What a unit does in a quoted part of an argument: a space is a unit like others.
LEMMA InsideReads ==
    ASSUME NEW d, NEW w, NEW n \in Nat
    PROVE  /\ Format!SplitUnit(Inside(d, w, n), "slash") = Inside(d, w, n + 1)
           /\ n % 2 = 0 => Format!SplitUnit(Inside(d, w, n), "quote")
                 = Outside(d, w \o Format!Repeat("slash", n \div 2), 0)
           /\ n % 2 = 1 => Format!SplitUnit(Inside(d, w, n), "quote")
                 = Inside(d, w \o (Format!Repeat("slash", n \div 2) \o <<"quote">>), 0)
           /\ \A u : u \notin {"slash", "quote"} =>
                 Format!SplitUnit(Inside(d, w, n), u)
                    = Inside(d, w \o (Format!Repeat("slash", n) \o <<u>>), 0)
<1> PICK s : s = Inside(d, w, n)
  OBVIOUS
<1>s. /\ s = [done |-> d, now |-> w, slashes |-> n, at |-> "quotes"]
      /\ s.done = d /\ s.now = w /\ s.slashes = n /\ s.at = "quotes"
      /\ Format!Opened(s.at) = "quotes" /\ Format!Turned(s.at) = "word"
  BY DEF Inside, Format!Opened, Format!Turned
<1>1. Format!SplitUnit(s, "slash") = Inside(d, w, n + 1)
  <2>1. Format!SplitUnit(s, "slash") = [s EXCEPT !.slashes = n + 1, !.at = "quotes"]
    BY <1>s DEF Format!SplitUnit
  <2> QED
    BY <1>s, <2>1 DEF Inside
<1>2. ASSUME n % 2 = 0
      PROVE  Format!SplitUnit(s, "quote") = Outside(d, w \o Format!Repeat("slash", n \div 2), 0)
  BY <1>2, <1>s DEF Format!SplitUnit, Format!Extended, Outside
<1>3. ASSUME n % 2 = 1
      PROVE  Format!SplitUnit(s, "quote")
                = Inside(d, w \o (Format!Repeat("slash", n \div 2) \o <<"quote">>), 0)
  <2> PICK v : v = Format!Repeat("slash", n \div 2) \o <<"quote">>
    OBVIOUS
  <2>1. n % 2 # 0
    BY <1>3
  <2>2. Format!SplitUnit(s, "quote") = Format!Extended(s, v, "quotes")
    BY <1>s, <2>1 DEF Format!SplitUnit
  <2> QED
    BY <1>s, <2>2 DEF Format!Extended, Inside
<1>5. ASSUME NEW u, u \notin {"slash", "quote"}
      PROVE  Format!SplitUnit(s, u) = Inside(d, w \o (Format!Repeat("slash", n) \o <<u>>), 0)
  BY <1>5, <1>s DEF Format!SplitUnit, Format!Extended, Inside
<1> QED
  BY <1>1, <1>2, <1>3, <1>5

\* The reading of a command line stays a state of it.
LEMMA SplitType ==
    ASSUME NEW U, Coded(U), NEW s \in Splitting(U), NEW u \in U
    PROVE  Format!SplitUnit(s, u) \in Splitting(U)
<1>r. \A n \in Nat : Format!Repeat("slash", n) \in Lines(U)
  BY RepeatIs
<1>m. <<>> \in Lines(U) /\ <<"quote">> \in Lines(U) /\ <<u>> \in Lines(U)
  BY MarksAre, UnitIsLine
<1>1. ASSUME NEW d \in Seq(Lines(U)), s = Between(d) PROVE Format!SplitUnit(s, u) \in Splitting(U)
  <2> PICK m : m = <<>> \o Format!Repeat("slash", 0)
    OBVIOUS
  <2> PICK v : v = <<>> \o (Format!Repeat("slash", 0) \o <<u>>)
    OBVIOUS
  <2>1. m \in Lines(U) /\ v \in Lines(U)
    BY <1>r, <1>m, LinesJoin
  <2>2. Between(d) \in Splitting(U) /\ Outside(d, <<>>, 1) \in Splitting(U)
    BY <1>m, StatesAre
  <2>3. Outside(d, v, 0) \in Splitting(U) /\ Inside(d, m, 0) \in Splitting(U)
    BY <2>1, StatesAre
  <2>4. \/ Format!SplitUnit(s, u) = Outside(d, <<>>, 1)
        \/ Format!SplitUnit(s, u) = Inside(d, m, 0)
        \/ Format!SplitUnit(s, u) = Between(d)
        \/ Format!SplitUnit(s, u) = Outside(d, v, 0)
    BY <1>1, BetweenReads
  <2> QED
    BY <2>2, <2>3, <2>4
<1>2. ASSUME NEW d \in Seq(Lines(U)), NEW w \in Lines(U), NEW n \in Nat,
             s = Outside(d, w, n) \/ s = Inside(d, w, n)
      PROVE  Format!SplitUnit(s, u) \in Splitting(U)
  <2> PICK m : m = w \o Format!Repeat("slash", n \div 2)
    OBVIOUS
  <2> PICK q : q = w \o (Format!Repeat("slash", n \div 2) \o <<"quote">>)
    OBVIOUS
  <2> PICK v : v = w \o (Format!Repeat("slash", n) \o <<u>>)
    OBVIOUS
  <2> PICK e : e = Append(d, w \o Format!Repeat("slash", n))
    OBVIOUS
  <2>1. n \div 2 \in Nat
    BY HalfIs
  <2>2. m \in Lines(U) /\ q \in Lines(U) /\ v \in Lines(U)
    BY <1>r, <1>m, <2>1, LinesJoin
  <2>3. e \in Seq(Lines(U))
    BY <1>r, LinesJoin, AppendProperties
  <2>4. \A x \in {m, q, v} : Outside(d, x, 0) \in Splitting(U) /\ Inside(d, x, 0) \in Splitting(U)
    BY <2>2, StatesAre
  <2>5. /\ Outside(d, w, n + 1) \in Splitting(U) /\ Inside(d, w, n + 1) \in Splitting(U)
        /\ Between(e) \in Splitting(U)
    <3>1. n + 1 \in Nat
      OBVIOUS
    <3> QED
      BY <2>3, <3>1, StatesAre
  <2>6. n % 2 = 0 \/ n % 2 = 1
    OBVIOUS
  <2>7. CASE s = Outside(d, w, n)
    <3>1. \/ Format!SplitUnit(s, u) = Outside(d, w, n + 1)
          \/ Format!SplitUnit(s, u) = Inside(d, m, 0)
          \/ Format!SplitUnit(s, u) = Outside(d, q, 0)
          \/ Format!SplitUnit(s, u) = Between(e)
          \/ Format!SplitUnit(s, u) = Outside(d, v, 0)
      <4>1. CASE u = "quote"
        BY <2>6, <2>7, <4>1, OutsideReads
      <4>2. CASE u \in {"slash", "space"}
        BY <2>7, <4>2, OutsideReads, ZenonT(60)
      <4>3. CASE u \notin {"slash", "quote", "space"}
        BY <2>7, <4>3, OutsideReads, ZenonT(60)
      <4> QED
        BY <4>1, <4>2, <4>3
    <3> QED
      BY <2>4, <2>5, <3>1
  <2>8. CASE s = Inside(d, w, n)
    <3>1. \/ Format!SplitUnit(s, u) = Inside(d, w, n + 1)
          \/ Format!SplitUnit(s, u) = Outside(d, m, 0)
          \/ Format!SplitUnit(s, u) = Inside(d, q, 0)
          \/ Format!SplitUnit(s, u) = Inside(d, v, 0)
      BY <2>6, <2>8, InsideReads
    <3> QED
      BY <2>4, <2>5, <3>1
  <2> QED
    BY <1>2, <2>7, <2>8
<1> QED
  BY <1>1, <1>2, StatesAre

\* The reading of a command line, one element at a time.
SplitRun(U, start, a, t) ==
    /\ t \in [0..Len(a) -> Splitting(U)] /\ t[0] = start
    /\ \A k \in 0..(Len(a) - 1) : t[k + 1] = Format!SplitUnit(t[k], a[k + 1])
    /\ Reads(start, a) = t[Len(a)]

\* The reading of a command line unit by unit, as the fold runs.
LEMMA SplitSteps ==
    ASSUME NEW U, Coded(U), NEW a \in Seq(U), NEW start \in Splitting(U)
    PROVE  \E t : SplitRun(U, start, a, t)
<1> PICK n : n = Len(a)
  OBVIOUS
<1>0. n \in Nat /\ DOMAIN a = 1..n /\ \A k \in 1..n : a[k] \in U
  BY LenProperties
<1> DEFINE o == [p \in Splitting(U) \X (1..n) |-> Format!SplitUnit(p[1], a[p[2]])]
           next(f, s) == Format!SplitUnit(f[s \ {Format!Max(s)}], a[Format!Max(s)])
           Run(f) == f = [s \in SUBSET DOMAIN a |-> IF s = {} THEN start ELSE next(f, s)]
<1>1. o \in [Splitting(U) \X (1..n) -> Splitting(U)]
  BY <1>0, SplitType
<1> HIDE DEF o
<1>2. PICK f \in [SUBSET (1..n) -> Splitting(U)] : Folding(n, start, o, f)
  BY <1>0, <1>1, FoldExists
<1>3. Run(f)
  <2>1. ASSUME NEW s \in SUBSET (1..n), s # {} PROVE After1(f, s, o) = next(f, s)
    <3> PICK x, y : x = Format!Max(s) /\ y = f[s \ {Format!Max(s)}]
      OBVIOUS
    <3>1. x \in 1..n /\ y \in Splitting(U)
      BY <1>0, <2>1, MaxIsElement
    <3>2. o[<<y, x>>] = Format!SplitUnit(y, a[x])
      BY <3>1 DEF o
    <3> QED
      BY <3>2 DEF After1
  <2> QED
    BY <1>0, <1>2, <2>1 DEF Folding
<1>4. Reads(start, a) = (CHOOSE g : Run(g))[DOMAIN a]
  BY DEF Reads, Format!FoldLeft, Format!MapThenFoldSet
<1> PICK g : g = CHOOSE h : Run(h)
  OBVIOUS
<1>5. g[{}] = start /\ \A s \in SUBSET (1..n) : s # {} => g[s] = next(g, s)
  <2>1. Run(g)
    BY <1>3
  <2> PICK h : h = [s \in SUBSET (1..n) |-> IF s = {} THEN start ELSE next(g, s)]
    OBVIOUS
  <2>2. g = h
    BY <1>0, <2>1
  <2> QED
    BY <2>2
<1> DEFINE t == [k \in 0..n |-> g[1..k]]
<1>6. t[0] = start
  <2>1. 1..0 = {}
    OBVIOUS
  <2> QED
    BY <1>0, <1>5, <2>1
<1>7. ASSUME NEW k \in 0..(n - 1) PROVE t[k + 1] = Format!SplitUnit(t[k], a[k + 1])
  <2> PICK s : s = 1..(k + 1)
    OBVIOUS
  <2>1. s \in SUBSET (1..n) /\ s # {} /\ Format!Max(s) = k + 1 /\ s \ {k + 1} = 1..k
    BY <1>0, FirstSets
  <2>2. g[s] = Format!SplitUnit(g[1..k], a[k + 1])
    BY <1>5, <2>1
  <2> QED
    BY <1>0, <2>2
<1>8. t \in [0..n -> Splitting(U)] /\ Reads(start, a) = t[n]
  <2>1. \A k \in 0..(n - 1) : a[k + 1] \in U
    BY <1>0
  <2>2. Reads(start, a) = t[n]
    BY <1>0, <1>4
  <2>3. DOMAIN t = 0..n /\ t = [k \in 0..n |-> t[k]]
    OBVIOUS
  <2> HIDE DEF t
  <2>4. \A k \in 0..n : t[k] \in Splitting(U)
    <3>1. ASSUME NEW k \in 0..(n - 1), t[k] \in Splitting(U) PROVE t[k + 1] \in Splitting(U)
      <4>1. Format!SplitUnit(t[k], a[k + 1]) \in Splitting(U)
        BY <2>1, <3>1, SplitType
      <4> QED
        BY <1>7, <4>1
    <3>2. t[0] \in Splitting(U)
      BY <1>6
    <3> QED
      BY <1>0, <3>1, <3>2, StepsStay
  <2> QED
    BY <2>2, <2>3, <2>4
<1> HIDE DEF t
<1> QED
  BY <1>6, <1>7, <1>8 DEF SplitRun

\* The reading of a longer command line takes one more step.
LEMMA SplitFolds ==
    ASSUME NEW U, Coded(U), NEW a \in Seq(U), NEW start \in Splitting(U)
    PROVE  /\ Reads(start, <<>>) = start
           /\ Reads(start, a) \in Splitting(U)
           /\ \A u \in U : Reads(start, Append(a, u)) = Format!SplitUnit(Reads(start, a), u)
<1>1. Reads(start, <<>>) = start
  <2>1. <<>> \in Seq(U)
    OBVIOUS
  <2>2. PICK t : SplitRun(U, start, <<>>, t)
    BY <2>1, SplitSteps
  <2>3. Len(<<>>) = 0
    OBVIOUS
  <2> QED
    BY <2>2, <2>3 DEF SplitRun
<1> PICK n : n = Len(a)
  OBVIOUS
<1> PICK t : SplitRun(U, start, a, t)
  BY SplitSteps
<1>2. /\ t \in [0..n -> Splitting(U)] /\ t[0] = start
      /\ \A k \in 0..(n - 1) : t[k + 1] = Format!SplitUnit(t[k], a[k + 1])
      /\ Reads(start, a) = t[n]
  BY DEF SplitRun
<1>3. n \in Nat
  BY LenProperties
<1>4. Reads(start, a) \in Splitting(U)
  BY <1>2, <1>3
<1>5. ASSUME NEW u \in U PROVE Reads(start, Append(a, u)) = Format!SplitUnit(Reads(start, a), u)
  <2> PICK b : b = Append(a, u)
    OBVIOUS
  <2>1. b \in Seq(U) /\ Len(b) = n + 1 /\ (\A k \in 1..n : b[k] = a[k]) /\ b[n + 1] = u
    BY <1>3, AppendProperties
  <2> PICK r : SplitRun(U, start, b, r)
    BY <2>1, SplitSteps
  <2>2. /\ r[0] = start
        /\ \A k \in 0..((n + 1) - 1) : r[k + 1] = Format!SplitUnit(r[k], b[k + 1])
        /\ Reads(start, b) = r[n + 1]
    BY <2>1 DEF SplitRun
  <2>3. \A k \in 0..(n - 1) : r[k] = t[k] => r[k + 1] = t[k + 1]
    <3>1. \A k \in 0..(n - 1) : k \in 0..((n + 1) - 1) /\ b[k + 1] = a[k + 1]
      BY <1>3, <2>1
    <3> QED
      BY <1>2, <2>2, <3>1
  <2>4. r[0] = t[0]
    BY <1>2, <2>2
  <2>5. r[n] = t[n]
    BY ONLY <1>3, <2>3, <2>4, SameRun
  <2>6. n \in 0..((n + 1) - 1)
    BY <1>3
  <2> QED
    BY <1>2, <2>1, <2>2, <2>5, <2>6
<1> QED
  BY <1>1, <1>4, <1>5

-----------------------------------------------------------------------------
\* The writing of a command line.
QuoteStart == [out |-> <<>>, slashes |-> 0]
Writes(s, a) == Format!FoldLeft(Format!AddArgument, s, a)

\* The quotation of an argument that needs quotes.
LEMMA QuotedIsFold ==
    ASSUME NEW a, Format!NeedsQuotes(a)
    PROVE  Format!Quoted(a) = <<"quote">> \o Format!Escaped(Quotes(QuoteStart, a)) \o <<"quote">>
BY DEF Format!Quoted, Quotes, QuoteStart

\* The quotation of an argument is a list of units.
LEMMA QuotedType ==
    ASSUME NEW U, Coded(U), NEW a \in Lines(U)
    PROVE  Format!Quoted(a) \in Lines(U)
<1>1. QuoteStart \in Quoting(U) /\ a \in Seq(U)
  BY MarksAre DEF QuoteStart, Quoting, Lines
<1> PICK q : q = Quotes(QuoteStart, a)
  OBVIOUS
<1>2. q \in Quoting(U)
  BY <1>1, QuoteFolds
<1>3. q.out \in Lines(U) /\ 2 * q.slashes \in Nat
  BY <1>2 DEF Quoting
<1>4. Format!Escaped(q) \in Lines(U)
  BY <1>3, RepeatIs, LinesJoin DEF Format!Escaped
<1>5. <<"quote">> \in Lines(U)
  BY MarksAre
<1>6. <<"quote">> \o Format!Escaped(q) \o <<"quote">> \in Lines(U)
  BY <1>4, <1>5, LinesJoin
<1>7. CASE Format!NeedsQuotes(a)
  BY <1>6, <1>7, QuotedIsFold
<1>8. CASE ~Format!NeedsQuotes(a)
  BY <1>8 DEF Format!Quoted
<1> QED
  BY <1>7, <1>8

\* A command line with one argument more is a list of units.
LEMMA LineType ==
    ASSUME NEW U, Coded(U), NEW s \in Lines(U), NEW u \in Lines(U)
    PROVE  Format!AddArgument(s, u) \in Lines(U)
<1>1. <<"space">> \in Lines(U)
  BY MarksAre
<1> QED
  BY <1>1, QuotedType, LinesJoin DEF Format!AddArgument

\* The writing of a command line, one element at a time.
LineRun(U, start, a, t) ==
    /\ t \in [0..Len(a) -> Lines(U)] /\ t[0] = start
    /\ \A k \in 0..(Len(a) - 1) : t[k + 1] = Format!AddArgument(t[k], a[k + 1])
    /\ Writes(start, a) = t[Len(a)]

\* The writing of a command line argument by argument, as the fold runs.
LEMMA LineSteps ==
    ASSUME NEW U, Coded(U), NEW a \in Seq(Lines(U)), NEW start \in Lines(U)
    PROVE  \E t : LineRun(U, start, a, t)
<1> PICK n : n = Len(a)
  OBVIOUS
<1>0. n \in Nat /\ DOMAIN a = 1..n /\ \A k \in 1..n : a[k] \in Lines(U)
  BY LenProperties
<1> DEFINE o == [p \in Lines(U) \X (1..n) |-> Format!AddArgument(p[1], a[p[2]])]
           next(f, s) == Format!AddArgument(f[s \ {Format!Max(s)}], a[Format!Max(s)])
           Run(f) == f = [s \in SUBSET DOMAIN a |-> IF s = {} THEN start ELSE next(f, s)]
<1>1. o \in [Lines(U) \X (1..n) -> Lines(U)]
  BY <1>0, LineType
<1> HIDE DEF o
<1>2. PICK f \in [SUBSET (1..n) -> Lines(U)] : Folding(n, start, o, f)
  BY <1>0, <1>1, FoldExists
<1>3. Run(f)
  <2>1. ASSUME NEW s \in SUBSET (1..n), s # {} PROVE After1(f, s, o) = next(f, s)
    <3> PICK x, y : x = Format!Max(s) /\ y = f[s \ {Format!Max(s)}]
      OBVIOUS
    <3>1. x \in 1..n /\ y \in Lines(U)
      BY <1>0, <2>1, MaxIsElement
    <3>2. o[<<y, x>>] = Format!AddArgument(y, a[x])
      BY <3>1 DEF o
    <3> QED
      BY <3>2 DEF After1
  <2> QED
    BY <1>0, <1>2, <2>1 DEF Folding
<1>4. Writes(start, a) = (CHOOSE g : Run(g))[DOMAIN a]
  BY DEF Writes, Format!FoldLeft, Format!MapThenFoldSet
<1> PICK g : g = CHOOSE h : Run(h)
  OBVIOUS
<1>5. g[{}] = start /\ \A s \in SUBSET (1..n) : s # {} => g[s] = next(g, s)
  <2>1. Run(g)
    BY <1>3
  <2> PICK h : h = [s \in SUBSET (1..n) |-> IF s = {} THEN start ELSE next(g, s)]
    OBVIOUS
  <2>2. g = h
    BY <1>0, <2>1
  <2> QED
    BY <2>2
<1> DEFINE t == [k \in 0..n |-> g[1..k]]
<1>6. t[0] = start
  <2>1. 1..0 = {}
    OBVIOUS
  <2> QED
    BY <1>0, <1>5, <2>1
<1>7. ASSUME NEW k \in 0..(n - 1) PROVE t[k + 1] = Format!AddArgument(t[k], a[k + 1])
  <2> PICK s : s = 1..(k + 1)
    OBVIOUS
  <2>1. s \in SUBSET (1..n) /\ s # {} /\ Format!Max(s) = k + 1 /\ s \ {k + 1} = 1..k
    BY <1>0, FirstSets
  <2>2. g[s] = Format!AddArgument(g[1..k], a[k + 1])
    BY <1>5, <2>1
  <2> QED
    BY <1>0, <2>2
<1>8. t \in [0..n -> Lines(U)] /\ Writes(start, a) = t[n]
  <2>1. \A k \in 0..(n - 1) : a[k + 1] \in Lines(U)
    BY <1>0
  <2>2. Writes(start, a) = t[n]
    BY <1>0, <1>4
  <2>3. DOMAIN t = 0..n /\ t = [k \in 0..n |-> t[k]]
    OBVIOUS
  <2> HIDE DEF t
  <2>4. \A k \in 0..n : t[k] \in Lines(U)
    <3>1. ASSUME NEW k \in 0..(n - 1), t[k] \in Lines(U) PROVE t[k + 1] \in Lines(U)
      <4>1. Format!AddArgument(t[k], a[k + 1]) \in Lines(U)
        BY <2>1, <3>1, LineType
      <4> QED
        BY <1>7, <4>1
    <3>2. t[0] \in Lines(U)
      BY <1>6
    <3> QED
      BY <1>0, <3>1, <3>2, StepsStay
  <2> QED
    BY <2>2, <2>3, <2>4
<1> HIDE DEF t
<1> QED
  BY <1>6, <1>7, <1>8 DEF LineRun

\* The writing of a longer list of arguments takes one more step.
LEMMA LineFolds ==
    ASSUME NEW U, Coded(U), NEW a \in Seq(Lines(U)), NEW start \in Lines(U)
    PROVE  /\ Writes(start, <<>>) = start
           /\ Writes(start, a) \in Lines(U)
           /\ \A u \in Lines(U) :
                 Writes(start, Append(a, u)) = Format!AddArgument(Writes(start, a), u)
<1>1. Writes(start, <<>>) = start
  <2>1. <<>> \in Seq(Lines(U))
    OBVIOUS
  <2>2. PICK t : LineRun(U, start, <<>>, t)
    BY <2>1, LineSteps
  <2>3. Len(<<>>) = 0
    OBVIOUS
  <2> QED
    BY <2>2, <2>3 DEF LineRun
<1> PICK n : n = Len(a)
  OBVIOUS
<1> PICK t : LineRun(U, start, a, t)
  BY LineSteps
<1>2. /\ t \in [0..n -> Lines(U)] /\ t[0] = start
      /\ \A k \in 0..(n - 1) : t[k + 1] = Format!AddArgument(t[k], a[k + 1])
      /\ Writes(start, a) = t[n]
  BY DEF LineRun
<1>3. n \in Nat
  BY LenProperties
<1>4. Writes(start, a) \in Lines(U)
  BY <1>2, <1>3
<1>5. ASSUME NEW u \in Lines(U)
      PROVE  Writes(start, Append(a, u)) = Format!AddArgument(Writes(start, a), u)
  <2> PICK b : b = Append(a, u)
    OBVIOUS
  <2>1. b \in Seq(Lines(U)) /\ Len(b) = n + 1 /\ (\A k \in 1..n : b[k] = a[k]) /\ b[n + 1] = u
    BY <1>3, AppendProperties
  <2> PICK r : LineRun(U, start, b, r)
    BY <2>1, LineSteps
  <2>2. /\ r[0] = start
        /\ \A k \in 0..((n + 1) - 1) : r[k + 1] = Format!AddArgument(r[k], b[k + 1])
        /\ Writes(start, b) = r[n + 1]
    BY <2>1 DEF LineRun
  <2>3. \A k \in 0..(n - 1) : r[k] = t[k] => r[k + 1] = t[k + 1]
    <3>1. \A k \in 0..(n - 1) : k \in 0..((n + 1) - 1) /\ b[k + 1] = a[k + 1]
      BY <1>3, <2>1
    <3> QED
      BY <1>2, <2>2, <3>1
  <2>4. r[0] = t[0]
    BY <1>2, <2>2
  <2>5. r[n] = t[n]
    BY ONLY <1>3, <2>3, <2>4, SameRun
  <2>6. n \in 0..((n + 1) - 1)
    BY <1>3
  <2> QED
    BY <1>2, <2>1, <2>2, <2>5, <2>6
<1> QED
  BY <1>1, <1>4, <1>5
-----------------------------------------------------------------------------
\* The lengths of a password.
LEMMA Utf16Type == \A n \in Nat : \A u : n + Format!Units(u) \in Nat
BY DEF Format!Units

\* What one unit adds to the length of a password in UTF-8.
LEMMA Utf8Type == \A n \in Nat : \A u : n + Format!Utf8(u) \in Nat
BY DEF Format!Utf8

\* The length of a password in UTF-16, one element at a time.
Utf16Run(a, t) ==
    /\ t \in [0..Len(a) -> Nat] /\ t[0] = 0
    /\ \A k \in 0..(Len(a) - 1) : t[k + 1] = t[k] + Format!Units(a[k + 1])
    /\ Format!Utf16Length(a) = t[Len(a)]

\* The length of a password in UTF-16 unit by unit, as the fold runs.
LEMMA Utf16Steps ==
    ASSUME NEW U, NEW a \in Seq(U)
    PROVE  \E t : Utf16Run(a, t)
<1> PICK n : n = Len(a)
  OBVIOUS
<1>0. n \in Nat /\ DOMAIN a = 1..n /\ \A k \in 1..n : a[k] \in U
  BY LenProperties
<1> DEFINE o == [p \in Nat \X (1..n) |-> p[1] + Format!Units(a[p[2]])]
           next(f, s) == f[s \ {Format!Max(s)}] + Format!Units(a[Format!Max(s)])
           Run(f) == f = [s \in SUBSET DOMAIN a |-> IF s = {} THEN 0 ELSE next(f, s)]
<1>1. o \in [Nat \X (1..n) -> Nat]
  BY <1>0, Utf16Type
<1> HIDE DEF o
<1>2. PICK f \in [SUBSET (1..n) -> Nat] : Folding(n, 0, o, f)
  BY <1>0, <1>1, FoldExists
<1>3. Run(f)
  <2>1. ASSUME NEW s \in SUBSET (1..n), s # {} PROVE After1(f, s, o) = next(f, s)
    <3> PICK x, y : x = Format!Max(s) /\ y = f[s \ {Format!Max(s)}]
      OBVIOUS
    <3>1. x \in 1..n /\ y \in Nat
      BY <1>0, <2>1, MaxIsElement
    <3>2. o[<<y, x>>] = y + Format!Units(a[x])
      BY <3>1 DEF o
    <3> QED
      BY <3>2 DEF After1
  <2> QED
    BY <1>0, <1>2, <2>1 DEF Folding
<1>4. Format!Utf16Length(a) = (CHOOSE g : Run(g))[DOMAIN a]
  BY DEF Format!Utf16Length, Format!FoldLeft, Format!MapThenFoldSet
<1> PICK g : g = CHOOSE h : Run(h)
  OBVIOUS
<1>5. g[{}] = 0 /\ \A s \in SUBSET (1..n) : s # {} => g[s] = next(g, s)
  <2>1. Run(g)
    BY <1>3
  <2> PICK h : h = [s \in SUBSET (1..n) |-> IF s = {} THEN 0 ELSE next(g, s)]
    OBVIOUS
  <2>2. g = h
    BY <1>0, <2>1
  <2> QED
    BY <2>2
<1> DEFINE t == [k \in 0..n |-> g[1..k]]
<1>6. t[0] = 0
  <2>1. 1..0 = {}
    OBVIOUS
  <2> QED
    BY <1>0, <1>5, <2>1
<1>7. ASSUME NEW k \in 0..(n - 1) PROVE t[k + 1] = t[k] + Format!Units(a[k + 1])
  <2> PICK s : s = 1..(k + 1)
    OBVIOUS
  <2>1. s \in SUBSET (1..n) /\ s # {} /\ Format!Max(s) = k + 1 /\ s \ {k + 1} = 1..k
    BY <1>0, FirstSets
  <2>2. g[s] = g[1..k] + Format!Units(a[k + 1])
    BY <1>5, <2>1
  <2> QED
    BY <1>0, <2>2
<1>8. t \in [0..n -> Nat] /\ Format!Utf16Length(a) = t[n]
  <2>1. \A k \in 0..(n - 1) : a[k + 1] \in U
    BY <1>0
  <2>2. Format!Utf16Length(a) = t[n]
    BY <1>0, <1>4
  <2>3. DOMAIN t = 0..n /\ t = [k \in 0..n |-> t[k]]
    OBVIOUS
  <2> HIDE DEF t
  <2>4. \A k \in 0..n : t[k] \in Nat
    <3>1. ASSUME NEW k \in 0..(n - 1), t[k] \in Nat PROVE t[k + 1] \in Nat
      <4>1. t[k] + Format!Units(a[k + 1]) \in Nat
        BY <2>1, <3>1, Utf16Type
      <4> QED
        BY <1>7, <4>1
    <3>2. t[0] \in Nat
      BY <1>6
    <3> QED
      BY <1>0, <3>1, <3>2, StepsStay
  <2> QED
    BY <2>2, <2>3, <2>4
<1> HIDE DEF t
<1> QED
  BY <1>6, <1>7, <1>8 DEF Utf16Run

\* The length in UTF-16 of a longer password is that of one more unit.
LEMMA Utf16Folds ==
    ASSUME NEW U, NEW a \in Seq(U)
    PROVE  /\ Format!Utf16Length(<<>>) = 0
           /\ Format!Utf16Length(a) \in Nat
           /\ \A u \in U :
                 Format!Utf16Length(Append(a, u)) = Format!Utf16Length(a) + Format!Units(u)
<1>1. Format!Utf16Length(<<>>) = 0
  <2>1. <<>> \in Seq(U)
    OBVIOUS
  <2>2. PICK t : Utf16Run(<<>>, t)
    BY <2>1, Utf16Steps
  <2>3. Len(<<>>) = 0
    OBVIOUS
  <2> QED
    BY <2>2, <2>3 DEF Utf16Run
<1> PICK n : n = Len(a)
  OBVIOUS
<1> PICK t : Utf16Run(a, t)
  BY Utf16Steps
<1>2. /\ t \in [0..n -> Nat] /\ t[0] = 0
      /\ \A k \in 0..(n - 1) : t[k + 1] = t[k] + Format!Units(a[k + 1])
      /\ Format!Utf16Length(a) = t[n]
  BY DEF Utf16Run
<1>3. n \in Nat
  BY LenProperties
<1>4. Format!Utf16Length(a) \in Nat
  BY <1>2, <1>3
<1>5. ASSUME NEW u \in U
      PROVE  Format!Utf16Length(Append(a, u)) = Format!Utf16Length(a) + Format!Units(u)
  <2> PICK b : b = Append(a, u)
    OBVIOUS
  <2>1. b \in Seq(U) /\ Len(b) = n + 1 /\ (\A k \in 1..n : b[k] = a[k]) /\ b[n + 1] = u
    BY <1>3, AppendProperties
  <2> PICK r : Utf16Run(b, r)
    BY <2>1, Utf16Steps
  <2>2. /\ r[0] = 0
        /\ \A k \in 0..((n + 1) - 1) : r[k + 1] = r[k] + Format!Units(b[k + 1])
        /\ Format!Utf16Length(b) = r[n + 1]
    BY <2>1 DEF Utf16Run
  <2>3. \A k \in 0..(n - 1) : r[k] = t[k] => r[k + 1] = t[k + 1]
    <3>1. \A k \in 0..(n - 1) : k \in 0..((n + 1) - 1) /\ b[k + 1] = a[k + 1]
      BY <1>3, <2>1
    <3> QED
      BY <1>2, <2>2, <3>1
  <2>4. r[0] = t[0]
    BY <1>2, <2>2
  <2>5. r[n] = t[n]
    BY ONLY <1>3, <2>3, <2>4, SameRun
  <2>6. n \in 0..((n + 1) - 1)
    BY <1>3
  <2> QED
    BY <1>2, <2>1, <2>2, <2>5, <2>6
<1> QED
  BY <1>1, <1>4, <1>5

\* The length of a password in UTF-8, one element at a time.
Utf8Run(a, t) ==
    /\ t \in [0..Len(a) -> Nat] /\ t[0] = 0
    /\ \A k \in 0..(Len(a) - 1) : t[k + 1] = t[k] + Format!Utf8(a[k + 1])
    /\ Format!Utf8Length(a) = t[Len(a)]

\* The length of a password in UTF-8 unit by unit, as the fold runs.
LEMMA Utf8Steps ==
    ASSUME NEW U, NEW a \in Seq(U)
    PROVE  \E t : Utf8Run(a, t)
<1> PICK n : n = Len(a)
  OBVIOUS
<1>0. n \in Nat /\ DOMAIN a = 1..n /\ \A k \in 1..n : a[k] \in U
  BY LenProperties
<1> DEFINE o == [p \in Nat \X (1..n) |-> p[1] + Format!Utf8(a[p[2]])]
           next(f, s) == f[s \ {Format!Max(s)}] + Format!Utf8(a[Format!Max(s)])
           Run(f) == f = [s \in SUBSET DOMAIN a |-> IF s = {} THEN 0 ELSE next(f, s)]
<1>1. o \in [Nat \X (1..n) -> Nat]
  BY <1>0, Utf8Type
<1> HIDE DEF o
<1>2. PICK f \in [SUBSET (1..n) -> Nat] : Folding(n, 0, o, f)
  BY <1>0, <1>1, FoldExists
<1>3. Run(f)
  <2>1. ASSUME NEW s \in SUBSET (1..n), s # {} PROVE After1(f, s, o) = next(f, s)
    <3> PICK x, y : x = Format!Max(s) /\ y = f[s \ {Format!Max(s)}]
      OBVIOUS
    <3>1. x \in 1..n /\ y \in Nat
      BY <1>0, <2>1, MaxIsElement
    <3>2. o[<<y, x>>] = y + Format!Utf8(a[x])
      BY <3>1 DEF o
    <3> QED
      BY <3>2 DEF After1
  <2> QED
    BY <1>0, <1>2, <2>1 DEF Folding
<1>4. Format!Utf8Length(a) = (CHOOSE g : Run(g))[DOMAIN a]
  BY DEF Format!Utf8Length, Format!FoldLeft, Format!MapThenFoldSet
<1> PICK g : g = CHOOSE h : Run(h)
  OBVIOUS
<1>5. g[{}] = 0 /\ \A s \in SUBSET (1..n) : s # {} => g[s] = next(g, s)
  <2>1. Run(g)
    BY <1>3
  <2> PICK h : h = [s \in SUBSET (1..n) |-> IF s = {} THEN 0 ELSE next(g, s)]
    OBVIOUS
  <2>2. g = h
    BY <1>0, <2>1
  <2> QED
    BY <2>2
<1> DEFINE t == [k \in 0..n |-> g[1..k]]
<1>6. t[0] = 0
  <2>1. 1..0 = {}
    OBVIOUS
  <2> QED
    BY <1>0, <1>5, <2>1
<1>7. ASSUME NEW k \in 0..(n - 1) PROVE t[k + 1] = t[k] + Format!Utf8(a[k + 1])
  <2> PICK s : s = 1..(k + 1)
    OBVIOUS
  <2>1. s \in SUBSET (1..n) /\ s # {} /\ Format!Max(s) = k + 1 /\ s \ {k + 1} = 1..k
    BY <1>0, FirstSets
  <2>2. g[s] = g[1..k] + Format!Utf8(a[k + 1])
    BY <1>5, <2>1
  <2> QED
    BY <1>0, <2>2
<1>8. t \in [0..n -> Nat] /\ Format!Utf8Length(a) = t[n]
  <2>1. \A k \in 0..(n - 1) : a[k + 1] \in U
    BY <1>0
  <2>2. Format!Utf8Length(a) = t[n]
    BY <1>0, <1>4
  <2>3. DOMAIN t = 0..n /\ t = [k \in 0..n |-> t[k]]
    OBVIOUS
  <2> HIDE DEF t
  <2>4. \A k \in 0..n : t[k] \in Nat
    <3>1. ASSUME NEW k \in 0..(n - 1), t[k] \in Nat PROVE t[k + 1] \in Nat
      <4>1. t[k] + Format!Utf8(a[k + 1]) \in Nat
        BY <2>1, <3>1, Utf8Type
      <4> QED
        BY <1>7, <4>1
    <3>2. t[0] \in Nat
      BY <1>6
    <3> QED
      BY <1>0, <3>1, <3>2, StepsStay
  <2> QED
    BY <2>2, <2>3, <2>4
<1> HIDE DEF t
<1> QED
  BY <1>6, <1>7, <1>8 DEF Utf8Run

\* The length in UTF-8 of a longer password is that of one more unit.
LEMMA Utf8Folds ==
    ASSUME NEW U, NEW a \in Seq(U)
    PROVE  /\ Format!Utf8Length(<<>>) = 0
           /\ Format!Utf8Length(a) \in Nat
           /\ \A u \in U : Format!Utf8Length(Append(a, u)) = Format!Utf8Length(a) + Format!Utf8(u)
<1>1. Format!Utf8Length(<<>>) = 0
  <2>1. <<>> \in Seq(U)
    OBVIOUS
  <2>2. PICK t : Utf8Run(<<>>, t)
    BY <2>1, Utf8Steps
  <2>3. Len(<<>>) = 0
    OBVIOUS
  <2> QED
    BY <2>2, <2>3 DEF Utf8Run
<1> PICK n : n = Len(a)
  OBVIOUS
<1> PICK t : Utf8Run(a, t)
  BY Utf8Steps
<1>2. /\ t \in [0..n -> Nat] /\ t[0] = 0
      /\ \A k \in 0..(n - 1) : t[k + 1] = t[k] + Format!Utf8(a[k + 1])
      /\ Format!Utf8Length(a) = t[n]
  BY DEF Utf8Run
<1>3. n \in Nat
  BY LenProperties
<1>4. Format!Utf8Length(a) \in Nat
  BY <1>2, <1>3
<1>5. ASSUME NEW u \in U
      PROVE  Format!Utf8Length(Append(a, u)) = Format!Utf8Length(a) + Format!Utf8(u)
  <2> PICK b : b = Append(a, u)
    OBVIOUS
  <2>1. b \in Seq(U) /\ Len(b) = n + 1 /\ (\A k \in 1..n : b[k] = a[k]) /\ b[n + 1] = u
    BY <1>3, AppendProperties
  <2> PICK r : Utf8Run(b, r)
    BY <2>1, Utf8Steps
  <2>2. /\ r[0] = 0
        /\ \A k \in 0..((n + 1) - 1) : r[k + 1] = r[k] + Format!Utf8(b[k + 1])
        /\ Format!Utf8Length(b) = r[n + 1]
    BY <2>1 DEF Utf8Run
  <2>3. \A k \in 0..(n - 1) : r[k] = t[k] => r[k + 1] = t[k + 1]
    <3>1. \A k \in 0..(n - 1) : k \in 0..((n + 1) - 1) /\ b[k + 1] = a[k + 1]
      BY <1>3, <2>1
    <3> QED
      BY <1>2, <2>2, <3>1
  <2>4. r[0] = t[0]
    BY <1>2, <2>2
  <2>5. r[n] = t[n]
    BY ONLY <1>3, <2>3, <2>4, SameRun
  <2>6. n \in 0..((n + 1) - 1)
    BY <1>3
  <2> QED
    BY <1>2, <2>1, <2>2, <2>5, <2>6
<1> QED
  BY <1>1, <1>4, <1>5

-----------------------------------------------------------------------------
\* Lists of units, joined.
LEMMA JoinAssociates ==
    ASSUME NEW U, NEW a \in Lines(U), NEW b \in Lines(U), NEW c \in Lines(U)
    PROVE  (a \o b) \o c = a \o (b \o c)
BY ConcatAssociative DEF Lines

\* A list of units with nothing before or after it.
LEMMA JoinEmpty ==
    ASSUME NEW U, NEW a \in Lines(U)
    PROVE  a \o <<>> = a /\ <<>> \o a = a
BY ConcatEmptySeq DEF Lines

\* A list of units and one unit more.
LEMMA JoinOne ==
    ASSUME NEW U, NEW a \in Lines(U), NEW u \in U
    PROVE  a \o <<u>> = Append(a, u) /\ Append(a, u) \in Lines(U)
BY AppendIsConcat, AppendProperties DEF Lines

\* A list of units and a longer list.
LEMMA JoinMore ==
    ASSUME NEW U, NEW a \in Lines(U), NEW b \in Lines(U), NEW u \in U
    PROVE  a \o Append(b, u) = Append(a \o b, u)
<1>1. <<u>> \in Lines(U) /\ a \o b \in Lines(U)
  BY UnitIsLine, LinesJoin
<1>2. Append(b, u) = b \o <<u>> /\ Append(a \o b, u) = (a \o b) \o <<u>>
  BY <1>1, JoinOne
<1> QED
  BY <1>1, <1>2, JoinAssociates

\* A run of backslashes, one by one.
LEMMA RepeatGrows ==
    /\ Format!Repeat("slash", 0) = <<>>
    /\ \A n \in Nat : Format!Repeat("slash", n + 1) = Append(Format!Repeat("slash", n), "slash")
BY DEF Format!Repeat

\* What has been read of a line.
LEMMA ReadingIs ==
    ASSUME NEW U, Coded(U), NEW s \in Splitting(U), NEW a \in Lines(U)
    PROVE  /\ Reads(s, <<>>) = s
           /\ Reads(s, a) \in Splitting(U)
           /\ \A u \in U : Reads(s, Append(a, u)) = Format!SplitUnit(Reads(s, a), u)
           /\ \A u \in U : Reads(s, <<u>>) = Format!SplitUnit(s, u)
<1>1. a \in Seq(U) /\ <<>> \in Seq(U)
  BY DEF Lines
<1>2. /\ Reads(s, <<>>) = s
      /\ Reads(s, a) \in Splitting(U)
      /\ \A u \in U : Reads(s, Append(a, u)) = Format!SplitUnit(Reads(s, a), u)
  BY <1>1, SplitFolds
<1>3. \A u \in U : Reads(s, Append(<<>>, u)) = Format!SplitUnit(Reads(s, <<>>), u)
  BY <1>1, SplitFolds
<1>4. \A u \in U : Append(<<>>, u) = <<u>>
  OBVIOUS
<1> QED
  BY <1>2, <1>3, <1>4

\* A line is read in parts.
LEMMA ReadingJoins ==
    ASSUME NEW U, Coded(U), NEW s \in Splitting(U), NEW a \in Lines(U), NEW b \in Lines(U)
    PROVE  Reads(s, a \o b) = Reads(Reads(s, a), b)
<1> DEFINE T == {r \in Lines(U) : Reads(s, a \o r) = Reads(Reads(s, a), r)}
<1> PICK m : m = Reads(s, a)
  OBVIOUS
<1>1. m \in Splitting(U)
  BY ReadingIs
<1>2. <<>> \in T
  <2>1. <<>> \in Lines(U) /\ a \o <<>> = a
    BY JoinEmpty, MarksAre
  <2>2. Reads(m, <<>>) = m
    BY <1>1, ReadingIs
  <2> QED
    BY <2>1, <2>2
<1>3. ASSUME NEW r \in Seq(U), NEW u \in U, r \in T PROVE Append(r, u) \in T
  <2>1. r \in Lines(U) /\ Reads(s, a \o r) = Reads(m, r)
    BY <1>3
  <2>2. a \o r \in Lines(U) /\ Append(r, u) \in Lines(U)
    BY <2>1, JoinOne, LinesJoin
  <2>5. a \o Append(r, u) = Append(a \o r, u)
    BY <2>1, JoinMore
  <2>3. Reads(s, Append(a \o r, u)) = Format!SplitUnit(Reads(s, a \o r), u)
    BY <2>2, ReadingIs
  <2>4. Reads(m, Append(r, u)) = Format!SplitUnit(Reads(m, r), u)
    BY <1>1, <2>1, ReadingIs
  <2> QED
    BY <2>1, <2>2, <2>3, <2>4, <2>5
<1>4. b \in Seq(U)
  BY DEF Lines
<1>5. b \in T
  <2> HIDE DEF T
  <2> QED
    BY <1>2, <1>3, <1>4, AllLists
<1> QED
  BY <1>5

\* Backslashes are counted.
LEMMA BackslashesAreCounted ==
    ASSUME NEW U, Coded(U), NEW d \in Seq(Lines(U)), NEW w \in Lines(U), NEW n \in Nat
    PROVE  Reads(Inside(d, w, 0), Format!Repeat("slash", n)) = Inside(d, w, n)
<1> PICK s : s = Inside(d, w, 0)
  OBVIOUS
<1>s. s \in Splitting(U) /\ "slash" \in U
  BY StatesAre, MarksAre
<1> DEFINE T == {k \in Nat : Reads(s, Format!Repeat("slash", k)) = Inside(d, w, k)}
<1>1. 0 \in T
  <2>1. <<>> \in Lines(U)
    BY MarksAre
  <2> QED
    BY <1>s, <2>1, RepeatGrows, ReadingIs
<1>2. ASSUME NEW k \in Nat, k \in T PROVE k + 1 \in T
  <2> PICK r : r = Format!Repeat("slash", k)
    OBVIOUS
  <2>1. r \in Lines(U) /\ Format!Repeat("slash", k + 1) = Append(r, "slash")
    BY RepeatIs, RepeatGrows
  <2>2. Reads(s, Append(r, "slash")) = Format!SplitUnit(Reads(s, r), "slash")
    BY <1>s, <2>1, ReadingIs
  <2>3. Format!SplitUnit(Inside(d, w, k), "slash") = Inside(d, w, k + 1)
    BY InsideReads
  <2>4. Reads(s, r) = Inside(d, w, k)
    BY <1>2
  <2>5. Reads(s, Format!Repeat("slash", k + 1)) = Inside(d, w, k + 1)
    BY <2>1, <2>2, <2>3, <2>4
  <2>6. k + 1 \in Nat
    OBVIOUS
  <2> QED
    BY <2>5, <2>6
<1>3. n \in T
  <2> HIDE DEF T
  <2> QED
    BY <1>1, <1>2, AllNumbers
<1> QED
  BY <1>3

\* What has been quoted of an argument reads as that part of it.
QuotedIs(U, d, a) ==
    \E w \in Lines(U) :
        /\ Reads(Inside(d, <<>>, 0), Quotes(QuoteStart, a).out) = Inside(d, w, 0)
        /\ w \o Format!Repeat("slash", Quotes(QuoteStart, a).slashes) = a

\* The quotation of one argument, on lists of units.
LEMMA QuotingIs ==
    ASSUME NEW U, Coded(U), NEW s \in Quoting(U), NEW a \in Lines(U)
    PROVE  /\ Quotes(s, <<>>) = s
           /\ Quotes(s, a) \in Quoting(U)
           /\ \A u \in U : Quotes(s, Append(a, u)) = Format!QuoteUnit(Quotes(s, a), u)
<1>1. a \in Seq(U)
  BY DEF Lines
<1> QED
  BY <1>1, QuoteFolds

\* The quotation starts from nothing.
LEMMA QuoteStartIs ==
    ASSUME NEW U, Coded(U)
    PROVE  QuoteStart \in Quoting(U) /\ QuoteStart.out = <<>> /\ QuoteStart.slashes = 0
BY MarksAre DEF QuoteStart, Quoting

\* The quotation of a longer argument reads as that argument, whatever its unit is.
LEMMA QuotedGrows ==
    ASSUME NEW U, Coded(U), NEW d \in Seq(Lines(U)), NEW a \in Lines(U), NEW u \in U,
           QuotedIs(U, d, a)
    PROVE  QuotedIs(U, d, Append(a, u))
<1> PICK q : q = Quotes(QuoteStart, a)
  OBVIOUS
<1> PICK o : o = q.out
  OBVIOUS
<1> PICK k : k = q.slashes
  OBVIOUS
<1> PICK w \in Lines(U) : Reads(Inside(d, <<>>, 0), o) = Inside(d, w, 0)
                        /\ w \o Format!Repeat("slash", k) = a
  BY DEF QuotedIs
<1> PICK s : s = Inside(d, <<>>, 0)
  OBVIOUS
<1>q. q \in Quoting(U) /\ Quotes(QuoteStart, Append(a, u)) = Format!QuoteUnit(q, u)
  BY QuoteStartIs, QuotingIs
<1>0. /\ o \in Lines(U) /\ k \in Nat /\ Quotes(QuoteStart, Append(a, u)) = Format!QuoteUnit(q, u)
      /\ s \in Splitting(U) /\ Inside(d, w, 0) \in Splitting(U)
      /\ <<>> \in Lines(U) /\ <<u>> \in Lines(U)
  <2>1. o \in Lines(U) /\ k \in Nat
    BY <1>q DEF Quoting
  <2>2. <<>> \in Lines(U) /\ <<u>> \in Lines(U)
    BY MarksAre, UnitIsLine
  <2>3. s \in Splitting(U) /\ Inside(d, w, 0) \in Splitting(U)
    BY <2>2, StatesAre
  <2> QED
    BY <1>q, <2>1, <2>2, <2>3
<1> PICK r : r = Format!Repeat("slash", k)
  OBVIOUS
<1>r. r \in Lines(U) /\ Format!Repeat("slash", 0) = <<>> /\ w \o r = a
  BY <1>0, RepeatIs, RepeatGrows
<1>1. CASE u = "slash"
  <2>1. Format!QuoteUnit(q, u) = [q EXCEPT !.slashes = @ + 1]
    BY <1>1 DEF Format!QuoteUnit
  <2> PICK v : v = Quotes(QuoteStart, Append(a, u))
    OBVIOUS
  <2>2. v.out = o /\ v.slashes = k + 1
    BY <1>q, <1>0, <2>1 DEF Quoting
  <2>3. Format!Repeat("slash", k + 1) = Append(r, "slash") /\ w \o Append(r, u) = Append(w \o r, u)
    <3>1. Format!Repeat("slash", k + 1) = Append(r, "slash")
      BY <1>0, RepeatGrows
    <3>2. r \in Lines(U) /\ w \in Lines(U) /\ u \in U
      BY <1>r
    <3>3. w \o Append(r, u) = Append(w \o r, u)
      BY ONLY <3>2, JoinMore
    <3> QED
      BY <3>1, <3>3
  <2> QED
    BY <1>1, <1>r, <2>2, <2>3 DEF QuotedIs
<1>2. CASE u # "slash"
  <2> PICK m : m = IF u = "quote" THEN 2 * k + 1 ELSE k
    OBVIOUS
  <2> PICK t : t = Format!Repeat("slash", m)
    OBVIOUS
  <2> PICK x : x = w \o (r \o <<u>>)
    OBVIOUS
  <2> PICK v : v = Quotes(QuoteStart, Append(a, u))
    OBVIOUS
  <2>1. m \in Nat /\ t \in Lines(U)
    BY <1>0, RepeatIs
  <2>2. v = [out |-> o \o t \o <<u>>, slashes |-> 0]
    BY <1>0, <1>2 DEF Format!QuoteUnit
  <2>3. o \o t \in Lines(U) /\ x \in Lines(U)
    BY <1>0, <1>r, <2>1, LinesJoin
  <2>4. Reads(s, o \o t) = Inside(d, w, m)
    BY <1>0, <2>1, ReadingJoins, BackslashesAreCounted
  <2>5. Reads(s, o \o t \o <<u>>) = Format!SplitUnit(Inside(d, w, m), u)
    <3>1. Reads(s, o \o t \o <<u>>) = Reads(Inside(d, w, m), <<u>>)
      <4> PICK y : y = <<u>>
        OBVIOUS
      <4> PICK z : z = o \o t
        OBVIOUS
      <4>1. s \in Splitting(U) /\ y \in Lines(U) /\ z \in Lines(U)
        BY <1>0, <2>3
      <4>2. Reads(s, z \o y) = Reads(Reads(s, z), y)
        BY <4>1, ReadingJoins
      <4> QED
        BY <2>4, <4>2
    <3>2. Inside(d, w, m) \in Splitting(U)
      BY <2>1, StatesAre
    <3> QED
      BY <1>0, <3>1, <3>2, ReadingIs, ZenonT(60)
  <2>6. Format!SplitUnit(Inside(d, w, m), u) = Inside(d, x, 0)
    <3>1. CASE u = "quote"
      <4>1. m % 2 = 1 /\ m \div 2 = k
        BY <1>0, <3>1, HalfIs
      <4> QED
        BY <2>1, <3>1, <4>1, InsideReads
    <3>2. CASE u # "quote"
      BY <1>2, <2>1, <3>2, InsideReads, SMTT(60)
    <3> QED
      BY <3>1, <3>2
  <2>7. x \o Format!Repeat("slash", 0) = Append(a, u)
    <3>1. (w \o r) \o <<u>> = w \o (r \o <<u>>)
      <4> PICK y : y = <<u>>
        OBVIOUS
      <4>1. y \in Lines(U) /\ r \in Lines(U) /\ w \in Lines(U)
        BY <1>0, <1>r
      <4>2. (w \o r) \o y = w \o (r \o y)
        BY ONLY <4>1, JoinAssociates
      <4> QED
        BY <4>2
    <3>2. a \o <<u>> = Append(a, u)
      BY JoinOne
    <3>3. x \o <<>> = x
      BY <2>3, JoinEmpty
    <3> QED
      BY <1>r, <3>1, <3>2, <3>3
  <2>8. v.out = o \o t \o <<u>> /\ v.slashes = 0
    BY ONLY <2>2
  <2> QED
    BY <2>3, <2>5, <2>6, <2>7, <2>8 DEF QuotedIs
<1> QED
  BY <1>1, <1>2

\* What the quotation has written reads as the units it stands for.
LEMMA QuotedReads ==
    ASSUME NEW U, Coded(U), NEW d \in Seq(Lines(U)), NEW a \in Lines(U)
    PROVE  QuotedIs(U, d, a)
<1> DEFINE T == {s \in Lines(U) : QuotedIs(U, d, s)}
<1>1. <<>> \in T
  <2> PICK q : q = Quotes(QuoteStart, <<>>)
    OBVIOUS
  <2>1. <<>> \in Lines(U)
    BY MarksAre
  <2>2. q.out = <<>> /\ q.slashes = 0 /\ <<>> \o Format!Repeat("slash", 0) = <<>>
    BY <2>1, QuoteStartIs, QuotingIs, RepeatGrows, JoinEmpty
  <2>3. Inside(d, <<>>, 0) \in Splitting(U)
    BY <2>1, StatesAre
  <2>4. Reads(Inside(d, <<>>, 0), <<>>) = Inside(d, <<>>, 0)
    BY <2>1, <2>3, ReadingIs
  <2> QED
    BY <2>1, <2>2, <2>4 DEF QuotedIs
<1>2. ASSUME NEW s \in Seq(U), NEW u \in U, s \in T PROVE Append(s, u) \in T
  <2>1. s \in Lines(U) /\ Append(s, u) \in Lines(U)
    BY <1>2, JoinOne
  <2> QED
    BY <1>2, <2>1, QuotedGrows
<1>3. a \in Seq(U)
  BY DEF Lines
<1>4. a \in T
  <2> HIDE DEF T
  <2> QED
    BY <1>1, <1>2, <1>3, AllLists
<1> QED
  BY <1>4

-----------------------------------------------------------------------------
\* A line that is made of two.
IsJoin(z, a, b) == z = a \o b

\* The reading of two lists in a row goes on from the end of the first.
LEMMA ReadsOn ==
    ASSUME NEW U, Coded(U), NEW s \in Splitting(U), NEW a \in Lines(U), NEW b \in Lines(U),
           NEW z, IsJoin(z, a, b)
    PROVE  z \in Lines(U) /\ Reads(s, z) = Reads(Reads(s, a), b)
<1>1. z = a \o b
  BY DEF IsJoin
<1>2. a \o b \in Lines(U)
  BY LinesJoin
<1>3. Reads(s, a \o b) = Reads(Reads(s, a), b)
  BY ReadingJoins
<1> QED
  BY <1>1, <1>2, <1>3

\* An argument is read as it is, quoted or not.
ArgumentIs(U, d, a, t) ==
    \E w \in Lines(U), n \in Nat :
        Reads(Between(d), t) = Outside(d, w, n) /\ w \o Format!Repeat("slash", n) = a

\* An argument between its quotes reads as that argument.
LEMMA QuotedArgument ==
    ASSUME NEW U, Coded(U), NEW d \in Seq(Lines(U)), NEW a \in Lines(U), Format!NeedsQuotes(a)
    PROVE  ArgumentIs(U, d, a, Format!Quoted(a))
<1> PICK q : q = Quotes(QuoteStart, a)
  OBVIOUS
<1> PICK o : o = q.out
  OBVIOUS
<1> PICK k : k = q.slashes
  OBVIOUS
<1>1. q \in Quoting(U)
  BY QuoteStartIs, QuotingIs
<1>2. o \in Lines(U) /\ k \in Nat /\ 2 * k \in Nat
  BY <1>1 DEF Quoting
<1>3. PICK w \in Lines(U) :
         Reads(Inside(d, <<>>, 0), o) = Inside(d, w, 0) /\ w \o Format!Repeat("slash", k) = a
  BY QuotedReads DEF QuotedIs
<1> PICK y : y = <<"quote">>
  OBVIOUS
<1> PICK t : t = Format!Repeat("slash", 2 * k)
  OBVIOUS
<1> PICK e : e = o \o t
  OBVIOUS
<1> PICK z : z = y \o e
  OBVIOUS
<1>4. y \in Lines(U) /\ t \in Lines(U) /\ "quote" \in U /\ <<>> \in Lines(U)
  <2>1. y \in Lines(U) /\ <<>> \in Lines(U)
    BY MarksAre
  <2>2. t \in Lines(U)
    BY <1>2, RepeatIs
  <2> QED
    BY <2>1, <2>2 DEF Coded
<1>5. e \in Lines(U) /\ z \in Lines(U)
  BY <1>2, <1>4, LinesJoin
<1> PICK f : f = Format!Quoted(a)
  OBVIOUS
<1>6. IsJoin(e, o, t) /\ IsJoin(z, y, e) /\ IsJoin(f, z, y)
  <2>1. f = z \o y
    BY QuotedIsFold DEF Format!Escaped
  <2> QED
    BY <2>1 DEF IsJoin
<1> PICK b : b = Between(d)
  OBVIOUS
<1>7. /\ b \in Splitting(U) /\ Inside(d, <<>>, 0) \in Splitting(U)
      /\ Inside(d, w, 2 * k) \in Splitting(U) /\ Inside(d, w, 0) \in Splitting(U)
  BY <1>2, <1>4, StatesAre
<1>8. Reads(b, y) = Inside(d, <<>>, 0)
  <2>1. Reads(b, y) = Format!SplitUnit(b, "quote")
    BY <1>4, <1>7, ReadingIs
  <2>2. <<>> \o Format!Repeat("slash", 0) = <<>>
    BY <1>4, RepeatGrows, JoinEmpty
  <2> QED
    BY <2>1, <2>2, BetweenReads
<1>9. Reads(b, z) = Inside(d, w, 2 * k)
  <2>1. Reads(b, z) = Reads(Reads(b, y), e)
    BY <1>4, <1>5, <1>6, <1>7, ReadsOn
  <2>2. Reads(Inside(d, <<>>, 0), e) = Reads(Reads(Inside(d, <<>>, 0), o), t)
    BY <1>2, <1>4, <1>6, <1>7, ReadsOn
  <2>3. Reads(Inside(d, w, 0), t) = Inside(d, w, 2 * k)
    BY <1>2, BackslashesAreCounted
  <2> QED
    BY <1>3, <1>8, <2>1, <2>2, <2>3
<1>10. Reads(b, f) = Format!SplitUnit(Inside(d, w, 2 * k), "quote")
  <2>1. Reads(b, f) = Reads(Reads(b, z), y)
    BY <1>4, <1>5, <1>6, <1>7, ReadsOn
  <2>2. Reads(Inside(d, w, 2 * k), y) = Format!SplitUnit(Inside(d, w, 2 * k), "quote")
    BY <1>4, <1>7, ReadingIs
  <2> QED
    BY <1>9, <2>1, <2>2
<1>11. Format!SplitUnit(Inside(d, w, 2 * k), "quote") = Outside(d, a, 0)
  <2> PICK j : j = 2 * k
    OBVIOUS
  <2>1. j \in Nat /\ j % 2 = 0 /\ j \div 2 = k
    BY <1>2, HalfIs
  <2>2. Format!SplitUnit(Inside(d, w, j), "quote")
           = Outside(d, w \o Format!Repeat("slash", j \div 2), 0)
    BY <2>1, InsideReads
  <2> QED
    BY <1>3, <2>1, <2>2
<1>12. a \o Format!Repeat("slash", 0) = a /\ 0 \in Nat
  BY RepeatGrows, JoinEmpty
<1> QED
  BY <1>10, <1>11, <1>12 DEF ArgumentIs

PlainIs(U, d, a) == a = <<>> \/ ArgumentIs(U, d, a, a)

\* An argument with no mark in it reads as it is, one unit longer.
LEMMA PlainGrows ==
    ASSUME NEW U, Coded(U), NEW d \in Seq(Lines(U)), NEW a \in Lines(U),
           NEW u \in U, u # "space", u # "quote", PlainIs(U, d, a)
    PROVE  ArgumentIs(U, d, Append(a, u), Append(a, u))
<1> PICK b : b = Between(d)
  OBVIOUS
<1>0. b \in Splitting(U) /\ <<>> \in Lines(U) /\ <<u>> \in Lines(U) /\ Append(a, u) \in Lines(U)
  BY MarksAre, UnitIsLine, StatesAre, JoinOne
<1>1. Reads(b, Append(a, u)) = Format!SplitUnit(Reads(b, a), u)
  BY <1>0, ReadingIs
<1>2. Format!Repeat("slash", 0) = <<>> /\ 0 \in Nat /\ 1 \in Nat
  BY RepeatGrows
<1>3. Append(a, u) \o Format!Repeat("slash", 0) = Append(a, u)
  BY <1>0, <1>2, JoinEmpty
<1>4. CASE a = <<>>
  <2>1. Reads(b, a) = b
    BY <1>0, <1>4, ReadingIs
  <2>2. CASE u = "slash"
    <3>1. Format!SplitUnit(b, u) = Outside(d, <<>>, 1)
      BY <2>2, BetweenReads
    <3>2. Format!Repeat("slash", 1) = Append(<<>>, u)
      <4> PICK n : n = 0
        OBVIOUS
      <4>1. n \in Nat /\ n + 1 = 1
        OBVIOUS
      <4>2. Format!Repeat("slash", n + 1) = Append(Format!Repeat("slash", n), "slash")
        BY ONLY <4>1, RepeatGrows
      <4> QED
        BY <1>2, <2>2, <4>1, <4>2
    <3>3. <<>> \o Append(<<>>, u) = Append(<<>>, u)
      BY <1>0, <1>4, JoinEmpty
    <3> QED
      BY <1>0, <1>1, <1>2, <1>4, <2>1, <3>1, <3>2, <3>3 DEF ArgumentIs
  <2>3. CASE u # "slash"
    <3>1. Format!SplitUnit(b, u) = Outside(d, <<>> \o (Format!Repeat("slash", 0) \o <<u>>), 0)
      BY <2>3, BetweenReads
    <3>2. <<>> \o (<<>> \o <<u>>) = <<u>> /\ Append(<<>>, u) = <<u>>
      <4> PICK y : y = <<u>>
        OBVIOUS
      <4>1. <<>> \o y = y
        BY <1>0, JoinEmpty
      <4>2. <<>> \o <<u>> = Append(<<>>, u)
        BY <1>0, JoinOne
      <4> QED
        BY <4>1, <4>2
    <3>3. Reads(b, Append(a, u)) = Outside(d, Append(a, u), 0)
      BY <1>1, <1>2, <1>4, <2>1, <3>1, <3>2
    <3> QED
      BY <1>0, <1>2, <1>3, <3>3 DEF ArgumentIs
  <2> QED
    BY <2>2, <2>3
<1>5. CASE ArgumentIs(U, d, a, a)
  <2>1. PICK w \in Lines(U), n \in Nat :
           Reads(b, a) = Outside(d, w, n) /\ w \o Format!Repeat("slash", n) = a
    BY <1>5 DEF ArgumentIs
  <2> PICK r : r = Format!Repeat("slash", n)
    OBVIOUS
  <2>2. r \in Lines(U) /\ w \o r = a
    BY <2>1, RepeatIs
  <2>3. CASE u = "slash"
    <3>1. Format!SplitUnit(Outside(d, w, n), u) = Outside(d, w, n + 1)
      BY <2>3, OutsideReads
    <3>2. Format!Repeat("slash", n + 1) = Append(r, u)
      BY <2>3, RepeatGrows
    <3>3. w \o Append(r, u) = Append(w \o r, u)
      <4>1. w \in Lines(U) /\ r \in Lines(U) /\ u \in U
        BY <2>2
      <4> QED
        BY ONLY <4>1, JoinMore
    <3>4. w \o Format!Repeat("slash", n + 1) = Append(a, u) /\ n + 1 \in Nat
      <4>1. w \o Append(r, u) = Append(a, u)
        BY <2>2, <3>3
      <4> QED
        BY <3>2, <4>1, SMTT(60)
    <3>5. Reads(b, Append(a, u)) = Outside(d, w, n + 1)
      BY <1>1, <2>1, <3>1
    <3> QED
      BY <3>4, <3>5 DEF ArgumentIs
  <2>4. CASE u # "slash"
    <3> PICK y : y = <<u>>
      OBVIOUS
    <3>1. Format!SplitUnit(Outside(d, w, n), u) = Outside(d, w \o (r \o y), 0)
      BY <2>4, OutsideReads
    <3>2. (w \o r) \o y = w \o (r \o y)
      <4>1. w \in Lines(U) /\ r \in Lines(U) /\ y \in Lines(U)
        BY <1>0, <2>2
      <4> QED
        BY ONLY <4>1, JoinAssociates
    <3>3. a \o y = Append(a, u)
      BY JoinOne
    <3>4. Reads(b, Append(a, u)) = Outside(d, Append(a, u), 0)
      BY <1>1, <2>1, <2>2, <3>1, <3>2, <3>3
    <3> QED
      BY <1>0, <1>2, <1>3, <3>4 DEF ArgumentIs
  <2> QED
    BY <2>3, <2>4
<1> QED
  BY <1>4, <1>5 DEF PlainIs

\* An argument that needs no quotes reads as that argument.
LEMMA PlainArgument ==
    ASSUME NEW U, Coded(U), NEW d \in Seq(Lines(U)), NEW a \in Lines(U), ~Format!NeedsQuotes(a)
    PROVE  ArgumentIs(U, d, a, Format!Quoted(a))
<1> DEFINE V == U \ {"space", "quote"}
           T == {s \in Lines(U) : PlainIs(U, d, s)}
<1>1. a # <<>> /\ Format!Quoted(a) = a
  BY DEF Format!NeedsQuotes, Format!Quoted
<1>2. a \in Seq(V)
  <2>1. a \in Seq(U)
    BY DEF Lines
  <2>2. \A i \in 1..Len(a) : a[i] \in U /\ a[i] \in Format!Range(a)
    BY <2>1 DEF Format!Range
  <2>3. Format!Range(a) \cap {"space", "quote"} = {}
    BY DEF Format!NeedsQuotes
  <2>4. \A i \in 1..Len(a) : a[i] \in V
    BY <2>2, <2>3
  <2> HIDE DEF V
  <2> QED
    BY <2>1, <2>4
<1>3. <<>> \in T
  BY MarksAre DEF PlainIs
<1>4. ASSUME NEW s \in Seq(V), NEW u \in V, s \in T PROVE Append(s, u) \in T
  <2>1. s \in Lines(U) /\ u \in U
    BY <1>4
  <2>2. Append(s, u) \in Lines(U)
    BY <2>1, JoinOne
  <2>3. ArgumentIs(U, d, Append(s, u), Append(s, u))
    <3>1. u # "space" /\ u # "quote"
      BY <1>4
    <3> QED
      BY <1>4, <2>1, <3>1, PlainGrows
  <2> QED
    BY <2>2, <2>3 DEF PlainIs
<1>5. a \in T
  <2> HIDE DEF T, V
  <2> QED
    BY <1>2, <1>3, <1>4, AllLists
<1> QED
  BY <1>1, <1>5 DEF PlainIs

\* What is written of one argument reads as that argument.
LEMMA ArgumentReads ==
    ASSUME NEW U, Coded(U), NEW d \in Seq(Lines(U)), NEW a \in Lines(U)
    PROVE  ArgumentIs(U, d, a, Format!Quoted(a))
BY QuotedArgument, PlainArgument

\* A line is read as the program and its arguments.
Ended(e, d, w, n) == e = Append(d, w \o Format!Repeat("slash", n))
Begins(e, x, s) == e = <<x>> \o s
WritingIs(U, arguments) ==
    \E d \in Seq(Lines(U)), e \in Seq(Lines(U)), w \in Lines(U), n \in Nat :
        /\ Reads(Between(<<>>), Writes(<<"x">>, arguments)) = Outside(d, w, n)
        /\ Ended(e, d, w, n) /\ Begins(e, <<"x">>, arguments)

\* A list of arguments after the name of the program.
LEMMA ListsJoin ==
    ASSUME NEW V, NEW x \in V, NEW s \in Seq(V), NEW v \in V
    PROVE  /\ <<x>> \o s \in Seq(V)
           /\ Append(<<x>> \o s, v) = <<x>> \o Append(s, v)
           /\ <<x>> \o <<>> = <<x>> /\ Append(<<>>, x) = <<x>>
<1>1. <<x>> \in Seq(V) /\ <<v>> \in Seq(V) /\ <<x>> \o s \in Seq(V)
  OBVIOUS
<1>2. Append(<<x>> \o s, v) = (<<x>> \o s) \o <<v>> /\ Append(s, v) = s \o <<v>>
  BY <1>1, AppendIsConcat
<1>3. (<<x>> \o s) \o <<v>> = <<x>> \o (s \o <<v>>)
  BY <1>1, ConcatAssociative
<1>4. <<x>> \o <<>> = <<x>> /\ Append(<<>>, x) = <<x>>
  BY <1>1, ConcatEmptySeq
<1> QED
  BY <1>1, <1>2, <1>3, <1>4

\* The reading ends an argument at the next space, or at the end of the line.
LEMMA ArgumentEnds ==
    ASSUME NEW U, Coded(U), NEW x \in Lines(U), NEW s \in Seq(Lines(U)), NEW e, Begins(e, x, s),
           NEW w \in Lines(U), NEW n \in Nat, NEW a \in Lines(U), w \o Format!Repeat("slash", n) = a
    PROVE  \E f \in Seq(Lines(U)) : Ended(f, e, w, n) /\ Begins(f, x, Append(s, a))
<1> PICK V : V = Lines(U)
  OBVIOUS
<1> PICK f : f = Append(e, a)
  OBVIOUS
<1>1. x \in V /\ s \in Seq(V) /\ a \in V
  OBVIOUS
<1>2. Append(<<x>> \o s, a) = <<x>> \o Append(s, a) /\ <<x>> \o s \in Seq(V)
  BY ONLY <1>1, ListsJoin
<1>3. e = <<x>> \o s
  BY DEF Begins
<1>4. f = <<x>> \o Append(s, a)
  BY <1>2, <1>3
<1>5. f \in Seq(V)
  BY <1>1, <1>2, <1>3, AppendProperties
<1> QED
  BY <1>4, <1>5 DEF Ended, Begins

\* The command line with no arguments reads as the name of the program.
LEMMA WritingStarts ==
    ASSUME NEW U, Coded(U)
    PROVE  WritingIs(U, <<>>)
<1> PICK x : x = <<"x">>
  OBVIOUS
<1>1. x \in Lines(U) /\ <<>> \in Lines(U) /\ "x" \in U
  BY MarksAre DEF Coded
<1>2. Writes(x, <<>>) = x
  <2>1. <<>> \in Seq(Lines(U))
    OBVIOUS
  <2> QED
    BY <1>1, <2>1, LineFolds
<1>3. <<>> \in Seq(Lines(U)) /\ Between(<<>>) \in Splitting(U)
  <2>1. <<>> \in Seq(Lines(U))
    OBVIOUS
  <2> QED
    BY <2>1, StatesAre
<1>4. Reads(Between(<<>>), x) = Format!SplitUnit(Between(<<>>), "x")
  BY <1>1, <1>3, ReadingIs
<1>5. Format!SplitUnit(Between(<<>>), "x") = Outside(<<>>, x, 0)
  <2>1. Format!SplitUnit(Between(<<>>), "x")
           = Outside(<<>>, <<>> \o (Format!Repeat("slash", 0) \o <<"x">>), 0)
    BY BetweenReads
  <2>2. <<>> \o x = x
    BY <1>1, JoinEmpty
  <2> QED
    BY <2>1, <2>2, RepeatGrows
<1> PICK e : e = <<x>>
  OBVIOUS
<1>6. e \in Seq(Lines(U)) /\ Ended(e, <<>>, x, 0) /\ Begins(e, x, <<>>)
  <2>1. x \o Format!Repeat("slash", 0) = x
    BY <1>1, RepeatGrows, JoinEmpty
  <2>2. Append(<<>>, x) = e /\ e = <<x>> \o <<>> /\ e \in Seq(Lines(U))
    BY <1>1, <1>3, ListsJoin
  <2> QED
    BY <2>1, <2>2 DEF Ended, Begins
<1>7. Reads(Between(<<>>), Writes(x, <<>>)) = Outside(<<>>, x, 0) /\ 0 \in Nat
  BY <1>2, <1>4, <1>5
<1> QED
  BY <1>1, <1>3, <1>6, <1>7 DEF WritingIs

\* The next argument is written after a space.
LEMMA WritingAdds ==
    ASSUME NEW U, Coded(U), NEW x \in Lines(U), NEW s \in Seq(Lines(U)), NEW a \in Lines(U),
           NEW l, l = Writes(x, s), NEW f, f = Writes(x, Append(s, a)),
           NEW y, y = <<"space">>, NEW q, q = Format!Quoted(a)
    PROVE  l \in Lines(U) /\ \E z \in Lines(U) : IsJoin(z, l, y) /\ IsJoin(f, z, q)
<1>1. l \in Lines(U) /\ Writes(x, Append(s, a)) = Format!AddArgument(Writes(x, s), a)
  BY LineFolds
<1>2. Format!AddArgument(l, a) = l \o y \o q
  BY DEF Format!AddArgument
<1>3. y \in Lines(U)
  BY MarksAre
<1>4. l \o y \in Lines(U)
  BY <1>1, <1>3, LinesJoin
<1> QED
  BY <1>1, <1>2, <1>4 DEF IsJoin

\* A command line with one argument more reads as its arguments.
LEMMA WritingGrows ==
    ASSUME NEW U, Coded(U), NEW s \in Seq(Lines(U)), NEW a \in Lines(U), WritingIs(U, s)
    PROVE  WritingIs(U, Append(s, a))
<1> PICK x : x = <<"x">>
  OBVIOUS
<1> PICK b : b = Between(<<>>)
  OBVIOUS
<1> PICK l : l = Writes(x, s)
  OBVIOUS
<1> PICK f : f = Writes(x, Append(s, a))
  OBVIOUS
<1> PICK y : y = <<"space">>
  OBVIOUS
<1> PICK q : q = Format!Quoted(a)
  OBVIOUS
<1>0. x \in Lines(U) /\ y \in Lines(U) /\ "space" \in U /\ b \in Splitting(U)
  <2>1. x \in Lines(U) /\ y \in Lines(U)
    BY MarksAre
  <2>2. "space" \in U
    BY DEF Coded
  <2>3. <<>> \in Seq(Lines(U))
    OBVIOUS
  <2> QED
    BY <2>1, <2>2, <2>3, StatesAre
<1>1. PICK d \in Seq(Lines(U)), e \in Seq(Lines(U)), w \in Lines(U), n \in Nat :
         Reads(b, l) = Outside(d, w, n) /\ Ended(e, d, w, n) /\ Begins(e, x, s)
  BY DEF WritingIs
<1>2. q \in Lines(U) /\ Outside(d, w, n) \in Splitting(U) /\ Between(e) \in Splitting(U)
  BY QuotedType, StatesAre
<1>3. PICK z \in Lines(U) : l \in Lines(U) /\ IsJoin(z, l, y) /\ IsJoin(f, z, q)
  BY <1>0, WritingAdds
<1>4. Reads(b, z) = Between(e)
  <2>1. Reads(b, z) = Reads(Reads(b, l), y)
    BY ONLY Coded(U), <1>0, <1>3, ReadsOn
  <2>2. Reads(Outside(d, w, n), y) = Format!SplitUnit(Outside(d, w, n), "space")
    BY <1>0, <1>2, ReadingIs
  <2>3. Format!SplitUnit(Outside(d, w, n), "space") = Between(e)
    <3>1. Format!SplitUnit(Outside(d, w, n), "space")
             = Between(Append(d, w \o Format!Repeat("slash", n)))
      BY OutsideReads
    <3>2. Append(d, w \o Format!Repeat("slash", n)) = e
      BY <1>1 DEF Ended
    <3> QED
      BY <3>1, <3>2
  <2> QED
    BY <1>1, <2>1, <2>2, <2>3
<1>5. ArgumentIs(U, e, a, q)
  BY ArgumentReads
<1>6. PICK v \in Lines(U), m \in Nat :
         Reads(Between(e), q) = Outside(e, v, m) /\ v \o Format!Repeat("slash", m) = a
  BY <1>5 DEF ArgumentIs
<1>7. Reads(b, f) = Outside(e, v, m)
  <2>1. Reads(b, f) = Reads(Reads(b, z), q)
    BY ONLY Coded(U), <1>0, <1>2, <1>3, ReadsOn
  <2> QED
    BY <1>4, <1>6, <2>1
<1>8. \E g \in Seq(Lines(U)) : Ended(g, e, v, m) /\ Begins(g, x, Append(s, a))
  BY <1>0, <1>1, <1>6, ArgumentEnds
<1> QED
  BY <1>7, <1>8 DEF WritingIs

\* A command line reads as the arguments it was made of.
LEMMA WritingReads ==
    ASSUME NEW U, Coded(U), NEW arguments \in Seq(Lines(U))
    PROVE  WritingIs(U, arguments)
<1> DEFINE T == {s \in Seq(Lines(U)) : WritingIs(U, s)}
<1>1. <<>> \in T
  BY WritingStarts
<1>2. ASSUME NEW s \in Seq(Lines(U)), NEW a \in Lines(U), s \in T PROVE Append(s, a) \in T
  <2>1. WritingIs(U, Append(s, a))
    BY <1>2, WritingGrows
  <2>2. Append(s, a) \in Seq(Lines(U))
    BY AppendProperties
  <2> QED
    BY <2>1, <2>2
<1>3. arguments \in T
  <2> HIDE DEF T
  <2> QED
    BY <1>1, <1>2, AllLists
<1> QED
  BY <1>3

\* Every list of arguments comes back, whatever they are made of.
LEMMA CommandLines ==
    ASSUME NEW arguments, Format!List(arguments),
           \A i \in 1..Len(arguments) : Format!List(arguments[i]),
           Format!Encoded(arguments) # Nothing
    PROVE  Format!Split(Format!Encoded(arguments)) = <<<<"x">>>> \o arguments
<1> DEFINE U == (UNION {Format!Range(s) : s \in Format!Range(arguments)})
             \cup {"x", "space", "slash", "quote"}
<1>1. Coded(U)
  BY DEF Coded
<1>2. arguments \in Seq(Lines(U))
  <2>1. arguments \in Seq(Format!Range(arguments))
    BY DEF Format!List
  <2>2. ASSUME NEW i \in 1..Len(arguments) PROVE arguments[i] \in Lines(U)
    <3> PICK s : s = arguments[i]
      OBVIOUS
    <3>1. s \in Format!Range(arguments) /\ s \in Seq(Format!Range(s))
      BY <2>1, <2>2, SMTT(60) DEF Format!List, Format!Range
    <3>2. Format!Range(s) \subseteq U
      BY <3>1
    <3> HIDE DEF U
    <3>3. s \in Seq(U)
      BY <3>1, <3>2
    <3> QED
      BY <3>3 DEF Lines
  <2> HIDE DEF U
  <2> PICK V : V = Lines(U)
    OBVIOUS
  <2>3. Len(arguments) \in Nat /\ arguments \in [1..Len(arguments) -> V]
    BY <2>1, <2>2
  <2> QED
    BY <2>3
<1> HIDE DEF U
<1>3. PICK d \in Seq(Lines(U)), w \in Lines(U), n \in Nat :
         /\ Reads(Between(<<>>), Writes(<<"x">>, arguments)) = Outside(d, w, n)
         /\ Append(d, w \o Format!Repeat("slash", n)) = <<<<"x">>>> \o arguments
  <2>1. WritingIs(U, arguments)
    BY <1>1, <1>2, WritingReads
  <2> QED
    BY <2>1 DEF WritingIs, Ended, Begins
<1>4. Format!Encoded(arguments) = Writes(<<"x">>, arguments)
  BY DEF Format!Encoded, Writes
<1>5. Format!Split(Writes(<<"x">>, arguments))
         = Format!Flush(Reads(Format!Fresh(<<>>), Writes(<<"x">>, arguments)))
  BY DEF Format!Split, Reads
<1>6. Format!Fresh(<<>>) = Between(<<>>)
  BY FlushIs
<1> QED
  <2>1. Format!Flush(Outside(d, w, n)) = Append(d, w \o Format!Repeat("slash", n))
    BY FlushIs
  <2>2. Format!Split(Format!Encoded(arguments)) = Format!Flush(Outside(d, w, n))
    BY <1>3, <1>4, <1>5, <1>6
  <2> QED
    BY <1>3, <2>1, <2>2

-----------------------------------------------------------------------------
\* The length of a PAX record grows to the least one that counts its own digits.
PowersAre(p) ==
    /\ p[1] = 10 /\ p[2] = 100 /\ p[3] = 1000 /\ p[4] = 10000 /\ p[5] = 100000
    /\ p[6] = 1000000 /\ p[7] = 10000000 /\ p[8] = 100000000 /\ p[9] = 1000000000
    /\ p[10] = 10000000000
Counts(p, n, d) == n < p[d] /\ (d > 1 => n >= p[d - 1])
Powers == [d \in 1..10 |-> 10^d]

\* The powers of ten up to 10^10, by name.
LEMMA TenPowers == PowersAre(Powers)
BY SMT DEF Powers, PowersAre

\* The powers of ten grow.
LEMMA PowersGrow ==
    ASSUME NEW p, PowersAre(p)
    PROVE  \A d \in 1..10 : p[d] \in Nat /\ \A e \in 1..10 : d < e => p[d] < p[e]
<1>1. \A d \in 1..10 : d \in {1, 2, 3, 4, 5, 6, 7, 8, 9, 10}
  OBVIOUS
<1> QED
  BY <1>1, SMT DEF PowersAre

\* A record of a body below 10^9 has at most ten digits in its length.
LEMMA HugeIs ==
    ASSUME NEW n \in Nat, n < Powers[9]
    PROVE  n + 11 < Powers[10]
<1>1. Powers[9] = 1000000000 /\ Powers[10] = 10000000000
  BY TenPowers, SMT DEF PowersAre
<1> QED
  BY <1>1, SMT

\* The number of digits that are needed.
LEMMA OneDigitCount ==
    ASSUME NEW n \in Nat, n < Powers[10]
    PROVE  Format!Digits(n) \in 1..10 /\ Counts(Powers, n, Format!Digits(n))
<1> PICK p : p = Powers
  OBVIOUS
<1>1. PowersAre(p)
  BY TenPowers
<1>2. \E d \in 1..10 : Counts(p, n, d)
  <2> DEFINE S == {d \in 1..10 : n < p[d]}
  <2>1. 10 \in S
    OBVIOUS
  <2>2. PICK d \in S : \A e \in S : d =< e
    <3>1. S \subseteq Nat /\ S # {}
      BY <2>1
    <3> HIDE DEF S
    <3> QED
      BY <3>1, Smallest
  <2>3. d > 1 => n >= p[d - 1]
    <3> SUFFICES ASSUME d > 1 PROVE n >= p[d - 1]
      OBVIOUS
    <3>1. d - 1 \in 1..10 /\ ~(d =< d - 1)
      OBVIOUS
    <3>2. ~(n < p[d - 1])
      BY <2>2, <3>1
    <3>3. p[d - 1] \in Nat
      BY <1>1, <3>1, PowersGrow
    <3> QED
      BY <3>2, <3>3
  <2> QED
    BY <2>2, <2>3 DEF Counts
<1>3. \A d \in 1..10 : Counts(p, n, d) <=> n < 10^d /\ (d > 1 => n >= 10^(d - 1))
  <2> SUFFICES ASSUME NEW d \in 1..10
               PROVE  Counts(p, n, d) <=> n < 10^d /\ (d > 1 => n >= 10^(d - 1))
    OBVIOUS
  <2>1. p[d] = 10^d
    BY DEF Powers
  <2>2. d > 1 => p[d - 1] = 10^(d - 1)
    <3>1. d > 1 => d - 1 \in 1..10
      OBVIOUS
    <3> QED
      BY <3>1 DEF Powers
  <2> QED
    BY <2>1, <2>2 DEF Counts
<1>4. Format!Digits(n) = CHOOSE d \in 1..10 : n < 10^d /\ (d > 1 => n >= 10^(d - 1))
  BY DEF Format!Digits
<1> QED
  BY <1>2, <1>3, <1>4

\* A greater number has no fewer digits.
LEMMA MoreDigits ==
    ASSUME NEW n \in Nat, NEW m \in Nat, n =< m, m < Powers[10]
    PROVE  /\ Format!Digits(n) \in 1..10 /\ Format!Digits(m) \in 1..10
           /\ Format!Digits(n) =< Format!Digits(m)
<1> PICK p : p = Powers
  OBVIOUS
<1> PICK d : d = Format!Digits(n)
  OBVIOUS
<1> PICK e : e = Format!Digits(m)
  OBVIOUS
<1>1. d \in 1..10 /\ Counts(p, n, d) /\ e \in 1..10 /\ Counts(p, m, e)
  <2>1. n < Powers[10]
    <3>1. Powers[10] \in Nat
      BY TenPowers, PowersGrow
    <3> QED
      BY <3>1
  <2> QED
    BY <2>1, OneDigitCount
<1>2. ASSUME e < d PROVE FALSE
  <2>1. d - 1 \in 1..10 /\ e =< d - 1 /\ d > 1
    BY <1>1, <1>2
  <2>2. n >= p[d - 1] /\ m < p[e]
    BY <1>1, <2>1 DEF Counts
  <2>3. p[e] \in Nat /\ p[d - 1] \in Nat /\ (e < d - 1 => p[e] < p[d - 1])
    BY <1>1, <2>1, TenPowers, PowersGrow
  <2>4. p[e] =< p[d - 1]
    BY <1>1, <2>1, <2>3
  <2> QED
    BY <2>2, <2>3, <2>4
<1> QED
  BY <1>1, <1>2

RecordIs(body, n, a) ==
    /\ body \in Nat /\ body < Powers[9] /\ n \in Nat /\ body =< n /\ n =< body + 11
    /\ n =< Format!Adjusted(body, n)
    /\ \A m \in body..(n - 1) : m < Format!Adjusted(body, m)
    /\ a # Pending => a = n /\ n = Format!Adjusted(body, n)

\* The adjusted length stays between its bounds, and keeps the order of two lengths.
LEMMA AdjustedIs ==
    ASSUME NEW body \in Nat, body < Powers[9], NEW n \in Nat, n =< body + 11,
           NEW m \in Nat, m =< n
    PROVE  /\ Format!Adjusted(body, n) \in (body + 2)..(body + 11)
           /\ Format!Adjusted(body, m) \in (body + 2)..(body + 11)
           /\ Format!Adjusted(body, m) =< Format!Adjusted(body, n)
<1>1. n < Powers[10]
  <2>1. body + 11 < Powers[10] /\ Powers[10] \in Nat
    BY HugeIs, TenPowers, PowersGrow
  <2> QED
    BY <2>1
<1>2. /\ Format!Digits(m) \in 1..10 /\ Format!Digits(n) \in 1..10
      /\ Format!Digits(m) =< Format!Digits(n)
  BY <1>1, MoreDigits
<1> QED
  BY <1>2 DEF Format!Adjusted

\* The loop starts below every length that counts its own digits.
LEMMA RecordStarts ==
    ASSUME NEW body \in Nat, body < Powers[9]
    PROVE  RecordIs(body, body + 2, Pending)
<1>1. body + 2 \in Nat /\ body + 2 =< body + 11 /\ body =< body + 2
  OBVIOUS
<1>2. Format!Adjusted(body, body + 2) \in (body + 2)..(body + 11)
  BY <1>1, AdjustedIs
<1>3. ASSUME NEW m \in body..((body + 2) - 1) PROVE m < Format!Adjusted(body, m)
  <2>1. m \in Nat /\ m =< body + 2 /\ m < body + 2
    OBVIOUS
  <2>2. Format!Adjusted(body, m) \in (body + 2)..(body + 11)
    BY <1>1, <2>1, AdjustedIs
  <2> QED
    BY <2>1, <2>2
<1> QED
  BY <1>1, <1>2, <1>3 DEF RecordIs

\* A turn of the loop stays below every such length, and ends at one only.
LEMMA RecordGrows ==
    ASSUME NEW body, NEW n, RecordIs(body, n, Pending),
           NEW m, m = Format!Adjusted(body, n),
           NEW a, a = IF m = n THEN n ELSE Pending
    PROVE  RecordIs(body, m, a)
<1>0. /\ body \in Nat /\ body < Powers[9] /\ n \in Nat /\ body =< n /\ n =< body + 11
      /\ n =< m /\ \A k \in body..(n - 1) : k < Format!Adjusted(body, k)
  BY DEF RecordIs
<1>1. m \in (body + 2)..(body + 11)
  BY <1>0, AdjustedIs
<1>2. m \in Nat /\ m =< body + 11 /\ body =< m
  BY <1>0, <1>1
<1>3. ASSUME NEW k \in Nat, n =< k, k =< m
      PROVE  m =< Format!Adjusted(body, k) /\ Format!Adjusted(body, k) \in Nat
  <2>1. k =< body + 11
    BY <1>0, <1>2, <1>3
  <2>2. /\ Format!Adjusted(body, n) =< Format!Adjusted(body, k)
        /\ Format!Adjusted(body, k) \in (body + 2)..(body + 11)
    BY <1>0, <1>3, <2>1, AdjustedIs
  <2> QED
    BY <1>0, <2>2
<1>4. m =< Format!Adjusted(body, m)
  BY <1>0, <1>2, <1>3
<1>5. ASSUME NEW k \in body..(m - 1) PROVE k < Format!Adjusted(body, k)
  <2>1. k \in Nat /\ k < m
    BY <1>0, <1>2
  <2>2. CASE k < n
    <3>1. k \in body..(n - 1)
      BY <1>0, <2>1, <2>2
    <3> QED
      BY <1>0, <3>1
  <2>3. CASE n =< k
    BY <1>2, <1>3, <2>1, <2>3
  <2> QED
    BY <1>0, <2>1, <2>2, <2>3
<1> QED
  BY <1>0, <1>2, <1>4, <1>5 DEF RecordIs

\* The loop ends at the length of the record it writes.
LEMMA RecordEnds ==
    ASSUME NEW q, q.kind = "record", NEW n, NEW a, a # Pending, RecordIs(q.body, n, a)
    PROVE  Format!RoundTrips(q, a)
<1> PICK body : body = q.body
  OBVIOUS
<1>1. /\ a = Format!Adjusted(body, a) /\ body \in Nat /\ a \in Nat
      /\ \A m \in body..(a - 1) : m < Format!Adjusted(body, m)
  BY DEF RecordIs
<1>2. \A m \in body..(a - 1) : m # Format!Adjusted(body, m)
  <2> SUFFICES ASSUME NEW m \in body..(a - 1), m = Format!Adjusted(body, m) PROVE FALSE
    OBVIOUS
  <2>1. m \in Nat /\ m < m
    BY <1>1
  <2> QED
    BY <2>1
<1> QED
  BY <1>1, <1>2 DEF Format!RoundTrips

-----------------------------------------------------------------------------
\* The five units of a limit, the smallest of which is one.
LEMMA MultipliersAre ==
    ASSUME Kilo \in Nat, Kilo > 1
    PROVE  Format!Multiplier(0) = 1 /\ \A u \in 0..4 : Format!Multiplier(u) \in Nat \ {0}
<1>1. Kilo * Kilo \in Nat \ {0}
  OBVIOUS
<1> PICK k2 : k2 = Kilo * Kilo
  OBVIOUS
<1>2. k2 * Kilo \in Nat \ {0}
  BY <1>1
<1> PICK k3 : k3 = k2 * Kilo
  OBVIOUS
<1>3. k3 * Kilo \in Nat \ {0}
  BY <1>2
<1> PICK k4 : k4 = k3 * Kilo
  OBVIOUS
<1>4. Format!Multipliers = <<1, Kilo, k2, k3, k4>>
  BY DEF Format!Multipliers
<1> PICK t : t = <<1, Kilo, k2, k3, k4>>
  OBVIOUS
<1>5. t[0 + 1] = 1 /\ t[1 + 1] = Kilo /\ t[2 + 1] = k2 /\ t[3 + 1] = k3 /\ t[4 + 1] = k4
  OBVIOUS
<1>6. \A u : Format!Multiplier(u) = t[u + 1]
  BY <1>4 DEF Format!Multiplier
<1>7. Format!Multiplier(0) = 1
  BY <1>5, <1>6
<1>8. ASSUME NEW u \in 0..4 PROVE Format!Multiplier(u) \in Nat \ {0}
  <2>1. t[u + 1] \in {1, Kilo, k2, k3, k4}
    <3>1. u \in {0, 1, 2, 3, 4}
      OBVIOUS
    <3> QED
      BY <1>5, <3>1
  <2>2. {1, Kilo, k2, k3, k4} \subseteq Nat \ {0}
    BY <1>1, <1>2, <1>3
  <2> QED
    BY <1>6, <2>1, <2>2
<1> QED
  BY <1>7, <1>8

\* A multiple of a unit, divided by it.
LEMMA Divides ==
    ASSUME NEW n \in Nat, n > 0, NEW m \in Nat \ {0}, n >= m, n % m = 0
    PROVE  n \div m \in Nat /\ n \div m # 0 /\ (n \div m) * m = n
OBVIOUS

\* What the form shows of a limit is the limit again.
LEMMA FormattedIs ==
    ASSUME Kilo \in Nat, Kilo > 1, MaxNumber \in Nat, NEW n \in 1..MaxNumber
    PROVE  Format!Parsed(Format!Formatted(n)) = n
<1> DEFINE S == {u \in 1..4 : n >= Format!Multiplier(u) /\ n % Format!Multiplier(u) = 0}
<1> PICK v : v = IF S = {} THEN 0 ELSE Format!Max(S)
  OBVIOUS
<1>1. v \in 0..4 /\ n >= Format!Multiplier(v) /\ n % Format!Multiplier(v) = 0
  <2>1. CASE S = {}
    <3>1. v = 0
      BY <2>1
    <3>2. n >= 1 /\ n % 1 = 0
      OBVIOUS
    <3> QED
      BY <3>1, <3>2, MultipliersAre
  <2>2. CASE S # {}
    <3>1. S \in SUBSET (1..4) /\ 4 \in Nat
      OBVIOUS
    <3>2. v = Format!Max(S)
      BY <2>2
    <3>3. Format!Max(S) \in S
      <4> HIDE DEF S
      <4> QED
        BY <2>2, <3>1, MaxIsElement
    <3>4. v \in S
      BY <3>2, <3>3
    <3> QED
      BY <3>4
  <2> QED
    BY <2>1, <2>2
<1> PICK m : m = Format!Multiplier(v)
  OBVIOUS
<1>2. m \in Nat \ {0} /\ n \in Nat /\ n > 0 /\ n =< MaxNumber
  BY <1>1, MultipliersAre
<1> PICK c : c = n \div m
  OBVIOUS
<1>3. c # 0 /\ c * m = n
  BY <1>1, <1>2, Divides
<1>4. Format!Formatted(n) = [count |-> c, unit |-> v]
  BY DEF Format!Formatted
<1> PICK t : t = [count |-> c, unit |-> v]
  OBVIOUS
<1>5. t.count = c /\ t.unit = v
  OBVIOUS
<1>6. ~(t.count = 0 \/ t.count * Format!Multiplier(t.unit) > MaxNumber)
  BY <1>2, <1>3, <1>5
<1>7. Format!Parsed(t) = t.count * Format!Multiplier(t.unit)
  BY <1>6 DEF Format!Parsed
<1> QED
  BY <1>3, <1>4, <1>5, <1>7

\* A limit that was formatted and parsed again is the same number of bytes.
LEMMA BytesEnd ==
    ASSUME Kilo \in Nat, Kilo > 1, MaxNumber \in Nat,
           NEW q, q.kind = "bytes", q.text.count \in Nat, q.text.unit \in 0..4
    PROVE  Format!RoundTrips(q, Format!Parsed(q.text))
<1> PICK t : t = q.text
  OBVIOUS
<1> PICK m : m = Format!Multiplier(t.unit)
  OBVIOUS
<1> PICK c : c = t.count
  OBVIOUS
<1> PICK n : n = c * m
  OBVIOUS
<1>1. m \in Nat \ {0} /\ c \in Nat
  BY MultipliersAre
<1>2. n \in Nat /\ (c = 0 <=> n = 0)
  BY <1>1
<1>3. Format!Parsed(t) = IF c = 0 \/ n > MaxNumber THEN Nothing ELSE n
  BY DEF Format!Parsed
<1>4. CASE n \in 1..MaxNumber
  <2>1. c # 0 /\ ~(n > MaxNumber)
    BY <1>2, <1>4
  <2>2. Format!Parsed(t) = n
    BY <1>3, <2>1
  <2>3. Format!Parsed(Format!Formatted(n)) = n
    BY <1>4, FormattedIs
  <2> QED
    BY <1>4, <2>2, <2>3 DEF Format!RoundTrips
<1>5. CASE n \notin 1..MaxNumber
  <2>1. c = 0 \/ n > MaxNumber
    BY <1>2, <1>5
  <2>2. Format!Parsed(t) = Nothing
    BY <1>3, <2>1
  <2> QED
    BY <1>5, <2>2 DEF Format!RoundTrips
<1> QED
  BY <1>4, <1>5

-----------------------------------------------------------------------------
\* UTF-8 takes no less room than UTF-16.
LEMMA Utf8IsLonger ==
    ASSUME NEW U, NEW a \in Seq(U)
    PROVE  /\ Format!Utf16Length(a) \in Nat /\ Format!Utf8Length(a) \in Nat
           /\ Format!Utf16Length(a) =< Format!Utf8Length(a)
<1> DEFINE T == {s \in Seq(U) : Format!Utf16Length(s) =< Format!Utf8Length(s)}
<1>1. <<>> \in T
  <2>1. <<>> \in Seq(U)
    OBVIOUS
  <2>2. Format!Utf16Length(<<>>) = 0 /\ Format!Utf8Length(<<>>) = 0
    BY <2>1, Utf16Folds, Utf8Folds
  <2> QED
    BY <2>1, <2>2
<1>2. ASSUME NEW s \in Seq(U), NEW u \in U, s \in T PROVE Append(s, u) \in T
  <2> PICK n : n = Format!Utf16Length(s)
    OBVIOUS
  <2> PICK m : m = Format!Utf8Length(s)
    OBVIOUS
  <2>1. n \in Nat /\ Format!Utf16Length(Append(s, u)) = n + Format!Units(u)
    BY Utf16Folds
  <2>2. m \in Nat /\ Format!Utf8Length(Append(s, u)) = m + Format!Utf8(u)
    BY Utf8Folds
  <2>3. n =< m
    BY <1>2
  <2>4. /\ Format!Units(u) \in Nat /\ Format!Utf8(u) \in Nat
        /\ Format!Units(u) =< Format!Utf8(u)
    BY DEF Format!Units, Format!Utf8
  <2>5. n + Format!Units(u) =< m + Format!Utf8(u)
    BY <2>1, <2>2, <2>3, <2>4
  <2>6. Append(s, u) \in Seq(U)
    BY AppendProperties
  <2> QED
    BY <2>1, <2>2, <2>5, <2>6
<1>3. a \in T
  <2> HIDE DEF T
  <2> QED
    BY <1>1, <1>2, AllLists
<1> QED
  BY <1>3, Utf16Folds, Utf8Folds

\* A list with one more element.
LEMMA Appended ==
    ASSUME NEW U, NEW s \in Seq(U), NEW u
    PROVE  /\ Format!Last(Append(s, u)) = u /\ Format!Front(Append(s, u)) = s
           /\ Len(Append(s, u)) = Len(s) + 1 /\ Append(s, u) # <<>>
           /\ (Len(Append(s, u)) > 1 <=> s # <<>>)
<1> PICK V : V = U \cup {u}
  OBVIOUS
<1> PICK n : n = Len(s)
  OBVIOUS
<1>1. s \in Seq(V) /\ u \in V /\ n \in Nat
  OBVIOUS
<1> PICK t : t = Append(s, u)
  OBVIOUS
<1>2. t \in Seq(V) /\ Len(t) = n + 1 /\ t[n + 1] = u /\ \A i \in 1..n : t[i] = s[i]
  BY <1>1, AppendProperties
<1>3. Format!Last(t) = u
  BY <1>2 DEF Format!Last
<1>4. Format!Front(t) = s
  <2>1. Format!Front(t) = SubSeq(t, 1, n)
    BY <1>1, <1>2 DEF Format!Front
  <2>2. SubSeq(t, 1, n) = [i \in 1..n |-> t[i]]
    BY <1>1, <1>2
  <2>3. s = [i \in 1..n |-> s[i]]
    BY <1>1
  <2> QED
    BY <1>2, <2>1, <2>2, <2>3
<1>5. s # <<>> <=> n > 0
  BY <1>1, EmptySeq
<1>6. t # <<>>
  BY <1>1, <1>2, EmptySeq
<1> QED
  BY <1>1, <1>2, <1>3, <1>4, <1>5, <1>6

\* A password that is written is read, and one that could be read is written.
LEMMA PasswordEnds ==
    ASSUME MaxPassword \in Nat, NEW q, q.kind = "password",
           Format!List(q.units), Append(q.units, "cr") # Nothing
    PROVE  Format!RoundTrips(q, Format!Prepared(q.units))
<1> PICK s : s = q.units
  OBVIOUS
<1> PICK n : n = Format!Utf16Length(s)
  OBVIOUS
<1> PICK m : m = Format!Utf8Length(s)
  OBVIOUS
<1> PICK t : t = Append(s, "cr")
  OBVIOUS
<1> DEFINE U == Format!Range(s) \cup {"cr"}
           Good == Format!Range(s) \cap Format!Breaks = {} /\ "surrogate" \notin Format!Range(s)
<1>1. s \in Seq(U) /\ "cr" \in U
  BY DEF Format!List
<1>2. n \in Nat /\ m \in Nat /\ n =< m
  BY <1>1, Utf8IsLonger
<1>3. Format!Utf8Length(t) = m + 1
  <2>1. Format!Utf8Length(t) = m + Format!Utf8("cr")
    BY <1>1, Utf8Folds
  <2>2. Format!Utf8("cr") = 1
    BY DEF Format!Utf8
  <2> QED
    BY <2>1, <2>2
<1>4. /\ Format!Last(t) = "cr" /\ Format!Front(t) = s /\ t # <<>>
      /\ (Len(t) > 1 <=> s # <<>>)
  BY <1>1, Appended
<1>5. Format!Range(s) \cap (Format!Breaks \cup {"surrogate"}) = {} <=> Good
  OBVIOUS
<1>6. m + 1 <= MaxPassword + 1 <=> m <= MaxPassword
  BY <1>2
<1>7. Format!Received(t) = IF s # <<>> /\ m <= MaxPassword /\ Good THEN s ELSE Nothing
  <2> HIDE DEF U, Good
  <2> QED
    BY <1>3, <1>4, <1>5, <1>6 DEF Format!Received
<1>8. Format!Prepared(s) = IF s # <<>> /\ n <= MaxPassword /\ Good /\ m <= MaxPassword THEN t
                             ELSE Nothing
  BY DEF Format!Prepared
<1> HIDE DEF U, Good
<1>9. CASE s # <<>> /\ Good /\ m <= MaxPassword
  <2>1. n <= MaxPassword
    BY <1>2, <1>9
  <2>2. Format!Prepared(s) = t /\ Format!Received(t) = s /\ t # Nothing
    BY <1>7, <1>8, <1>9, <2>1
  <2> QED
    BY <2>2 DEF Format!RoundTrips
<1>10. CASE ~(s # <<>> /\ Good /\ m <= MaxPassword)
  <2>1. Format!Prepared(s) = Nothing /\ Format!Received(t) = Nothing
    BY <1>7, <1>8, <1>10
  <2> QED
    BY <2>1 DEF Format!RoundTrips
<1> QED
  BY <1>9, <1>10

-----------------------------------------------------------------------------
\* Two lists are one, up to the length of the first.
LEMMA PrefixIs ==
    ASSUME NEW U, NEW s \in Seq(U), NEW t \in Seq(U)
    PROVE  Format!IsPrefix(s, t) <=> Len(s) <= Len(t) /\ SubSeq(t, 1, Len(s)) = s
<1>1. SubSeq(s, 1, Len(s)) = s
  OBVIOUS
<1> QED
  BY <1>1 DEF Format!IsPrefix

\* As many keys as paths: no two of them are one.
LEMMA KeysDiffer ==
    ASSUME NEW n \in Nat, NEW k, DOMAIN k = 1..n, k = [i \in 1..n |-> k[i]]
    PROVE  Format!Cardinality({k[i] : i \in 1..n}) = n <=> \A i, j \in 1..n : k[i] = k[j] => i = j
<1> PICK T : T = {k[i] : i \in 1..n}
  OBVIOUS
<1>1. k \in Surjection(1..n, T)
  BY DEF Surjection
<1>2. IsFiniteSet(1..n) /\ Cardinality(1..n) = n
  <2>1. 1 \in Int /\ n \in Int
    OBVIOUS
  <2>2. Cardinality(1..n) = IF 1 > n THEN 0 ELSE n - 1 + 1
    BY <2>1, FS_Interval
  <2>3. IsFiniteSet(1..n)
    BY <2>1, FS_Interval
  <2> QED
    BY ONLY n \in Nat, <2>2, <2>3
<1>3. Cardinality(T) = Cardinality(1..n) <=> k \in Injection(1..n, T)
  BY <1>1, <1>2, FS_Surjection
<1>4. k \in Injection(1..n, T) <=> \A i, j \in 1..n : k[i] = k[j] => i = j
  <2>1. k \in [1..n -> T]
    OBVIOUS
  <2> QED
    BY <2>1 DEF Injection, IsInjective
<1>5. Format!Cardinality(T) = Cardinality(T)
  BY DEF Format!Cardinality, Cardinality
<1> QED
  BY <1>2, <1>3, <1>4, <1>5

\* The ancestors of a key are what lies before it.
LEMMA AncestorIs ==
    ASSUME NEW U, NEW s \in Seq(U), s # <<>>, NEW t \in Seq(U)
    PROVE  s \in Format!Ancestors(t) <=> Len(s) < Len(t) /\ SubSeq(t, 1, Len(s)) = s
<1> PICK n : n = Len(s)
  OBVIOUS
<1> PICK m : m = Len(t)
  OBVIOUS
<1>1. n \in Nat /\ m \in Nat /\ n > 0
  BY EmptySeq
<1>2. ASSUME NEW i \in 1..(m - 1), s = SubSeq(t, 1, i) PROVE i = n
  <2>1. Len(SubSeq(t, 1, i)) = i
    BY <1>1
  <2> QED
    BY <1>2, <2>1
<1>3. Format!Ancestors(t) = {SubSeq(t, 1, i) : i \in 1..(m - 1)}
  BY DEF Format!Ancestors
<1>4. n < m <=> n \in 1..(m - 1)
  BY <1>1
<1>5. s \in Format!Ancestors(t) <=> \E i \in 1..(m - 1) : s = SubSeq(t, 1, i)
  BY <1>3
<1> QED
  BY <1>2, <1>4, <1>5

ClearKeys(k, n) ==
    /\ Format!Cardinality({k[i] : i \in 1..n}) = n
    /\ \A i \in 1..n : Format!Ancestors(k[i]) \cap {k[j] : j \in 1..n} = {}

\* Distinct keys without ancestors among them: none is a prefix of another one.
LEMMA DistinctIs ==
    ASSUME NEW U, NEW n \in Nat, NEW k, k = [i \in 1..n |-> k[i]],
           \A i \in 1..n : k[i] \in Seq(U) /\ k[i] # <<>>
    PROVE  ClearKeys(k, n) <=> \A i, j \in 1..n : i # j => ~Format!IsPrefix(k[i], k[j])
<1> DEFINE Same(i, j) == k[i] = k[j]
           Above(i, j) == k[i] \in Format!Ancestors(k[j])
           Prefix(i, j) == Format!IsPrefix(k[i], k[j])
<1>1. ASSUME NEW i \in 1..n, NEW j \in 1..n PROVE Prefix(i, j) <=> Same(i, j) \/ Above(i, j)
  <2> PICK s : s = k[i]
    OBVIOUS
  <2> PICK t : t = k[j]
    OBVIOUS
  <2>1. s \in Seq(U) /\ t \in Seq(U) /\ s # <<>>
    OBVIOUS
  <2> PICK l : l = Len(s)
    OBVIOUS
  <2> PICK m : m = Len(t)
    OBVIOUS
  <2>2. l \in Nat /\ m \in Nat
    BY <2>1
  <2>3. Format!IsPrefix(s, t) <=> l <= m /\ SubSeq(t, 1, l) = s
    BY <2>1, PrefixIs
  <2>4. s \in Format!Ancestors(t) <=> l < m /\ SubSeq(t, 1, l) = s
    BY <2>1, AncestorIs
  <2>5. SubSeq(t, 1, m) = t
    BY <2>1
  <2>6. l = m /\ SubSeq(t, 1, l) = s => s = t
    BY <2>5
  <2>7. s = t => l = m /\ SubSeq(t, 1, l) = s
    BY <2>5
  <2>8. Format!IsPrefix(s, t) <=> s = t \/ s \in Format!Ancestors(t)
    BY <2>2, <2>3, <2>4, <2>6, <2>7
  <2> QED
    BY <2>8
<1>2. ASSUME NEW i \in 1..n PROVE ~Above(i, i)
  <2>1. k[i] \in Seq(U) /\ k[i] # <<>>
    OBVIOUS
  <2>2. Above(i, i) => Len(k[i]) < Len(k[i])
    BY <2>1, AncestorIs
  <2>3. Len(k[i]) \in Nat
    BY <2>1
  <2> QED
    BY <2>2, <2>3
<1>3. Format!Cardinality({k[i] : i \in 1..n}) = n <=> \A i, j \in 1..n : Same(i, j) => i = j
  <2>1. DOMAIN k = 1..n
    OBVIOUS
  <2> QED
    BY <2>1, KeysDiffer
<1>4. (\A i \in 1..n : Format!Ancestors(k[i]) \cap {k[j] : j \in 1..n} = {})
         <=> \A i, j \in 1..n : ~Above(j, i)
  OBVIOUS
<1> HIDE DEF Same, Above, Prefix
<1>5. (\A i, j \in 1..n : Same(i, j) => i = j) /\ (\A i, j \in 1..n : ~Above(j, i))
         <=> \A i, j \in 1..n : i # j => ~Prefix(i, j)
  BY <1>1, <1>2
<1> QED
  BY <1>3, <1>4, <1>5 DEF Prefix, ClearKeys

\* A selection is accepted exactly if it is not ambiguous.
LEMMA SelectionEnds ==
    ASSUME MaxSelected \in Nat, MaxSelectedDepth \in Nat, NEW q, q.kind = "select",
           Format!List(q.paths), Format!Range(q.paths) # Nothing,
           \A i \in 1..Len(q.paths) : Format!List(q.paths[i])
    PROVE  Format!Named(q, Format!Selected(q.paths))
<1> PICK p : p = q.paths
  OBVIOUS
<1> PICK n : n = Len(p)
  OBVIOUS
<1> DEFINE key == [i \in 1..n |-> Format!Key(p[i])]
           U == UNION {Format!Range(Format!Key(p[i])) : i \in 1..n}
           Valid == \A i \in 1..n : Format!ValidSelector(p[i])
           Apart == \A i, j \in 1..n : i # j => ~Format!Overlap(p[i], p[j])
           Clear == ClearKeys(key, n)
<1>1. n \in Nat /\ (p # <<>> <=> n > 0)
  <2>1. p \in Seq(Format!Range(p))
    BY DEF Format!List
  <2> QED
    BY <2>1, EmptySeq
<1>2. ASSUME NEW i \in 1..n, p[i] # <<>> PROVE key[i] \in Seq(U) /\ key[i] # <<>>
  <2> PICK m : m = Len(p[i])
    OBVIOUS
  <2>1. p[i] \in Seq(Format!Range(p[i]))
    BY DEF Format!List
  <2>2. m \in Nat /\ m > 0
    BY <1>2, <2>1, EmptySeq
  <2> PICK s : s = Format!Key(p[i])
    OBVIOUS
  <2>3. s = [j \in 1..m |-> s[j]] /\ DOMAIN s = 1..m
    <3> PICK x : x = p[i]
      OBVIOUS
    <3>1. Format!Key(x) = [j \in 1..Len(x) |-> Fold[x[j]]]
      BY DEF Format!Key
    <3>2. Len(x) = m /\ s = Format!Key(x)
      OBVIOUS
    <3>3. s = [j \in 1..m |-> Fold[x[j]]]
      BY ONLY <3>1, <3>2
    <3> QED
      BY ONLY <3>3
  <2>4. \A j \in 1..m : s[j] \in Format!Range(s)
    BY <2>3 DEF Format!Range
  <2>5. s \in Seq(Format!Range(s)) /\ Len(s) = m
    <3> PICK V : V = Format!Range(s)
      OBVIOUS
    <3>1. m \in Nat /\ s \in [1..m -> V]
      BY <2>2, <2>3, <2>4
    <3>2. s \in Seq(V) /\ Len(s) = m
      BY ONLY <3>1
    <3> QED
      BY <3>2
  <2>6. Format!Range(s) \subseteq U
    OBVIOUS
  <2> HIDE DEF U
  <2>7. s \in Seq(U) /\ s # <<>>
    BY <2>2, <2>5, <2>6, EmptySeq
  <2> QED
    BY <2>7
<1>3. Valid => (Clear <=> Apart)
  <2> SUFFICES ASSUME Valid PROVE Clear <=> Apart
    OBVIOUS
  <2>0. \A i \in 1..n : p[i] # <<>>
    BY DEF Format!ValidSelector
  <2>1. \A i \in 1..n : key[i] \in Seq(U) /\ key[i] # <<>>
    BY <1>2, <2>0
  <2>2. key = [i \in 1..n |-> key[i]]
    OBVIOUS
  <2> PICK k : k = key
    OBVIOUS
  <2>3. Clear <=> \A i, j \in 1..n : i # j => ~Format!IsPrefix(k[i], k[j])
    <3>1. k = [i \in 1..n |-> k[i]] /\ \A i \in 1..n : k[i] \in Seq(U) /\ k[i] # <<>>
      BY <2>1, <2>2
    <3> HIDE DEF key, U
    <3>2. ClearKeys(k, n) <=> \A i, j \in 1..n : i # j => ~Format!IsPrefix(k[i], k[j])
      BY ONLY <1>1, <3>1, DistinctIs
    <3> QED
      BY <3>2
  <2>4. \A i, j \in 1..n : Format!Overlap(p[i], p[j]) <=> Format!IsPrefix(k[i], k[j])
    <3>1. \A i \in 1..n : k[i] = Format!Key(p[i])
      OBVIOUS
    <3> QED
      BY <3>1 DEF Format!Overlap
  <2> HIDE DEF key, U
  <2> QED
    BY <2>3, <2>4
<1>4. Format!Selected(p)
         = IF p # <<>> /\ n <= MaxSelected /\ Valid /\ Clear THEN Format!Range(p) ELSE Nothing
  <2> DEFINE keys == {Format!Key(p[i]) : i \in 1..n}
  <2>1. {key[i] : i \in 1..n} = keys
    OBVIOUS
  <2>2. (\A k \in keys : Format!Looked(k) \cap keys = {})
           <=> \A i \in 1..n : Format!Ancestors(key[i]) \cap keys = {}
    BY DEF Format!Looked
  <2> QED
    BY <2>1, <2>2 DEF Format!Selected, ClearKeys
<1>v. Valid <=> \A i \in 1..n : /\ Len(p[i]) \in 1..MaxSelectedDepth
                               /\ Format!Range(p[i]) \cap BadNamePart = {}
                               /\ Format!PathBytes(p[i]) <= MaxSelectedBytes
  <2>1. ASSUME NEW i \in 1..n
        PROVE  p[i] # <<>> /\ Len(p[i]) <= MaxSelectedDepth <=> Len(p[i]) \in 1..MaxSelectedDepth
    <3> PICK m : m = Len(p[i])
      OBVIOUS
    <3>1. p[i] \in Seq(Format!Range(p[i]))
      BY DEF Format!List
    <3>2. m \in Nat /\ (p[i] # <<>> <=> m > 0)
      BY <3>1, EmptySeq
    <3> QED
      BY <3>2
  <2> QED
    BY <2>1 DEF Format!ValidSelector
<1> HIDE DEF key, U, Valid, Clear, Apart
<1>5. (Format!Selected(p) # Nothing) <=> n \in 1..MaxSelected /\ Valid /\ Apart
  <2>1. Format!Range(p) # Nothing
    OBVIOUS
  <2>2. (Format!Selected(p) # Nothing) <=> p # <<>> /\ n <= MaxSelected /\ Valid /\ Clear
    BY <1>4, <2>1
  <2>3. p # <<>> /\ n <= MaxSelected <=> n \in 1..MaxSelected
    BY <1>1
  <2> QED
    BY <1>3, <2>2, <2>3
<1> QED
  BY <1>5, <1>v DEF Format!Named, Apart

\* A name that ends in another one.
LEMMA SuffixIs ==
    ASSUME NEW U, NEW s \in Seq(U), NEW t \in Seq(U), t # <<>>, Format!Ends(s, t)
    PROVE  Len(s) > Len(t) /\ Len(t) > 0 /\ Format!Last(s) = Format!Last(t)
<1> PICK n : n = Len(s)
  OBVIOUS
<1> PICK m : m = Len(t)
  OBVIOUS
<1>1. n \in Nat /\ m \in Nat /\ m > 0
  BY EmptySeq
<1> PICK a : a = Format!Reverse(s)
  OBVIOUS
<1> PICK b : b = Format!Reverse(t)
  OBVIOUS
<1>2. n > m /\ Format!IsPrefix(b, a)
  BY DEF Format!Ends, Format!IsSuffix
<1>3. a = [i \in 1..n |-> s[(n - i) + 1]] /\ b = [i \in 1..m |-> t[(m - i) + 1]]
  BY DEF Format!Reverse
<1>4. a \in Seq(U) /\ Len(a) = n /\ b \in Seq(U) /\ Len(b) = m
  <2>1. \A i \in 1..n : (n - i) + 1 \in 1..n
    BY <1>1
  <2>2. \A i \in 1..m : (m - i) + 1 \in 1..m
    BY <1>1
  <2> QED
    BY <1>1, <1>3, <2>1, <2>2
<1>5. SubSeq(a, 1, m) = b
  BY <1>2, <1>4, PrefixIs
<1>6. a[1] = b[1]
  <2>1. SubSeq(a, 1, m)[1] = a[1]
    BY <1>1, <1>2, <1>4
  <2> QED
    BY <1>5, <2>1
<1>7. a[1] = s[n] /\ b[1] = t[m]
  <2>1. (n - 1) + 1 = n /\ (m - 1) + 1 = m /\ 1 \in 1..n /\ 1 \in 1..m
    BY <1>1, <1>2
  <2> QED
    BY <1>3, <2>1
<1> QED
  BY <1>1, <1>2, <1>6, <1>7 DEF Format!Last

\* A name without its last part, and that part.
LEMMA FrontAndLast ==
    ASSUME NEW U, NEW s \in Seq(U), Len(s) > 1
    PROVE  /\ Format!Front(s) \o <<Format!Last(s)>> = s
           /\ Format!Front(s) = SubSeq(s, 1, Len(s) - 1)
<1> PICK n : n = Len(s)
  OBVIOUS
<1>1. n \in Nat /\ n > 1
  OBVIOUS
<1> PICK f : f = SubSeq(s, 1, n - 1)
  OBVIOUS
<1>2. Format!Front(s) = f /\ Format!Last(s) = s[n] /\ s[n] \in U
  BY <1>1 DEF Format!Front, Format!Last
<1>3. f = [i \in 1..(n - 1) |-> s[i]] /\ f \in Seq(U) /\ Len(f) = n - 1
  BY <1>1
<1>4. Append(f, s[n]) = s
  <2> PICK t : t = Append(f, s[n])
    OBVIOUS
  <2>1. t \in Seq(U) /\ Len(t) = n /\ t[n] = s[n] /\ \A i \in 1..(n - 1) : t[i] = f[i]
    BY <1>1, <1>2, <1>3, AppendProperties
  <2>2. \A i \in 1..n : t[i] = s[i]
    BY <1>1, <1>3, <2>1
  <2>3. t = [i \in 1..n |-> t[i]] /\ s = [i \in 1..n |-> s[i]]
    BY <1>1, <2>1
  <2> QED
    BY <2>2, <2>3
<1>5. f \o <<s[n]>> = Append(f, s[n])
  BY <1>2, <1>3, AppendIsConcat
<1> QED
  BY <1>2, <1>4, <1>5

\* The name made of another one is always valid.
LEMMA BaseIsSafe ==
    ASSUME NEW s, "archive" \notin BadNamePart \cup Device
    PROVE  /\ Format!SafeName(Format!SafeBase(s))
           /\ Format!SafeBase(s) = s \/ Format!SafeBase(s) = <<"archive">>
<1> PICK a : a = <<"archive">>
  OBVIOUS
<1>1. Format!SafeName(a)
  <2>1. Format!Range(a) = {"archive"} /\ Format!Last(a) = "archive" /\ a[1] = "archive"
    BY DEF Format!Range, Format!Last
  <2>2. "archive" # ""
    OBVIOUS
  <2> QED
    BY <2>1, <2>2 DEF Format!SafeName
<1> QED
  BY <1>1 DEF Format!SafeBase

\* A stream loses its extension and no more.
LEMMA StreamIsNamed ==
    ASSUME NEW name, Format!List(name), "archive" \notin BadNamePart \cup Device,
           \A e \in RawCompound \cup RawExtension \cup BaseCompound : Format!List(e) /\ e # <<>>,
           \A e \in RawExtension : Len(e) = 1,
           \A e \in BaseCompound : e \in RawCompound \/ <<Format!Last(e)>> \notin RawExtension,
           NEW f, f = Format!RawFilter(name), f # Nothing
    PROVE  \/ Format!BaseName(name) = <<"archive">>
           \/ Format!BaseName(name) \o f = name
<1> DEFINE endings == {e \in RawExtension : Format!Longer(name, e)}
           compound == {e \in BaseCompound : Format!Longer(name, e)}
<1>1. (\A e \in RawCompound : ~Format!Ends(name, e)) /\ f \in endings
  BY DEF Format!RawFilter
<1>2. f \in RawExtension /\ Len(f) = 1 /\ Format!Ends(name, f) /\ Format!Stripped(name, f) # <<"">>
  BY <1>1 DEF Format!Longer
<1> DEFINE U == Format!Range(name)
                \cup UNION {Format!Range(e) : e \in RawExtension \cup BaseCompound}
<1>3. name \in Seq(U) /\ \A e \in RawExtension \cup BaseCompound : e \in Seq(U)
  <2>1. name \in Seq(Format!Range(name))
    BY DEF Format!List
  <2>2. ASSUME NEW e \in RawExtension \cup BaseCompound PROVE e \in Seq(U)
    <3>1. e \in Seq(Format!Range(e)) /\ Format!Range(e) \subseteq U
      BY DEF Format!List
    <3> HIDE DEF U
    <3> QED
      BY <3>1
  <2>3. Format!Range(name) \subseteq U
    OBVIOUS
  <2> HIDE DEF U
  <2> QED
    BY <2>1, <2>2, <2>3
<1> HIDE DEF U
<1>4. f \in Seq(U) /\ f # <<>>
  BY <1>2, <1>3
<1>5. Len(name) > 1 /\ Format!Last(name) = Format!Last(f) /\ Len(name) \in Nat
  <2>1. Len(name) > Len(f) /\ Format!Last(name) = Format!Last(f)
    BY <1>2, <1>3, <1>4, SuffixIs
  <2>2. Len(name) \in Nat
    BY <1>3
  <2> QED
    BY ONLY <1>2, <2>1, <2>2
<1>6. f = <<Format!Last(name)>>
  <2>1. f \in Seq(U) /\ Len(f) = 1
    BY <1>2, <1>4
  <2>2. f = <<f[1]>>
    BY ONLY <2>1
  <2> QED
    BY <1>2, <1>5, <2>2 DEF Format!Last
<1>7. compound = {}
  <2> SUFFICES ASSUME NEW e \in compound PROVE FALSE
    OBVIOUS
  <2>1. e \in BaseCompound /\ Format!Ends(name, e) /\ e \in Seq(U) /\ e # <<>>
    BY <1>3 DEF Format!Longer
  <2>2. Format!Last(name) = Format!Last(e)
    BY <1>3, <2>1, SuffixIs
  <2>3. <<Format!Last(e)>> \notin RawExtension
    BY <1>1, <2>1
  <2> QED
    BY <1>2, <1>6, <2>2, <2>3
<1> PICK g : g = Format!Front(name)
  OBVIOUS
<1>8. g \o f = name /\ g = SubSeq(name, 1, Len(name) - 1)
  BY <1>3, <1>5, <1>6, FrontAndLast
<1>9. g # <<"">>
  BY <1>2, <1>8 DEF Format!Stripped
<1>10. Format!Stem(name) = g
  <2>1. Len(name) # 1
    <3> PICK l : l = Len(name)
      OBVIOUS
    <3>1. l > 1 /\ l \in Nat
      BY ONLY <1>5, l = Len(name)
    <3>2. l # 1
      BY ONLY <3>1
    <3> QED
      BY <3>2
  <2> QED
    BY <1>9, <2>1 DEF Format!Stem
<1>11. Format!BaseName(name) = Format!SafeBase(g)
  BY <1>7, <1>10 DEF Format!BaseName
<1> QED
  BY <1>8, <1>11, BaseIsSafe

\* The destination is the first of the names that is free.
LEMMA DestinationIsFirst ==
    ASSUME NEW m \in Nat, m = MaxIndex, NEW t
    PROVE  \A i \in 0..(m - 1) :
              Format!Destination(t) = i <=> i \notin t /\ 0..(i - 1) \subseteq t
<1> DEFINE free == 0..(m - 1) \ t
<1> PICK d : d = Format!Destination(t)
  OBVIOUS
<1>1. d = IF free = {} THEN -1 ELSE Format!Min(free)
  BY DEF Format!Destination
<1>2. CASE free = {}
  <2>1. d = -1
    BY <1>1, <1>2
  <2>2. \A i \in 0..(m - 1) : i \in t /\ d # i
    BY <1>2, <2>1
  <2> QED
    BY <2>2
<1>3. CASE free # {}
  <2>1. free \subseteq Nat
    OBVIOUS
  <2>2. d \in free /\ \A j \in free : d =< j
    <3>1. d = CHOOSE x \in free : \A j \in free : x =< j
      BY <1>1, <1>3 DEF Format!Min
    <3>2. \E x \in free : \A j \in free : x =< j
      <4> HIDE DEF free
      <4> QED
        BY <1>3, <2>1, Smallest
    <3> QED
      BY <3>1, <3>2
  <2>3. ASSUME NEW i \in 0..(m - 1), d = i PROVE i \notin t /\ 0..(i - 1) \subseteq t
    <3>1. i \notin t
      BY <2>2, <2>3
    <3>2. ASSUME NEW j \in 0..(i - 1), j \notin t PROVE FALSE
      <4>1. j \in free /\ ~(d =< j)
        BY <2>3, <3>2
      <4> QED
        BY <2>2, <4>1
    <3> QED
      BY <3>1, <3>2
  <2>4. ASSUME NEW i \in 0..(m - 1), i \notin t, 0..(i - 1) \subseteq t PROVE d = i
    <3>1. i \in free /\ d =< i
      BY <2>2, <2>4
    <3>2. ~(d < i)
      <4>1. d < i => d \in 0..(i - 1)
        BY <2>2
      <4> QED
        BY <2>2, <2>4, <4>1
    <3> QED
      BY <2>1, <2>2, <3>1, <3>2
  <2> QED
    BY <2>3, <2>4
<1> QED
  BY <1>2, <1>3

\* The names that are made from an archive are exact.
LEMMA NameEnds ==
    ASSUME Format!FormatConstants, NEW q \in Questions, q.kind = "name", NEW a,
           a = [base |-> Format!BaseName(q.name), filter |-> Format!RawFilter(q.name),
                index |-> Format!Destination(q.taken)]
    PROVE  Format!Named(q, a)
<1> PICK name : name = q.name
  OBVIOUS
<1>1. /\ MaxIndex \in Nat /\ Format!List(name) /\ "archive" \notin BadNamePart \cup Device
      /\ \A e \in RawCompound \cup RawExtension \cup BaseCompound : Format!List(e) /\ e # <<>>
      /\ \A e \in RawExtension : Len(e) = 1
      /\ \A e \in BaseCompound : e \in RawCompound \/ <<Format!Last(e)>> \notin RawExtension
  BY DEF Format!FormatConstants, Format!Asked
<1>2. /\ a.base = Format!BaseName(name) /\ a.filter = Format!RawFilter(name)
      /\ a.index = Format!Destination(q.taken)
  OBVIOUS
<1>3. Format!SafeName(Format!BaseName(name))
  BY <1>1, BaseIsSafe DEF Format!BaseName
<1>4. a.filter # Nothing => a.base = <<"archive">> \/ a.base \o a.filter = name
  BY <1>1, <1>2, StreamIsNamed
<1>5. \A i \in 0..(MaxIndex - 1) :
         a.index = i <=> i \notin q.taken /\ 0..(i - 1) \subseteq q.taken
  BY <1>1, <1>2, DestinationIsFirst
<1> QED
  BY <1>2, <1>3, <1>4, <1>5 DEF Format!Named

-----------------------------------------------------------------------------
\* What has been answered.
AnswerIs(q, a) ==
    /\ q.kind = "command" => a = Format!Encoded(q.arguments)
    /\ q.kind = "bytes" => a = Format!Parsed(q.text)
    /\ q.kind = "password" => a = Format!Prepared(q.units)
    /\ q.kind = "select" => a = Format!Selected(q.paths)
    /\ q.kind = "name" =>
          a = [base |-> Format!BaseName(q.name), filter |-> Format!RawFilter(q.name),
               index |-> Format!Destination(q.taken)]
FormatInv ==
    /\ question \in Questions
    /\ question.kind = "record" => RecordIs(question.body, length, answer)
    /\ answer # Pending => AnswerIs(question, answer)

\* The body of a record that is asked for is below 10^9.
LEMMA RecordAsked ==
    ASSUME Format!FormatConstants, NEW q \in Questions, q.kind = "record"
    PROVE  q.body \in Nat /\ q.body < Powers[9]
<1>1. q.body \in Nat /\ q.body < 10^9
  BY DEF Format!FormatConstants, Format!Asked
<1>2. Powers[9] = 10^9
  BY DEF Powers
<1> QED
  BY <1>1, <1>2

\* A question that has no answer yet.
LEMMA FormatInit ==
    ASSUME Format!FormatConstants, Format!Init
    PROVE  FormatInv
<1>1. question \in Questions /\ answer = Pending
  BY DEF Format!Init
<1>2. question.kind = "record" => RecordIs(question.body, length, answer)
  <2> SUFFICES ASSUME question.kind = "record" PROVE RecordIs(question.body, length, answer)
    OBVIOUS
  <2>1. length = question.body + 2
    BY DEF Format!Init
  <2> QED
    BY <1>1, <2>1, RecordAsked, RecordStarts
<1> QED
  BY <1>1, <1>2 DEF FormatInv

\* Every step answers the question that was asked, and keeps the loop below its end.
LEMMA FormatStep ==
    ASSUME FormatInv, [Format!Next]_formatVars
    PROVE  FormatInv'
<1>1. CASE UNCHANGED formatVars
  BY <1>1 DEF FormatInv, formatVars
<1>2. CASE Format!Next
  <2>0. answer = Pending /\ question' = question /\ question \in Questions
    BY <1>2 DEF Format!Next, FormatInv
  <2>1. CASE Format!AdjustLength
    <3>1. RecordIs(question.body, length, Pending) /\ question.kind = "record"
      BY <2>0, <2>1 DEF FormatInv, Format!AdjustLength
    <3>2. /\ length' = Format!Adjusted(question.body, length)
          /\ answer' = IF length' = length THEN length ELSE Pending
      BY <2>0, <2>1 DEF Format!AdjustLength
    <3>3. RecordIs(question.body, length', answer')
      BY <3>1, <3>2, RecordGrows
    <3>4. AnswerIs(question, answer')
      BY <3>1 DEF AnswerIs
    <3> QED
      BY <2>0, <3>3, <3>4 DEF FormatInv
  <2>2. CASE Format!Encode
    BY <2>0, <2>2 DEF FormatInv, AnswerIs, Format!Encode
  <2>3. CASE Format!Parse
    BY <2>0, <2>3 DEF FormatInv, AnswerIs, Format!Parse
  <2>4. CASE Format!Transport
    BY <2>0, <2>4 DEF FormatInv, AnswerIs, Format!Transport
  <2>5. CASE Format!Select
    BY <2>0, <2>5 DEF FormatInv, AnswerIs, Format!Select
  <2>6. CASE Format!NameOutput
    BY <2>0, <2>6 DEF FormatInv, AnswerIs, Format!NameOutput
  <2> QED
    BY <1>2, <2>1, <2>2, <2>3, <2>4, <2>5, <2>6 DEF Format!Next
<1> QED
  BY <1>1, <1>2

FormatHalf == half = "format" => FormatInv

\* The formats keep their invariant in every behaviour of the components.
LEMMA FormatHolds ==
    ASSUME Format!FormatConstants
    PROVE  Spec => []FormatHalf
<1>1. Init => FormatHalf
  BY FormatInit DEF Init, FormatHalf
<1>2. FormatHalf /\ [Next]_vars => FormatHalf'
  <2>1. ASSUME [Next]_vars PROVE half' = half /\ (half = "format" => [Format!Next]_formatVars)
    BY <2>1 DEF Next, vars
  <2> QED
    BY <2>1, FormatStep DEF FormatHalf
<1> QED
  BY <1>1, <1>2, PTL DEF Spec

\* What the program writes to be read elsewhere is read back as what was meant, for lists
\* and numbers of any size: the command line of the backend, the length of a PAX record,
\* the limits in the settings form, and the password on its way to the dialog and back.
THEOREM FormatsAreReadBack ==
    ASSUME Format!FormatConstants
    PROVE  Spec => []FormatsRoundTrip
<1>1. FormatHalf => FormatsRoundTrip
  <2> SUFFICES ASSUME FormatInv, answer # Pending PROVE Format!RoundTrips(question, answer)
    BY DEF FormatHalf, FormatsRoundTrip, Format!FormatsRoundTrip
  <2>0. question \in Questions /\ AnswerIs(question, answer) /\ Format!Asked(question)
    BY DEF FormatInv, Format!FormatConstants
  <2>1. CASE question.kind = "command"
    <3>1. /\ Format!List(question.arguments) /\ answer = Format!Encoded(question.arguments)
          /\ \A i \in 1..Len(question.arguments) : Format!List(question.arguments[i])
      BY <2>0, <2>1 DEF Format!Asked, AnswerIs
    <3>2. answer # Nothing => Format!Split(answer) = <<<<"x">>>> \o question.arguments
      BY <3>1, CommandLines
    <3> QED
      BY <2>1, <3>2 DEF Format!RoundTrips
  <2>2. CASE question.kind = "record"
    BY <2>2, RecordEnds DEF FormatInv
  <2>3. CASE question.kind = "bytes"
    <3>1. /\ question.text.count \in Nat /\ question.text.unit \in 0..4
          /\ answer = Format!Parsed(question.text)
      BY <2>0, <2>3 DEF Format!Asked, AnswerIs
    <3>2. Kilo \in Nat /\ Kilo > 1 /\ MaxNumber \in Nat
      BY DEF Format!FormatConstants
    <3> QED
      BY <2>3, <3>1, <3>2, BytesEnd
  <2>4. CASE question.kind = "password"
    <3>1. /\ Format!List(question.units) /\ Append(question.units, "cr") # Nothing
          /\ answer = Format!Prepared(question.units)
      BY <2>0, <2>4 DEF Format!Asked, AnswerIs
    <3>2. MaxPassword \in Nat
      BY DEF Format!FormatConstants
    <3> QED
      BY <2>4, <3>1, <3>2, PasswordEnds
  <2>5. CASE question.kind \notin {"command", "record", "bytes", "password"}
    BY <2>5 DEF Format!RoundTrips
  <2> QED
    BY <2>1, <2>2, <2>3, <2>4, <2>5
<1> QED
  BY <1>1, FormatHolds, PTL

\* The names that the program makes or accepts, for any paths, any name of an archive and
\* any files that are there: a selection is accepted exactly if it has paths and not too
\* many, their parts are good, each is within the depth and the bytes, and no two of them
\* are one or lie in one another; a stream loses only its extension, the made name is one
\* the policy accepts, and the destination is the first that is free.
THEOREM MadeNamesAreExact ==
    ASSUME Format!FormatConstants
    PROVE  Spec => []NamesAreExact
<1>1. FormatHalf => NamesAreExact
  <2> SUFFICES ASSUME FormatInv, answer # Pending PROVE Format!Named(question, answer)
    BY DEF FormatHalf, NamesAreExact, Format!NamesAreExact
  <2>0. question \in Questions /\ AnswerIs(question, answer) /\ Format!Asked(question)
    BY DEF FormatInv, Format!FormatConstants
  <2>1. CASE question.kind = "select"
    <3>1. /\ Format!List(question.paths) /\ Format!Range(question.paths) # Nothing
          /\ \A i \in 1..Len(question.paths) : Format!List(question.paths[i])
          /\ answer = Format!Selected(question.paths)
      BY <2>0, <2>1 DEF Format!Asked, AnswerIs
    <3>2. MaxSelected \in Nat /\ MaxSelectedDepth \in Nat
      BY DEF Format!FormatConstants
    <3> QED
      BY <2>1, <3>1, <3>2, SelectionEnds
  <2>2. CASE question.kind = "name"
    <3>1. answer =
           [base |-> Format!BaseName(question.name), filter |-> Format!RawFilter(question.name),
            index |-> Format!Destination(question.taken)]
      BY <2>0, <2>2 DEF AnswerIs
    <3> QED
      BY <2>0, <2>2, <3>1, NameEnds
  <2>3. CASE question.kind \notin {"select", "name"}
    BY <2>3 DEF Format!Named
  <2> QED
    BY <2>1, <2>2, <2>3
<1> QED
  BY <1>1, FormatHolds, PTL
=============================================================================
