--------------------------- MODULE SettingsScroll ---------------------------
(***************************************************************************)
(* Scrolling, focus and DPI changes of the settings window                 *)
(* (bin/iroha-zip-settings.rs).  The controls are laid out in logical      *)
(* units of a 96-DPI page; the window shows a part of it.                  *)
(*                                                                         *)
(* Messages that are sent reach window_proc at once, also from inside a    *)
(* handler; only those taken from the queue by the message loop are        *)
(* followed by ensure_focus_visible.  update_scrollbar is such a handler:  *)
(* when a bar it writes appears or disappears, the client area changes and *)
(* WM_SIZE runs a second update before the first one goes on.              *)
(***************************************************************************)
EXTENDS Integers, FiniteSets, Sequences

CONSTANTS
    Control,       \* the controls
    Layout,        \* their place: Control -> Axis -> first, size
    Content,       \* Axis -> the length of the page
    Dpis,          \* the densities of the monitors, 96 the smallest
    Page,          \* Axis -> the lengths the client area can have
    Thumb,         \* where the user can drag a scrollbar
    NoControl,     \* the focus is elsewhere
    MaxMessages    \* bound on the messages

BASE_DPI == 96

Axis == {"x", "y"}

Min2(a, b) == IF a < b THEN a ELSE b
Max2(a, b) == IF a > b THEN a ELSE b
Clamp(v, low, high) == Min2(Max2(v, low), high)

\* Division towards zero, as Rust's.
Quotient(n, d) == IF n >= 0 THEN n \div d ELSE -((-n) \div d)

\* scale_logical, scale_between_dpi: rounded to the nearest, halves away from 0.
Rounded(n, d) ==
    IF n >= 0 THEN Quotient(n + d \div 2, d) ELSE Quotient(n - d \div 2, d)
ScaleLogical(value, density) == Rounded(value * Max2(density, BASE_DPI), BASE_DPI)
ScaleBetween(value, source, target) ==
    Rounded(value * Max2(target, BASE_DPI), Max2(source, BASE_DPI))

\* What the constants must be.  Every control ends before the page does; one that
\* ended with it could be cut off by a pixel when the two are rounded.
LayoutConstants ==
    /\ NoControl \notin Control
    /\ Dpis \subseteq Nat /\ \A d \in Dpis : d >= BASE_DPI
    /\ Page \in [Axis -> SUBSET (Nat \ {0})]
    /\ Thumb \subseteq Int
    /\ Content \in [Axis -> Nat \ {0}]
    /\ Layout \in [Control -> [Axis -> [first : Nat, size : Nat \ {0}]]]
    /\ \A c \in Control, a \in Axis :
          Layout[c][a].first + Layout[c][a].size < Content[a]
    /\ MaxMessages \in Nat

VARIABLES
    dpi,         \* App.dpi
    page,        \* the client area
    scroll,      \* scroll_x and scroll_y
    bar,         \* range, nPage and nPos of the two scrollbars, as Windows has them
    place,       \* where each control is, and its size, in the client area
    focus,       \* GetFocus
    failed,      \* a relayout stopped in the middle
    messages,
    \* The calls that are under way, innermost first: update_scrollbar at its start,
    updating,
    heights,     \* those about to write the vertical bar, by the page height they read,
    relayout,    \* and a change of the density before its layout_controls.
    interrupted  \* history: a horizontal bar came or went since the last message

vars == <<dpi, page, scroll, bar, place, focus, failed, messages, updating, heights, relayout,
          interrupted>>

-----------------------------------------------------------------------------
\* The handlers are functions of the state of the window as a record.
WindowState == [dpi |-> dpi, page |-> page, scroll |-> scroll, bar |-> bar, place |-> place]

Largest(w, a) == Max2(ScaleLogical(Content[a], w.dpi) - w.page[a], 0)

\* SetScrollInfo keeps the page within the range and the position before the last
\* page; a bar whose page is all of its range is not shown.
Bar(range, length, pos) ==
    LET shown == Min2(length, range)
    IN  [range |-> range, page |-> shown, pos |-> Min2(pos, range - shown)]
Shown(b) == b.page < b.range

\* scroll_vertical_to, scroll_horizontal_to: ScrollWindowEx moves the children.
ScrollTo(w, a, requested) ==
    LET target == Clamp(requested, 0, Largest(w, a))
        moved == w.scroll[a] - target
        set == Bar(w.bar[a].range, w.bar[a].page, target)
    IN  [w EXCEPT !.scroll = [w.scroll EXCEPT ![a] = target],
                  !.bar = [w.bar EXCEPT ![a] = set],
                  !.place = [c \in Control |-> [w.place[c] EXCEPT ![a].first = @ + moved]]]

\* A fault: the position is set where the clamp was meant, the children stay.
WithinOnly(w, a) == [w EXCEPT !.scroll[a] = Min2(@, Largest(w, a))]

\* update_scrollbar: the position goes back to the end of a page that has shrunk ...
Within(w, a) == IF w.scroll[a] > Largest(w, a) THEN ScrollTo(w, a, Largest(w, a)) ELSE w

\* ... and a bar gets its range, its page and its position.
WriteBar(w, a, length) ==
    [w EXCEPT !.bar =
        [w.bar EXCEPT ![a] = Bar(ScaleLogical(Content[a], w.dpi), length, w.scroll[a])]]

\* layout_controls, of some of the controls when it fails.
LayOut(w, some) ==
    [w EXCEPT !.place =
        [c \in Control |->
            IF c \in some
            THEN [a \in Axis |->
                    [first |-> ScaleLogical(Layout[c][a].first, w.dpi) - w.scroll[a],
                     size |-> ScaleLogical(Layout[c][a].size, w.dpi)]]
            ELSE @[c]]]

\* A fault: a control below the page is brought to where it starts.
RevealStart(w, a, c) ==
    LET first == w.place[c][a].first
    IN  IF first < 0 \/ first >= w.page[a]
        THEN ScrollTo(w, a, w.scroll[a] + first) ELSE w

\* ensure_focus_visible, on one axis: the sides come from before any scrolling.
Reveal(w, a, c) ==
    LET first == w.place[c][a].first
        last == first + w.place[c][a].size
        margin == Max2(ScaleLogical(12, w.dpi), 1)
    IN  IF first < margin THEN ScrollTo(w, a, w.scroll[a] + first - margin)
        ELSE IF last > w.page[a] - margin
        THEN ScrollTo(w, a, w.scroll[a] + last - w.page[a] + margin)
        ELSE w

EnsureFocusVisible(w, c) ==
    IF c = NoControl THEN w ELSE Reveal(Reveal(w, "x", c), "y", c)

Become(w) ==
    /\ dpi' = w.dpi /\ page' = w.page /\ scroll' = w.scroll
    /\ bar' = w.bar /\ place' = w.place

Idle == ~updating /\ heights = <<>> /\ ~relayout

Message == Idle /\ messages < MaxMessages /\ messages' = messages + 1

\* What a handler leaves that writes the position of the bars only.
Quiet == UNCHANGED <<failed, updating, heights, relayout, interrupted>>

-----------------------------------------------------------------------------
\* create_controls: add_control places them as layout_controls would, in a window
\* whose two bars are shown with the standard range, and updates the bars.
Init ==
    /\ dpi \in Dpis
    /\ \E x \in Page["x"], y \in Page["y"] : page = [a \in Axis |-> IF a = "x" THEN x ELSE y]
    /\ scroll = [a \in Axis |-> 0]
    /\ bar = [a \in Axis |-> [range |-> 101, page |-> 0, pos |-> 0]]
    /\ place = [c \in Control |->
                   [a \in Axis |-> [first |-> ScaleLogical(Layout[c][a].first, dpi),
                                   size |-> ScaleLogical(Layout[c][a].size, dpi)]]]
    /\ focus = NoControl
    /\ failed = FALSE
    /\ messages = 0
    /\ updating = TRUE /\ heights = <<>> /\ relayout = FALSE
    /\ interrupted = FALSE

\* A bar that comes takes from the client area on the other axis, one that goes
\* gives it back; the WM_SIZE this sends is handled before SetScrollInfo returns.
WriteAndResize(w, a, length, other) ==
    LET written == WriteBar(w, a, length)
        shown == Shown(written.bar[a])
    IN  IF shown = Shown(w.bar[a]) THEN Become(written) /\ updating' = FALSE
        ELSE /\ \E extent \in Page[other] :
                  /\ IF shown THEN extent <= w.page[other] ELSE extent >= w.page[other]
                  /\ Become([written EXCEPT !.page = [w.page EXCEPT ![other] = extent]])
             /\ updating' = TRUE

\* update_scrollbar up to its first SetScrollInfo: the height it has read stays
\* what it is while the horizontal bar is written.
WriteHorizontal ==
    /\ updating
    /\ LET w == Within(Within(WindowState, "x"), "y")
       IN  WriteAndResize(w, "x", w.page["x"], "y")
    /\ heights' = <<page["y"]>> \o heights
    /\ interrupted' = (interrupted \/ updating')
    /\ UNCHANGED <<focus, failed, messages, relayout>>

\* update_scrollbar from there, with the position of now.
WriteVertical ==
    /\ ~updating /\ heights # <<>>
    /\ WriteAndResize(WindowState, "y", Head(heights), "x")
    /\ heights' = Tail(heights)
    /\ UNCHANGED <<focus, failed, messages, relayout, interrupted>>

\* WM_SIZE is sent.
Size ==
    /\ Message
    /\ \E x \in Page["x"], y \in Page["y"] : page' = [a \in Axis |-> IF a = "x" THEN x ELSE y]
    /\ updating' = TRUE
    /\ interrupted' = FALSE
    /\ UNCHANGED <<dpi, scroll, bar, place, focus, failed, heights, relayout>>

\* WM_DPICHANGED is sent.  Setting the position of the window sends WM_SIZE if its
\* size changes, so that the bars are updated before the controls are laid out
\* for the new density.
Rescale(density) ==
    /\ dpi' = density
    /\ scroll' = [a \in Axis |-> ScaleBetween(scroll[a], dpi, density)]

DpiChanged ==
    /\ Message
    /\ \E density \in Dpis \ {dpi} : Rescale(density)
    /\ \E x \in Page["x"], y \in Page["y"] : page' = [a \in Axis |-> IF a = "x" THEN x ELSE y]
    /\ updating' = (page' # page)
    /\ relayout' = TRUE
    /\ failed' = FALSE
    /\ interrupted' = FALSE
    /\ UNCHANGED <<bar, place, focus, heights>>

\* The SetWindowPos of the window fails: the rest is not done.
DpiChangeFails ==
    /\ Message
    /\ \E density \in Dpis \ {dpi} : Rescale(density)
    /\ failed' = TRUE
    /\ UNCHANGED <<page, bar, place, focus, updating, heights, relayout, interrupted>>

\* layout_controls, which is followed by update_scrollbar ...
LayOutControls ==
    /\ relayout /\ ~updating /\ heights = <<>>
    /\ Become(LayOut(WindowState, Control))
    /\ relayout' = FALSE
    /\ updating' = TRUE
    /\ interrupted' = FALSE
    /\ UNCHANGED <<focus, failed, messages, heights>>

\* ... unless the SetWindowPos of a control fails, or the new font.
LayOutFails ==
    /\ relayout /\ ~updating /\ heights = <<>>
    /\ \E some \in SUBSET Control : Become(LayOut(WindowState, some))
    /\ relayout' = FALSE
    /\ failed' = TRUE
    /\ UNCHANGED <<focus, messages, updating, heights, interrupted>>

\* What handle_scroll asks for: a line, a page, an end or the thumb.
Requests(a) ==
    LET line == Max2(ScaleLogical(32, dpi), 1)
        length == Max2(bar[a].page, line)
    IN  {bar[a].pos - line, bar[a].pos + line, bar[a].pos - length, bar[a].pos + length,
         0, Largest(WindowState, a), bar[a].pos} \cup Thumb

\* WM_VSCROLL and WM_HSCROLL are sent while a scrollbar is used ...
ScrollBar ==
    /\ Message
    /\ \E a \in Axis : \E requested \in Requests(a) : Become(ScrollTo(WindowState, a, requested))
    /\ UNCHANGED focus
    /\ Quiet

\* ... WM_MOUSEWHEEL comes from the queue.
Wheel ==
    /\ Message
    /\ \E turn \in {-1, 1} :
          LET line == Max2(ScaleLogical(32, dpi), 1)
          IN  Become(EnsureFocusVisible(
                        ScrollTo(WindowState, "y", scroll["y"] - turn * line * 3), focus))
    /\ UNCHANGED focus
    /\ Quiet

\* Tab, a click or a refused field (focus_field) moves the focus; any other
\* message of the queue leaves it.
QueuedMessage ==
    /\ Message
    /\ focus' \in Control \cup {focus}
    /\ Become(EnsureFocusVisible(WindowState, focus'))
    /\ Quiet

Next ==
    \/ WriteHorizontal \/ WriteVertical
    \/ Size \/ DpiChanged \/ DpiChangeFails \/ LayOutControls \/ LayOutFails
    \/ ScrollBar \/ Wheel \/ QueuedMessage

Spec == Init /\ [][Next]_vars

-----------------------------------------------------------------------------
TypeOK ==
    /\ dpi \in Dpis
    /\ \A a \in Axis : page[a] \in Page[a] /\ scroll[a] \in Nat
    /\ focus \in Control \cup {NoControl}
    /\ failed \in BOOLEAN /\ updating \in BOOLEAN /\ relayout \in BOOLEAN
    /\ heights \in Seq(Nat)

\* Every control is where the one scroll position says, at the current density,
\* whatever mixture of moved children and new layouts has put it there; and once
\* the updates have ended, which run inside each other, the page is within its
\* end, and each bar is there exactly if the page does not fit, with the range of
\* the page and the position as far as its own page allows.  Its page is the
\* client area; only the vertical bar's may be that of before, if the horizontal
\* bar came or went.  A relayout that failed is exempt until the next change of
\* the density.
ControlsFollowScroll ==
    /\ ~failed /\ ~relayout =>
          \A c \in Control, a \in Axis :
             /\ place[c][a].first = ScaleLogical(Layout[c][a].first, dpi) - scroll[a]
             /\ place[c][a].size = ScaleLogical(Layout[c][a].size, dpi)
    /\ ~failed /\ Idle =>
          \A a \in Axis :
             /\ scroll[a] <= Largest(WindowState, a)
             /\ bar[a].range = ScaleLogical(Content[a], dpi)
             /\ Shown(bar[a]) <=> page[a] < bar[a].range
             /\ bar[a].pos = Min2(scroll[a], bar[a].range - bar[a].page)
             /\ bar[a].page = Min2(page[a], bar[a].range) \/ (a = "y" /\ interrupted)

Visible(c) ==
    \A a \in Axis : place[c][a].first >= 0 /\ place[c][a].first + place[c][a].size <= page[a]

Fits(c) ==
    \A a \in Axis : place[c][a].size + 2 * Max2(ScaleLogical(12, dpi), 1) <= page[a]

FocusInView == focus \in Control /\ ~failed /\ Fits(focus) => Visible(focus)

\* After each message of the queue the control with the focus is in view if it
\* fits with its margins, wherever sizes, densities and scrollbars have left the
\* page: "Scrolling and focus tracking keep every field reachable when content
\* does not fit" (README.en.md:252).
FocusIsVisible ==
    [][QueuedMessage \/ Wheel => FocusInView']_vars
=============================================================================
