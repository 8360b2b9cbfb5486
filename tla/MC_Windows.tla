----------------------------- MODULE MC_Windows -----------------------------
\* The fields of a form and the layout of a page, in its real numbers.
EXTENDS Naturals, TLC

CONSTANTS f1, f2
\* A spaced value is shown with its spaces and read without them.
CONSTANTS default, plain, spaced, unread, default_text, plain_text, spaced_text, bad_text
CONSTANT max_directories

Defaults == [f \in {f1, f2} |-> default]
TextOf == (default :> default_text) @@ (plain :> plain_text) @@ (spaced :> spaced_text)
ReadingOf == (default_text :> default) @@ (plain_text :> plain) @@ (spaced_text :> plain)
          @@ (bad_text :> unread)

Place(x, y, width, height) ==
    [a \in {"x", "y"} |-> IF a = "x" THEN [first |-> x, size |-> width]
                          ELSE [first |-> y, size |-> height]]
\* A field that a page can end in front of, in it or behind it, on either axis.
Layouts == max_directories :> Place(194, 312, 222, 25)
Lengths == [x |-> 932, y |-> 720]
\* 940 by 734 needs no scrollbar; with the horizontal one it is 717 high and needs both.
Pages == [x |-> {420, 940}, y |-> {300, 717, 734}]
=============================================================================
