------------------------------ MODULE Placement ------------------------------
(***************************************************************************)
(* Where the windows are put: the fence while the main window is dragged   *)
(* (OnMoving in src/source/src/main.cpp), its place after it was resized   *)
(* (resize), and the key window at the cursor (move_to_cursor in           *)
(* key_window.h).                                                          *)
(*                                                                         *)
(* The two axes are alike, and a definition is about one of them: lo and   *)
(* hi are the ends of the monitor the system names for the window, n is    *)
(* the window's size, and a place is that of its left or top edge.  They   *)
(* are integers far from the limits of their width.                        *)
(***************************************************************************)
EXTENDS Integers

\* OnMoving: the window follows the mouse from where the drag began; both tests look
\* at that place, and the later one wins.
Dragged(start, mouse, p) == start + (p - mouse)
Fenced(corner, n, lo, hi) ==
  LET afterLow == IF corner < lo THEN lo ELSE corner
  IN  IF corner > hi - n THEN hi - n ELSE afterLow

\* resize, after width and height, which keep the left and the top edge.
Shift(at, n, lo, hi) ==
  IF at > hi - n THEN at - (hi - n) ELSE IF at < lo THEN at - lo ELSE 0
Resized(at, n, lo, hi) == at - Shift(at, n, lo, hi)

\* Half of an integer, rounded towards zero.
Half(x) == IF x >= 0 THEN x \div 2 ELSE -((-x) \div 2)

\* move_to_cursor: the middle of the window goes to the cursor.
CursorShift(at, n, cursor, lo, hi) ==
  LET shift == cursor - Half(at + (at + n))
  IN  IF at + shift > hi - n THEN hi - n - at
      ELSE IF at + shift < lo THEN lo - at ELSE shift
MovedToCursor(at, n, cursor, lo, hi) == at + CursorShift(at, n, cursor, lo, hi)

-----------------------------------------------------------------------------
(* Properties *)

Inside(x, n, lo, hi) == lo <= x /\ x + n <= hi
Distance(x, y) == IF x < y THEN y - x ELSE x - y

\* No place in the monitor is nearer to w than x is.
Nearest(x, w, n, lo, hi) ==
  \A y \in Int : Inside(y, n, lo, hi) => Distance(x, w) <= Distance(y, w)
=============================================================================
