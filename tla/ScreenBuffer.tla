---------------------------- MODULE ScreenBuffer ----------------------------
(***************************************************************************)
(* The output buffer of the server, condrv::ScreenBuffer, as operators on  *)
(* a record: one field for each member that some operation reads back.     *)
(*                                                                         *)
(*   size      the buffer's width x and height y                           *)
(*   cells     the characters, row by row, at 0 .. x * y - 1               *)
(*   cursor    the cursor's position                                       *)
(*   window    the visible part, inclusive edges left, top, right, bottom  *)
(*   attrs     the current text attributes; dflt those of a reset          *)
(*   visible   whether the cursor is shown                                 *)
(*   saved     the state ESC 7 saved, or None                              *)
(*   margins   the scrolling margins top and bottom, or None               *)
(*   delayed   where a wrap is pending, or None                            *)
(*   autowrap, origin, insert    the VT modes                              *)
(*   backup    the main screen while the alternate one is shown, or None   *)
(*                                                                         *)
(* The attributes of the single cells, the cursor's height, the color      *)
(* table, the largest window and the revision counter are left out: no     *)
(* operation of this module decides anything by them.                      *)
(***************************************************************************)
EXTENDS Integers, FiniteSets

CONSTANT None

Blank == " "

At(x, y) == [x |-> x, y |-> y]

Rect(l, t, r, b) == [left |-> l, top |-> t, right |-> r, bottom |-> b]

Clamp(v, low, high) == IF v < low THEN low ELSE IF v > high THEN high ELSE v

Least(a, b) == IF a < b THEN a ELSE b

CoordInRange(b, c) == c.x \in 0 .. b.size.x - 1 /\ c.y \in 0 .. b.size.y - 1

LinearIndex(b, c) == c.y * b.size.x + c.x

CoordOf(b, i) == At(i % b.size.x, i \div b.size.x)

Inside(r, c) == c.x \in r.left .. r.right /\ c.y \in r.top .. r.bottom

BlankCells(size) == [i \in 0 .. size.x * size.y - 1 |-> Blank]

(***************************************************************************)
(* A new buffer: the window is cut to the buffer and moved into it.        *)
(***************************************************************************)
WindowAt(size, w, h, x, y) ==
  LET ww == Least(w, size.x)
      wh == Least(h, size.y)
      left == Clamp(x, 0, size.x - ww)
      top == Clamp(y, 0, size.y - wh)
  IN Rect(left, top, left + ww - 1, top + wh - 1)

NewBuffer(size, windowSize) ==
  [ size |-> size, cells |-> BlankCells(size), cursor |-> At(0, 0),
    window |-> WindowAt(size, windowSize.x, windowSize.y, 0, 0),
    attrs |-> 0, dflt |-> 0, visible |-> TRUE, saved |-> None,
    margins |-> None, delayed |-> None, autowrap |-> TRUE, origin |-> FALSE,
    insert |-> FALSE, backup |-> None ]

-----------------------------------------------------------------------------
(* The window and the cursor. *)

SetWindowRect(b, r) ==
  IF /\ r.left <= r.right /\ r.top <= r.bottom
     /\ r.left >= 0 /\ r.top >= 0
     /\ r.right < b.size.x /\ r.bottom < b.size.y
  THEN [b EXCEPT !.window = r] ELSE b

(***************************************************************************)
(* snap_window_to_cursor: the window moves just enough to show the cursor  *)
(* and keeps its size.                                                     *)
(***************************************************************************)
Snap(b) ==
  LET w == b.window
      width == w.right - w.left + 1
      height == w.bottom - w.top + 1
      left == IF b.cursor.x < w.left THEN b.cursor.x
              ELSE IF b.cursor.x > w.right THEN b.cursor.x - (width - 1)
              ELSE w.left
      top == IF b.cursor.y < w.top THEN b.cursor.y
             ELSE IF b.cursor.y > w.bottom THEN b.cursor.y - (height - 1)
             ELSE w.top
      l == Least(IF left < 0 THEN 0 ELSE left, b.size.x - width)
      t == Least(IF top < 0 THEN 0 ELSE top, b.size.y - height)
  IN [b EXCEPT !.window = Rect(l, t, l + width - 1, t + height - 1)]

(***************************************************************************)
(* save_cursor_state and restore_cursor_state.  A saved position that is   *)
(* outside the buffer, which a resize can cause, is moved in on return.    *)
(***************************************************************************)
InBuffer(b, c) == At(Clamp(c.x, 0, b.size.x - 1), Clamp(c.y, 0, b.size.y - 1))

SaveCursorState(b, cursor, attrs, delayed, origin) ==
  [b EXCEPT !.saved = [ position |-> InBuffer(b, cursor), attrs |-> attrs,
                        delayed |-> delayed /\ InBuffer(b, cursor) = cursor,
                        origin |-> origin ]]

-----------------------------------------------------------------------------
(* The cells. *)

WriteCell(b, c, ch) ==
  IF CoordInRange(b, c) THEN [b EXCEPT !.cells[LinearIndex(b, c)] = ch] ELSE b

(* The rest of the line moves right by one cell, the last one is dropped.  *)
InsertCell(b, c, ch) ==
  LET start == LinearIndex(b, c)
      last == LinearIndex(b, At(b.size.x - 1, c.y))
  IN IF ~CoordInRange(b, c) THEN b
     ELSE [b EXCEPT !.cells =
            [i \in DOMAIN b.cells |->
               IF i = start THEN ch
               ELSE IF i \in start + 1 .. last THEN b.cells[i - 1]
               ELSE b.cells[i]]]

(* fill_output_characters: it runs over the ends of lines and stops at the *)
(* end of the buffer.                                                      *)
FillOutput(b, c, ch, length) ==
  IF ~CoordInRange(b, c) THEN b
  ELSE [b EXCEPT !.cells =
          [i \in DOMAIN b.cells |->
             IF i \in LinearIndex(b, c) .. LinearIndex(b, c) + length - 1
             THEN ch ELSE b.cells[i]]]

(***************************************************************************)
(* scroll_screen_buffer: the rectangle is copied out and blanked where the *)
(* clip allows it, then written at the destination where the clip and the  *)
(* buffer allow it.                                                        *)
(***************************************************************************)
ScrollScreenBuffer(b, rect, clip, dest, ch) ==
  LET cell(i) == CoordOf(b, i)
      source(c) == At(c.x - (dest.x - rect.left), c.y - (dest.y - rect.top))
  IN IF \/ rect.left > rect.right \/ rect.top > rect.bottom
        \/ ~CoordInRange(b, At(rect.left, rect.top))
        \/ ~CoordInRange(b, At(rect.right, rect.bottom))
     THEN b
     ELSE [b EXCEPT !.cells =
            [i \in DOMAIN b.cells |->
               IF ~Inside(clip, cell(i)) THEN b.cells[i]
               ELSE IF Inside(rect, source(cell(i)))
                    THEN b.cells[LinearIndex(b, source(cell(i)))]
               ELSE IF Inside(rect, cell(i)) THEN ch
               ELSE b.cells[i]]]

-----------------------------------------------------------------------------
(***************************************************************************)
(* set_screen_buffer_size: both screens are cut or padded, the cursors and *)
(* margins of both are moved in, pending wraps are dropped, and the window *)
(* follows.  A saved cursor state is left as it is.                        *)
(***************************************************************************)
ResizedCells(cells, old, new) ==
  [i \in 0 .. new.x * new.y - 1 |->
     LET x == i % new.x
         y == i \div new.x
     IN IF x < old.x /\ y < old.y THEN cells[y * old.x + x] ELSE Blank]

ClampMargins(m, size) ==
  IF m = None THEN None
  ELSE LET top == Least(m.top, size.y - 1)
           bottom == Least(m.bottom, size.y - 1)
       IN IF top >= bottom THEN None ELSE [top |-> top, bottom |-> bottom]

CutCursor(c, size) == At(Least(c.x, size.x - 1), Least(c.y, size.y - 1))

(* Variants of the next definition: the saved main screen is not moved in. *)
ResizedBackupKeepsMargins(k, old, new) ==
  IF k = None THEN None
  ELSE [k EXCEPT !.cells = ResizedCells(k.cells, old, new),
                 !.cursor = CutCursor(k.cursor, new), !.delayed = None]

ResizedBackup(k, old, new) ==
  IF k = None THEN None
  ELSE [k EXCEPT !.cells = ResizedCells(k.cells, old, new),
                 !.cursor = CutCursor(k.cursor, new),
                 !.margins = ClampMargins(k.margins, new), !.delayed = None]

SetScreenBufferSize(b, size) ==
  LET w == b.window
  IN Snap([b EXCEPT !.cells = ResizedCells(b.cells, b.size, size),
                    !.size = size,
                    !.window = WindowAt(size, w.right - w.left + 1,
                                        w.bottom - w.top + 1, w.left, w.top),
                    !.cursor = CutCursor(b.cursor, size),
                    !.margins = ClampMargins(b.margins, size),
                    !.delayed = None,
                    !.backup = ResizedBackup(b.backup, b.size, size)])

-----------------------------------------------------------------------------
(***************************************************************************)
(* set_vt_using_alternate_screen_buffer.                                   *)
(***************************************************************************)
MainScreen(b) ==
  [ cells |-> b.cells, cursor |-> b.cursor, attrs |-> b.attrs,
    dflt |-> b.dflt, visible |-> b.visible, saved |-> b.saved,
    margins |-> b.margins, delayed |-> b.delayed, origin |-> b.origin ]

(* A variant of the next definition: entering twice saves twice.           *)
EnterAlternateAgain(b) ==
  [b EXCEPT !.backup = MainScreen(b), !.cells = BlankCells(b.size),
            !.cursor = At(0, 0), !.saved = None, !.margins = None,
            !.delayed = None]

EnterAlternate(b) ==
  IF b.backup # None THEN b
  ELSE [b EXCEPT !.backup = MainScreen(b), !.cells = BlankCells(b.size),
                 !.cursor = At(0, 0), !.saved = None, !.margins = None,
                 !.delayed = None]

LeaveAlternate(b) ==
  IF b.backup = None THEN b
  ELSE LET k == b.backup
       IN [b EXCEPT !.backup = None, !.cells = k.cells, !.cursor = k.cursor,
                    !.attrs = k.attrs, !.dflt = k.dflt,
                    !.visible = k.visible, !.saved = k.saved,
                    !.margins = k.margins, !.delayed = k.delayed,
                    !.origin = k.origin]

=============================================================================
