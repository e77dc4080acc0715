------------------------------ MODULE VtOutput ------------------------------
(***************************************************************************)
(* What one write does to a screen buffer: apply_text_to_screen_buffer,    *)
(* the code behind WriteConsole and raw writes.                            *)
(*                                                                         *)
(* A text is a sequence of items.  An item is a character of the ground    *)
(* state ("print" with its glyph, "CR", "LF", "BS", "TAB") or a control    *)
(* sequence as the parser hands it over, with two numeric parameters: an   *)
(* absent parameter is 0, which is how the code treats it.                 *)
(*                                                                         *)
(* The code copies the cursor, the attributes, the margins and the modes   *)
(* into locals when a write begins and stores them when it ends; in        *)
(* between some operations use the locals and some the buffer.  A write in *)
(* progress is therefore a record of the buffer b and the locals.          *)
(***************************************************************************)
EXTENDS ScreenBuffer, SequencesExt

Item(name, n, m) == [name |-> name, n |-> n, m |-> m]

TabWidth == 8

-----------------------------------------------------------------------------
(* The beginning and the end of a write. *)

BeginWrite(b, mode) ==
  [ b |-> b, mode |-> mode, cursor |-> b.cursor, attrs |-> b.attrs,
    dflt |-> b.dflt, margins |-> b.margins, autowrap |-> b.autowrap,
    delayed |-> IF mode.vt THEN b.delayed ELSE None,
    origin |-> b.origin, insert |-> b.insert,
    first |-> [autowrap |-> b.autowrap, origin |-> b.origin,
               insert |-> b.insert] ]

(***************************************************************************)
(* A mode is stored only if it differs from what it was when the write     *)
(* began; the window then follows the cursor.                              *)
(***************************************************************************)
(* A variant of the next definition: the pending wrap is not stored.       *)
EndWriteForgetsWrap(s) ==
  Snap([s.b EXCEPT !.autowrap = s.autowrap, !.origin = s.origin,
                   !.insert = s.insert, !.delayed = None,
                   !.cursor = s.cursor, !.attrs = s.attrs])

EndWrite(s) ==
  Snap([s.b EXCEPT
    !.autowrap = IF s.autowrap # s.first.autowrap THEN s.autowrap ELSE @,
    !.origin = IF s.origin # s.first.origin THEN s.origin ELSE @,
    !.insert = IF s.insert # s.first.insert THEN s.insert ELSE @,
    !.delayed = s.delayed, !.cursor = s.cursor, !.attrs = s.attrs])

-----------------------------------------------------------------------------
(* Scrolling. *)

Width(s) == s.b.size.x

Height(s) == s.b.size.y

FullRegion(s) == [top |-> 0, bottom |-> Height(s) - 1]

(* resolve_vertical_region *)
Region(s) ==
  IF s.margins # None /\ s.margins.bottom < Height(s) THEN s.margins
  ELSE FullRegion(s)

InRegion(s) == s.cursor.y \in Region(s).top .. Region(s).bottom

FullWidth(s, top, bottom) == Rect(0, top, Width(s) - 1, bottom)

BlankRows(s, top, bottom) ==
  [s EXCEPT !.b = FillOutput(s.b, At(0, top), Blank,
                             Width(s) * (bottom - top + 1))]

(* Moves the rows top..bottom by count rows, up or down, within them.      *)
MoveRows(s, top, bottom, count, up) ==
  IF count >= bottom - top + 1 THEN BlankRows(s, top, bottom)
  ELSE [s EXCEPT !.b =
         IF up
         THEN ScrollScreenBuffer(s.b, FullWidth(s, top + count, bottom),
                FullWidth(s, top, bottom), At(0, top), Blank)
         ELSE ScrollScreenBuffer(s.b, FullWidth(s, top, bottom - count),
                FullWidth(s, top, bottom), At(0, top + count), Blank)]

(* scroll_region_up and scroll_region_down: a region of one row is left.   *)
ScrollRegion(s, r, count, up) ==
  IF r.top = r.bottom THEN s ELSE MoveRows(s, r.top, r.bottom, count, up)

LineFeed(s) ==
  LET r == Region(s)
  IN IF InRegion(s)
     THEN IF s.cursor.y = r.bottom THEN ScrollRegion(s, r, 1, TRUE)
          ELSE [s EXCEPT !.cursor.y = @ + 1]
     ELSE IF s.cursor.y + 1 >= Height(s)
          THEN ScrollRegion(s, FullRegion(s), 1, TRUE)
          ELSE [s EXCEPT !.cursor.y = @ + 1]

ReverseLineFeed(s) ==
  LET r == Region(s)
  IN IF InRegion(s)
     THEN IF s.cursor.y = r.top THEN ScrollRegion(s, r, 1, FALSE)
          ELSE [s EXCEPT !.cursor.y = @ - 1]
     ELSE IF s.cursor.y > 0 THEN [s EXCEPT !.cursor.y = @ - 1]
          ELSE ScrollRegion(s, FullRegion(s), 1, FALSE)

AdvanceLine(s) == LineFeed([s EXCEPT !.cursor.x = 0])

-----------------------------------------------------------------------------
(* Printing. *)

(* maybe_apply_delayed_wrap *)
ApplyDelayedWrap(s) ==
  IF ~s.mode.vt \/ s.delayed = None THEN s
  ELSE [ (IF s.autowrap /\ s.delayed = s.cursor THEN AdvanceLine(s) ELSE s)
           EXCEPT !.delayed = None ]

(* A variant of the next definition: the wrap is taken at once.            *)
WritePrintableEager(s, ch) ==
  LET put == [s EXCEPT !.b = WriteCell(s.b, s.cursor, ch)]
  IN IF s.cursor.x >= Width(s) - 1 THEN AdvanceLine(put)
     ELSE [put EXCEPT !.cursor.x = @ + 1]

WritePrintable(s, ch) ==
  LET w == ApplyDelayedWrap(s)
      put == [w EXCEPT !.b = IF w.mode.vt /\ w.insert
                             THEN InsertCell(w.b, w.cursor, ch)
                             ELSE WriteCell(w.b, w.cursor, ch)]
      last == Width(s) - 1
  IN IF w.cursor.x < last THEN [put EXCEPT !.cursor.x = @ + 1]
     ELSE IF w.mode.vt
          THEN [put EXCEPT !.cursor.x = last,
                           !.delayed = IF w.autowrap
                                       THEN At(last, w.cursor.y) ELSE @]
     ELSE IF w.mode.wrap THEN AdvanceLine(put)
     ELSE [put EXCEPT !.cursor.x = last]

Tab(s) ==
  FoldLeft(LAMBDA t, i : WritePrintable(t, Blank), s,
           [i \in 1 .. TabWidth - (s.cursor.x % TabWidth) |-> i])

(* The characters that ENABLE_PROCESSED_OUTPUT interprets.                 *)
Character(s, o) ==
  IF ~s.mode.processed /\ o.name # "print" THEN WritePrintable(s, "^")
  ELSE CASE o.name = "print" -> WritePrintable(s, o.n)
         [] o.name = "CR" -> [s EXCEPT !.cursor.x = 0]
         [] o.name = "LF" -> IF s.mode.noAutoReturn THEN LineFeed(s)
                             ELSE AdvanceLine(s)
         [] o.name = "BS" -> [s EXCEPT !.cursor.x = IF @ > 0 THEN @ - 1 ELSE 0]
         [] o.name = "TAB" -> Tab(s)

-----------------------------------------------------------------------------
(* Moving the cursor. *)

Count(o) == IF o.n = 0 THEN 1 ELSE o.n

Column(s, x) == Clamp(x, 0, Width(s) - 1)

(* A variant of the next definition: DECOM is not looked at.               *)
AbsoluteRowIgnoresOrigin(s, row) == Clamp(row, 0, Height(s) - 1)

AbsoluteRow(s, row) ==
  IF s.origin
  THEN Clamp(row + Region(s).top, Region(s).top, Region(s).bottom)
  ELSE Clamp(row, 0, Height(s) - 1)

(* Motion by rows stays between the margins if it starts there.            *)
RelativeRow(s, row) ==
  IF s.origin \/ (s.margins # None /\ InRegion(s))
  THEN Clamp(row, Region(s).top, Region(s).bottom)
  ELSE Clamp(row, 0, Height(s) - 1)

Home(s) == [s EXCEPT !.cursor = At(0, IF s.origin THEN Region(s).top ELSE 0)]

Move(s, o) ==
  LET n == Count(o)
      c == s.cursor
      m == IF o.m = 0 THEN 1 ELSE o.m
  IN CASE o.name = "CUP" ->
            [s EXCEPT !.cursor = At(Column(s, m - 1), AbsoluteRow(s, n - 1))]
       [] o.name = "CHA" -> [s EXCEPT !.cursor.x = Column(s, n - 1)]
       [] o.name = "VPA" -> [s EXCEPT !.cursor.y = AbsoluteRow(s, n - 1)]
       [] o.name = "CNL" -> [s EXCEPT !.cursor = At(0, RelativeRow(s, c.y + n))]
       [] o.name = "CPL" -> [s EXCEPT !.cursor = At(0, RelativeRow(s, c.y - n))]
       [] o.name = "CUU" -> [s EXCEPT !.cursor.y = RelativeRow(s, c.y - n)]
       [] o.name = "CUD" -> [s EXCEPT !.cursor.y = RelativeRow(s, c.y + n)]
       [] o.name = "CUF" -> [s EXCEPT !.cursor = At(Column(s, c.x + n),
                                                    RelativeRow(s, c.y))]
       [] o.name = "CUB" -> [s EXCEPT !.cursor = At(Column(s, c.x - n),
                                                    RelativeRow(s, c.y))]

-----------------------------------------------------------------------------
(* Editing the cells. *)

Unwrapped(s) == [s EXCEPT !.delayed = None]

Row(s) == [x \in 0 .. Width(s) - 1 |->
             s.b.cells[LinearIndex(s.b, At(x, s.cursor.y))]]

(* The cursor's row becomes row, from the cursor on.                       *)
EditRow(s, row) ==
  Unwrapped([s EXCEPT !.b.cells =
    [i \in DOMAIN s.b.cells |->
       LET c == CoordOf(s.b, i)
       IN IF c.y = s.cursor.y /\ c.x >= s.cursor.x THEN row[c.x]
          ELSE s.b.cells[i]]])

EditCount(s, o) == Least(Count(o), Width(s) - s.cursor.x)

InsertCharacters(s, o) ==
  LET n == EditCount(s, o)
  IN EditRow(s, [x \in DOMAIN Row(s) |->
                   IF x >= s.cursor.x + n THEN Row(s)[x - n] ELSE Blank])

DeleteCharacters(s, o) ==
  LET n == EditCount(s, o)
  IN EditRow(s, [x \in DOMAIN Row(s) |->
                   IF x < Width(s) - n THEN Row(s)[x + n] ELSE Blank])

EraseCharacters(s, o) ==
  LET n == EditCount(s, o)
  IN EditRow(s, [x \in DOMAIN Row(s) |->
                   IF x >= s.cursor.x + n THEN Row(s)[x] ELSE Blank])

(* ED and EL: from the cursor, up to the cursor, or everything.            *)
EraseDisplay(s, o) ==
  LET here == LinearIndex(s.b, s.cursor)
      all == Width(s) * Height(s)
      origin == IF o.n = 0 THEN s.cursor ELSE At(0, 0)
      length == CASE o.n = 0 -> all - here
                  [] o.n = 1 -> here + 1
                  [] o.n \in {2, 3} -> all
                  [] OTHER -> 0
  IN Unwrapped([s EXCEPT !.b = FillOutput(s.b, origin, Blank, length)])

EraseLine(s, o) ==
  LET origin == IF o.n = 0 THEN s.cursor ELSE At(0, s.cursor.y)
      length == CASE o.n = 0 -> Width(s) - s.cursor.x
                  [] o.n = 1 -> s.cursor.x + 1
                  [] o.n = 2 -> Width(s)
                  [] OTHER -> 0
  IN Unwrapped([s EXCEPT !.b = FillOutput(s.b, origin, Blank, length)])

(* IL and DL: only with the cursor between the margins.                    *)
InsertLines(s, o) ==
  IF InRegion(s) THEN MoveRows(s, s.cursor.y, Region(s).bottom, Count(o), FALSE)
  ELSE s

DeleteLines(s, o) ==
  IF InRegion(s) THEN MoveRows(s, s.cursor.y, Region(s).bottom, Count(o), TRUE)
  ELSE s

Edit(s, o) ==
  CASE o.name = "ICH" -> InsertCharacters(s, o)
    [] o.name = "DCH" -> DeleteCharacters(s, o)
    [] o.name = "ECH" -> EraseCharacters(s, o)
    [] o.name = "ED" -> EraseDisplay(s, o)
    [] o.name = "EL" -> EraseLine(s, o)
    [] o.name = "IL" -> InsertLines(s, o)
    [] o.name = "DL" -> DeleteLines(s, o)
    [] o.name = "SU" -> ScrollRegion(s, Region(s), Count(o), TRUE)
    [] o.name = "SD" -> ScrollRegion(s, Region(s), Count(o), FALSE)
    [] o.name = "IND" -> LineFeed(s)
    [] o.name = "RI" -> ReverseLineFeed(s)
    [] o.name = "NEL" -> AdvanceLine(s)

-----------------------------------------------------------------------------
(* Margins, saved cursors and modes. *)

SetMargins(s, m) == [s EXCEPT !.margins = m, !.b.margins = m]

(* DECSTBM: an invalid pair is ignored, a valid one homes the cursor.      *)
SetTopBottom(s, o) ==
  LET top == IF o.n = 0 THEN 1 ELSE o.n
      bottom == IF o.m = 0 THEN Height(s) ELSE o.m
  IN IF ~(top < bottom /\ bottom <= Height(s)) THEN s
     ELSE Home(SetMargins(s, IF top = 1 /\ bottom = Height(s) THEN None
                             ELSE [top |-> top - 1, bottom |-> bottom - 1]))

SaveCursor(s) ==
  [s EXCEPT !.b = SaveCursorState(s.b, s.cursor, s.attrs,
                                  s.delayed = s.cursor, s.origin)]

RestoreCursor(s) ==
  IF s.b.saved = None THEN s
  ELSE LET k == s.b.saved
           o == [s EXCEPT !.origin = k.origin]
           c == InBuffer(s.b, k.position)
           at == At(c.x, IF k.origin
                         THEN Clamp(c.y, Region(o).top, Region(o).bottom)
                         ELSE c.y)
       IN [o EXCEPT !.cursor = at, !.attrs = k.attrs,
                    !.delayed = IF k.delayed THEN at ELSE None]

(* What DECSTR and RIS have in common.                                     *)
ResetModes(s) ==
  SetMargins([s EXCEPT !.autowrap = TRUE, !.origin = FALSE, !.insert = FALSE,
                       !.delayed = None, !.attrs = s.dflt,
                       !.b = SaveCursorState([s.b EXCEPT !.visible = TRUE],
                               At(0, 0), s.dflt, FALSE, FALSE)], None)

Filled(s, ch) ==
  [s EXCEPT !.b = FillOutput(s.b, At(0, 0), ch, Width(s) * Height(s))]

(* The locals are read again from the buffer after a switch of screens.    *)
Reloaded(s, b) ==
  [s EXCEPT !.b = b, !.cursor = b.cursor, !.attrs = b.attrs,
            !.margins = b.margins, !.origin = b.origin, !.delayed = None]

HardReset(s) ==
  LET main == IF s.b.backup = None THEN s
              ELSE [Reloaded(s, LeaveAlternate(s.b)) EXCEPT
                      !.insert = s.b.insert,
                      !.delayed = LeaveAlternate(s.b).delayed]
  IN Filled([ResetModes(main) EXCEPT !.cursor = At(0, 0)], Blank)

(* DECALN; the rendition bits it clears are not told apart here.           *)
ScreenAlignment(s) ==
  SetMargins([Filled(s, "E") EXCEPT !.delayed = None, !.origin = FALSE,
                                    !.cursor = At(0, 0)], None)

On(o) == o.n = 1

Control(s, o) ==
  CASE o.name = "SGR" -> [s EXCEPT !.attrs = IF o.n = 0 THEN s.dflt ELSE o.n]
    [] o.name = "DECSTBM" -> SetTopBottom(s, o)
    [] o.name = "SC" -> SaveCursor(s)
    [] o.name = "RC" -> RestoreCursor(s)
    [] o.name = "IRM" -> [s EXCEPT !.insert = On(o)]
    [] o.name = "DECTCEM" -> [s EXCEPT !.b.visible = On(o)]
    [] o.name = "DECOM" -> Unwrapped(Home([s EXCEPT !.origin = On(o)]))
    [] o.name = "DECAWM" -> [s EXCEPT !.autowrap = On(o), !.delayed = None]
    [] o.name = "ALT" -> Reloaded(s, IF On(o) THEN EnterAlternate(s.b)
                                     ELSE LeaveAlternate(s.b))
    [] o.name = "DECSTR" -> ResetModes(s)
    [] o.name = "RIS" -> HardReset(s)
    [] o.name = "DECALN" -> ScreenAlignment(s)

-----------------------------------------------------------------------------
Characters == {"print", "CR", "LF", "BS", "TAB"}

Moves == {"CUP", "CHA", "VPA", "CNL", "CPL", "CUU", "CUD", "CUF", "CUB"}

Edits == {"ICH", "DCH", "ECH", "ED", "EL", "IL", "DL", "SU", "SD",
          "IND", "RI", "NEL"}

Apply(s, o) ==
  IF o.name \in Characters THEN Character(s, o)
  ELSE IF o.name \in Moves THEN Move(s, o)
  ELSE IF o.name \in Edits THEN Edit(s, o)
  ELSE Control(s, o)

Write(b, text, mode) == EndWrite(FoldLeft(Apply, BeginWrite(b, mode), text))

=============================================================================
