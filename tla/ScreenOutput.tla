---------------------------- MODULE ScreenOutput ----------------------------
(***************************************************************************)
(* One screen buffer and everything its clients can do to it: writes, and  *)
(* the console calls that move the cursor and the window, resize, scroll   *)
(* and fill.  The server handles one call at a time, so each call is one   *)
(* action.  The handle checks that every call begins with belong to the    *)
(* tables of handles and are modelled there.                               *)
(***************************************************************************)
EXTENDS VtOutput

(***************************************************************************)
(* A workload says what the clients of a behaviour do: the sizes of the    *)
(* new buffer and its window (size, window), and the arguments, valid or   *)
(* not, of each call (texts, modes, sizes, cursors, windows, infos,        *)
(* attributes, visibles, scrolls, fills).  A call without arguments is not *)
(* made.  pairs are the texts whose writes are cut in two.                 *)
(***************************************************************************)
CONSTANT Workloads

VARIABLES sb, work

vars == <<sb, work>>

Init == /\ work \in Workloads
        /\ sb = NewBuffer(work.size, work.window)

Becomes(b) == sb' = b /\ UNCHANGED work

-----------------------------------------------------------------------------
(***************************************************************************)
(* A text with control sequences is only split into them in VT mode.       *)
(***************************************************************************)
WriteConsole(text, mode) ==
  /\ mode.vt \/ \A i \in DOMAIN text : text[i].name \in Characters
  /\ Becomes(Write(sb, text, mode))

ConsoleSetScreenBufferSize(size) ==
  Becomes(SetScreenBufferSize(sb, size))

SetCursorPosition(c) ==
  /\ CoordInRange(sb, c)
  /\ Becomes(Snap([sb EXCEPT !.cursor = c]))

(* Relative edges are added to those of the current window.                *)
SetWindowInfo(absolute, r) ==
  LET w == sb.window
  IN Becomes(SetWindowRect(sb,
       IF absolute THEN r
       ELSE Rect(w.left + r.left, w.top + r.top,
                 w.right + r.right, w.bottom + r.bottom)))

(***************************************************************************)
(* The call is not atomic: what a failed check follows has been done.      *)
(***************************************************************************)
SetScreenBufferInfo(i) ==
  LET resized == SetScreenBufferSize(sb, i.size)
      moved == [resized EXCEPT !.cursor = i.cursor, !.attrs = i.attrs,
                               !.dflt = i.attrs]
      negative(c) == c.x < 0 \/ c.y < 0
  IN Becomes(IF ~CoordInRange(resized, i.cursor) THEN resized
             ELSE IF negative(i.scroll) \/ negative(i.extent) THEN moved
             ELSE SetWindowRect(moved, Rect(i.scroll.x, i.scroll.y,
                    i.scroll.x + i.extent.x, i.scroll.y + i.extent.y)))

SetTextAttribute(a) ==
  Becomes([sb EXCEPT !.attrs = a])

SetCursorInfo(visible) ==
  Becomes([sb EXCEPT !.visible = visible])

(* Both rectangles are cut to the buffer; one that is outside does nothing. *)
Cut(r) == Rect(IF r.left < 0 THEN 0 ELSE r.left, IF r.top < 0 THEN 0 ELSE r.top,
               Least(r.right, sb.size.x - 1), Least(r.bottom, sb.size.y - 1))

Ordered(r) == r.left <= r.right /\ r.top <= r.bottom

ScrollConsole(rect, clip, dest, ch) ==
  /\ Ordered(rect) /\ Ordered(Cut(rect))
  /\ clip # None => Ordered(clip) /\ Ordered(Cut(clip))
  /\ Becomes(ScrollScreenBuffer(sb, Cut(rect),
               IF clip = None THEN FullWidth([b |-> sb], 0, sb.size.y - 1)
               ELSE Cut(clip), dest, ch))

FillConsoleOutput(c, ch, length) ==
  Becomes(FillOutput(sb, c, ch, length))

Next ==
  \/ \E text \in work.texts, mode \in work.modes : WriteConsole(text, mode)
  \/ \E size \in work.sizes : ConsoleSetScreenBufferSize(size)
  \/ \E c \in work.cursors : SetCursorPosition(c)
  \/ \E r \in work.windows, absolute \in BOOLEAN : SetWindowInfo(absolute, r)
  \/ \E i \in work.infos : SetScreenBufferInfo(i)
  \/ \E a \in work.attributes : SetTextAttribute(a)
  \/ \E visible \in work.visibles : SetCursorInfo(visible)
  \/ \E c \in work.scrolls : ScrollConsole(c.rect, c.clip, c.dest, "x")
  \/ \E c \in work.fills, length \in 0 .. 3 : FillConsoleOutput(c, "x", length)

Spec == Init /\ [][Next]_vars

-----------------------------------------------------------------------------
Coords(size) == {At(x, y) : x \in 0 .. size.x - 1, y \in 0 .. size.y - 1}

MarginsOf(size) == {m \in [top : 0 .. size.y - 1, bottom : 0 .. size.y - 1] :
                      m.top < m.bottom} \cup {None}

CellsOK(cells, size) ==
  /\ DOMAIN cells = 0 .. size.x * size.y - 1
  /\ \A i \in DOMAIN cells : cells[i] \in STRING

(***************************************************************************)
(* The window never leaves the buffer, even after a call that was refused  *)
(* half way (condrv_viewport_model.md, "Invariants enforced").             *)
(***************************************************************************)
WindowInBuffer ==
  LET w == sb.window
  IN /\ 0 <= w.left /\ w.left <= w.right /\ w.right < sb.size.x
     /\ 0 <= w.top /\ w.top <= w.bottom /\ w.bottom < sb.size.y

(***************************************************************************)
(* The buffer is well formed: both screens have a cell for every position, *)
(* and the window, their cursors and margins lie in the buffer, whatever   *)
(* has been resized since they were set.                                   *)
(***************************************************************************)
TypeOK ==
  /\ CellsOK(sb.cells, sb.size)
  /\ sb.cursor \in Coords(sb.size)
  /\ sb.margins \in MarginsOf(sb.size)
  /\ sb.autowrap \in BOOLEAN /\ sb.origin \in BOOLEAN /\ sb.insert \in BOOLEAN
  /\ sb.visible \in BOOLEAN
  /\ sb.delayed \in Coords(sb.size) \cup {None}
  /\ sb.backup # None =>
       /\ CellsOK(sb.backup.cells, sb.size)
       /\ sb.backup.cursor \in Coords(sb.size)
       /\ sb.backup.margins \in MarginsOf(sb.size)
  /\ WindowInBuffer

(***************************************************************************)
(* Nothing that is done on the alternate screen changes the main screen    *)
(* that waits behind it, and leaving brings back its cells or, with RIS,   *)
(* clears them.  A resize may cut both, and drops a pending wrap.          *)
(***************************************************************************)
MainScreenIsolated ==
  [][sb.backup # None /\ sb'.size = sb.size =>
       \/ sb'.backup = sb.backup
       \/ sb'.backup = [sb.backup EXCEPT !.delayed = None]
       \/ sb'.backup = None /\ sb'.cells = sb.backup.cells
       \/ sb'.backup = None /\ sb'.cells = BlankCells(sb.size)]_vars

-----------------------------------------------------------------------------
VtMode == [processed |-> TRUE, wrap |-> TRUE, vt |-> TRUE,
           noAutoReturn |-> FALSE]

One(name, n, m) == Write(sb, <<Item(name, n, m)>>, VtMode)

RegionOf(b) == Region(BeginWrite(b, VtMode))

RowsOutside(b) == {i \in DOMAIN b.cells :
  i \div b.size.x \notin RegionOf(b).top .. RegionOf(b).bottom}

(***************************************************************************)
(* What scrolls between the margins leaves the rows outside them alone:    *)
(* insertion and deletion of lines and SU and SD always, and line feeds in *)
(* both directions when they start between the margins.                    *)
(***************************************************************************)
ScrollsStayInMargins ==
  LET outside == RowsOutside(sb)
      between == InRegion(BeginWrite(sb, VtMode))
  IN outside # {} =>
       \A name \in {"IL", "DL", "SU", "SD"} \cup
                   (IF between THEN {"LF", "IND", "RI", "NEL"} ELSE {}) :
         \A n \in 0 .. sb.size.y :
           LET cells == One(name, n, 0).cells
           IN \A i \in outside : cells[i] = sb.cells[i]

(***************************************************************************)
(* With DECOM set, a cursor motion ends between the margins, wherever it   *)
(* started.                                                                *)
(***************************************************************************)
OriginConfines ==
  sb.origin => \A name \in Moves \ {"CHA"}, n \in 0 .. sb.size.y + 1 :
    One(name, n, 1).cursor.y \in RegionOf(sb).top .. RegionOf(sb).bottom

(***************************************************************************)
(* The margins confine what moves: rows that scroll, and with DECOM the    *)
(* cursor.                                                                 *)
(***************************************************************************)
MarginsConfine == ScrollsStayInMargins /\ OriginConfines

(***************************************************************************)
(* Text flows: n glyphs printed with autowrap from a cell with no pending  *)
(* wrap fill the next n cells of the buffer, in order, and the cursor is   *)
(* behind the last one, or on it with the wrap pending at the end of a     *)
(* line.                                                                   *)
(***************************************************************************)
PrintsFlow ==
  LET start == LinearIndex(sb, sb.cursor)
      glyphs(n) == [i \in 1 .. n |-> Item("print", "x", 0)]
  IN sb.autowrap /\ ~sb.insert /\ sb.delayed = None /\ sb.margins = None =>
       \A n \in 1 .. sb.size.x * sb.size.y - start :
         LET b == Write(sb, glyphs(n), VtMode)
             eol == (start + n) % sb.size.x = 0
         IN /\ b.cells = [i \in DOMAIN sb.cells |->
                 IF i \in start .. start + n - 1 THEN "x" ELSE sb.cells[i]]
            /\ b.cursor = CoordOf(sb, IF eol THEN start + n - 1 ELSE start + n)
            /\ b.delayed = IF eol THEN b.cursor ELSE None

(***************************************************************************)
(* Where a client cuts its output into writes does not matter: two items   *)
(* in one write do what they do in two.                                    *)
(***************************************************************************)
SplitTransparent ==
  \A t \in work.pairs :
    LET first == Write(sb, t, VtMode)
    IN \A u \in work.pairs :
         Write(sb, t \o u, VtMode) = Write(first, u, VtMode)

-----------------------------------------------------------------------------
Enter == <<Item("ALT", 1, 0)>>

Leave == <<Item("ALT", 0, 0)>>

(***************************************************************************)
(* Leaving the alternate screen brings the cursor back to where it was     *)
(* when the screen was entered (condrv_vt_alternate_screen_buffer.md).     *)
(***************************************************************************)
AlternateRestoresCursor ==
  sb.backup = None =>
    \A t \in work.texts : Write(sb, t, VtMode).backup = None =>
      Write(sb, t \o Enter \o Leave, VtMode).cursor
        = Write(sb, t, VtMode).cursor

=============================================================================
