------------------------------ MODULE LineEditor ------------------------------
(***************************************************************************)
(* The line editor of cooked reads (ReadConsole with ENABLE_LINE_INPUT,    *)
(* condrv_server.hpp): the line, its cursor and what editing echoes.       *)
(*                                                                         *)
(* An editor is a record of cooked_line_in_progress, cooked_line_cursor    *)
(* and cooked_insert_mode, and of the cells the echo has written since the *)
(* line began, with the column of the screen's cursor among them.  The     *)
(* echo consists of code units, spaces and backspaces alone.               *)
(***************************************************************************)
EXTENDS InputTokens

Editor(line, cursor, insert, cells, col) ==
    [line |-> line, cursor |-> cursor, insert |-> insert, cells |-> cells, col |-> col]

\* The places i such that a pair begins behind the first i - 1 units.
PairAt(line, i) ==
    i >= 1 /\ i < Len(line) /\ line[i] = "high" /\ line[i + 1] = "low"

\* A cursor behind the end, or inside a pair, moves left.
normalize_cursor(line, cursor) ==
    LET c == IF cursor > Len(line) THEN Len(line) ELSE cursor
    IN  IF PairAt(line, c) THEN c - 1 ELSE c

prev_index(line, i) ==
    IF i = 0 THEN 0 ELSE IF PairAt(line, i - 1) THEN i - 2 ELSE i - 1

next_index(line, i) ==
    IF i >= Len(line) THEN Len(line) ELSE IF PairAt(line, i + 1) THEN i + 2 ELSE i + 1

is_word_delimiter(line, i) == i < Len(line) /\ line[i + 1] = " "

\* Back over delimiters, then to the beginning of the word.
word_prev(line, index) ==
    LET back[p \in 0 .. Len(line), delimiters \in BOOLEAN] ==
            IF p # 0 /\ is_word_delimiter(line, prev_index(line, p)) = delimiters
              THEN back[prev_index(line, p), delimiters]
              ELSE p
    IN  back[back[index, TRUE], FALSE]

\* To the end of the word, then over the delimiters behind it.
word_next(line, index) ==
    LET on[p \in 0 .. Len(line), delimiters \in BOOLEAN] ==
            IF p < Len(line) /\ is_word_delimiter(line, p) = delimiters
              THEN on[next_index(line, p), delimiters]
              ELSE p
    IN  on[on[index, FALSE], TRUE]

-----------------------------------------------------------------------------
(* The echo.                                                               *)

Times(n, unit) == [i \in 1 .. n |-> unit]

Backspaces(n) == Times(n, "BS")

Spaces(n) == Times(n, " ")

\* The line from one place to another.
Span(line, from, to) == SubSeq(line, from + 1, to)

\* What the screen does with one unit of the echo.
EchoUnit(e, unit) ==
    IF unit = "BS" THEN [e EXCEPT !.col = @ - 1]
    ELSE [e EXCEPT !.col = @ + 1,
                   !.cells = IF e.col \in 0 .. Len(@) - 1
                               THEN ReplaceAt(@, e.col + 1, unit)
                               ELSE Append(@, unit)]

echo_text(e, text) == FoldLeft(EchoUnit, e, text)

-----------------------------------------------------------------------------
(* Typing.                                                                 *)

Erased(line, from, count) == Span(line, 0, from) \o Skip(line, from + count)

\* Prints what is behind the cursor, clears `count' cells more and comes back.
RewriteTail(line, cursor, count) ==
    Span(line, cursor, Len(line)) \o Spaces(count) \o Backspaces(Len(line) - cursor + count)

Backspace(e) ==
    LET to == prev_index(e.line, e.cursor)
        removed == e.cursor - to
        line == Erased(e.line, to, removed)
        cursor == normalize_cursor(line, to)
    IN  IF removed = 0 THEN e
        ELSE echo_text([e EXCEPT !.line = line, !.cursor = cursor],
                       Backspaces(removed) \o RewriteTail(line, cursor, removed))

\* In overwrite mode a unit replaces the whole character at the cursor.
Removed(e) ==
    IF e.insert THEN 0 ELSE next_index(e.line, e.cursor) - e.cursor

\* Variant: what a pair leaves behind is not cleared.
InsertUnitNoClear(e, unit) ==
    LET rest == Erased(e.line, e.cursor, Removed(e))
        line == Span(rest, 0, e.cursor) \o <<unit>> \o Skip(rest, e.cursor)
        cursor == normalize_cursor(line, e.cursor + 1)
    IN  echo_text([e EXCEPT !.line = line, !.cursor = cursor],
                  <<unit>> \o RewriteTail(line, cursor, 0))

InsertUnit(e, unit) ==
    LET rest == Erased(e.line, e.cursor, Removed(e))
        line == Span(rest, 0, e.cursor) \o <<unit>> \o Skip(rest, e.cursor)
        cursor == normalize_cursor(line, e.cursor + 1)
        clear == IF Removed(e) > 1 THEN Removed(e) - 1 ELSE 0
    IN  echo_text([e EXCEPT !.line = line, !.cursor = cursor],
                  <<unit>> \o RewriteTail(line, cursor, clear))

TypeUnit(e, unit) == IF unit = "BS" THEN Backspace(e) ELSE InsertUnit(e, unit)

-----------------------------------------------------------------------------
(* Editing keys.                                                           *)

Place(e, line, cursor) == [e EXCEPT !.line = line, !.cursor = normalize_cursor(line, cursor)]

Escape(e) ==
    LET n == Len(e.line)
    IN  echo_text(Place(e, <<>>, 0), Backspaces(e.cursor) \o Spaces(n) \o Backspaces(n))

Home(e) == echo_text(Place(e, e.line, 0), Backspaces(e.cursor))

DeleteToStart(e) ==
    LET line == Skip(e.line, e.cursor)
    IN  IF e.cursor = 0 THEN e
        ELSE echo_text(Place(e, line, 0), Backspaces(e.cursor) \o RewriteTail(line, 0, e.cursor))

End(e) ==
    echo_text(Place(e, e.line, Len(e.line)), Span(e.line, e.cursor, Len(e.line)))

DeleteToEnd(e) ==
    LET n == Len(e.line) - e.cursor
    IN  echo_text(Place(e, Span(e.line, 0, e.cursor), e.cursor), Spaces(n) \o Backspaces(n))

Left(e, ctrl) ==
    LET to == IF ctrl THEN word_prev(e.line, e.cursor) ELSE prev_index(e.line, e.cursor)
    IN  echo_text(Place(e, e.line, to), Backspaces(e.cursor - to))

Right(e, ctrl) ==
    LET to == IF ctrl THEN word_next(e.line, e.cursor) ELSE next_index(e.line, e.cursor)
    IN  echo_text(Place(e, e.line, to), Span(e.line, e.cursor, to))

Delete(e) ==
    LET removed == next_index(e.line, e.cursor) - e.cursor
        line == Erased(e.line, e.cursor, removed)
        cursor == normalize_cursor(line, e.cursor)
    IN  echo_text([e EXCEPT !.line = line, !.cursor = cursor], RewriteTail(line, cursor, removed))

Repeat(key) == IF key.repeat = 0 THEN 1 ELSE key.repeat

Strokes(key) == Times(Repeat(key), key)

EditKeys == {"INSERT", "ESCAPE", "HOME", "END", "LEFT", "RIGHT", "DELETE"}

EditKey(e, key) ==
    CASE key.vk = "INSERT" -> [e EXCEPT !.insert = IF Repeat(key) % 2 = 1 THEN ~@ ELSE @]
      [] key.vk = "ESCAPE" -> Escape(e)
      [] key.vk = "HOME" -> IF key.ctrl THEN DeleteToStart(e) ELSE Home(e)
      [] key.vk = "END" -> IF key.ctrl THEN DeleteToEnd(e) ELSE End(e)
      [] key.vk = "LEFT" -> FoldLeft(LAMBDA x, k : Left(x, k.ctrl), e, Strokes(key))
      [] key.vk = "RIGHT" -> FoldLeft(LAMBDA x, k : Right(x, k.ctrl), e, Strokes(key))
      [] key.vk = "DELETE" -> FoldLeft(LAMBDA x, k : Delete(x), e, Strokes(key))

=============================================================================
