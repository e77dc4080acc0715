--------------------------- MODULE MCScreenOutput ---------------------------
(***************************************************************************)
(* Small screens for TLC.                                                  *)
(***************************************************************************)
EXTENDS ScreenOutput

Single(items) == {<<o>> : o \in items}

Plain(names) == {Item(name, 0, 0) : name \in names}

Counted(names, counts) == {Item(name, n, 0) : name \in names, n \in counts}

Printed(glyphs) == {Item("print", g, 0) : g \in glyphs}

Mode(processed, wrap, vt, noAutoReturn) ==
  [processed |-> processed, wrap |-> wrap, vt |-> vt,
   noAutoReturn |-> noAutoReturn]

ProcessedModes ==
  {VtMode, Mode(TRUE, TRUE, FALSE, TRUE), Mode(TRUE, FALSE, FALSE, FALSE)}

VtAndRaw == {VtMode, Mode(FALSE, TRUE, FALSE, FALSE)}

(* Every control sequence, on a screen of two columns and three rows.      *)
ScreenTexts ==
  Single(Printed({"x"}) \cup Plain({"CR", "LF", "BS", "TAB", "RI", "NEL", "IND"})
    \cup Counted({"CUU", "CUF", "CNL", "CPL", "VPA", "CHA"}, {1})
    \cup Counted({"CUD", "CUB", "VPA"}, {2})
    \cup {Item("CUP", 1, 1), Item("CUP", 3, 2)}
    \cup Counted({"ICH", "DCH", "ECH", "IL", "DL", "SU", "SD"}, {1})
    \cup Counted({"ED", "EL"}, 0 .. 2)
    \cup {Item("DECSTBM", 1, 2), Item("DECSTBM", 2, 3), Item("DECSTBM", 0, 0)}
    \cup Counted({"DECOM", "DECAWM"}, {0, 1}))

(* What keeps state from one write to the next.                            *)
SplitTexts ==
  Single(Printed({Blank}) \cup Plain({"CR", "LF", "SC", "RC", "DECSTR", "RIS"})
    \cup {Item("CUP", 2, 2), Item("CUB", 1, 0)}
    \cup Counted({"DECOM", "DECAWM", "IRM", "SGR"}, {0, 1}))

(* The same with the alternate screen.                                     *)
AlternateTexts ==
  SplitTexts \cup Single(Counted({"ALT"}, {0, 1}))

(* What moves the cursor and the margins.                                  *)
GeometryTexts ==
  Single(Printed({Blank}) \cup Plain({"SC", "RC"})
    \cup {Item("CUP", 3, 3), Item("CUP", 0, 0), Item("DECSTBM", 2, 3)})

(* The two screens and what they keep.                                     *)
ScreensTexts ==
  Single(Plain({"SC", "RC", "RIS", "DECALN"}) \cup Counted({"ALT"}, {0, 1})
    \cup {Item("CUP", 3, 2), Item("DECSTBM", 2, 3), Item("CUU", 1, 0)})

Idle(size, window) ==
  [size |-> size, window |-> window, texts |-> {}, modes |-> {VtMode},
   pairs |-> {}, sizes |-> {}, cursors |-> {}, windows |-> {}, infos |-> {},
   attributes |-> {}, visibles |-> {}, scrolls |-> {}, fills |-> {}]

EverySequence ==
  [Idle(At(2, 3), At(2, 2)) EXCEPT
     !.texts = ScreenTexts, !.modes = ProcessedModes,
     !.scrolls = [rect : {Rect(-1, 0, 1, 1)}, clip : {None, Rect(0, 0, 1, 1)},
                  dest : {At(0, 1), At(1, 0)}],
     !.fills = {At(1, 0)}]

SplitWrites ==
  [Idle(At(2, 2), At(2, 2)) EXCEPT !.texts = SplitTexts, !.pairs = SplitTexts]

Geometry ==
  [Idle(At(2, 3), At(2, 2)) EXCEPT
     !.texts = GeometryTexts, !.modes = VtAndRaw,
     !.sizes = {At(1, 2), At(2, 3), At(2, 1)},
     !.cursors = {At(-1, 0), At(0, 0), At(1, 2), At(2, 1)},
     !.windows = {Rect(0, 0, 0, 0), Rect(0, 1, 1, 2), Rect(1, 0, 0, 1),
                  Rect(-1, 0, 1, 1)},
     !.infos = [size : {At(2, 3), At(2, 2)}, cursor : {At(1, 2), At(0, 0)},
                attrs : {0}, scroll : {At(-1, 0), At(0, 1)},
                extent : {At(1, 1), At(0, 0)}],
     !.attributes = {0}, !.visibles = BOOLEAN]

TwoScreens ==
  [Idle(At(2, 3), At(2, 3)) EXCEPT
     !.texts = ScreensTexts, !.sizes = {At(2, 3), At(1, 2)}]

Switches == [Idle(At(2, 2), At(2, 2)) EXCEPT !.texts = AlternateTexts]

VtWorkloads == {EverySequence, SplitWrites}

GeometryWorkloads == {Geometry, TwoScreens}

SwitchWorkloads == {Switches}

=============================================================================
