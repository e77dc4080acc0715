--------------------------- MODULE MCConsoleState ---------------------------
(* Instances of ConsoleState for TLC. *)
EXTENDS ConsoleState

CONSTANTS p1, p2, h1, h2, h3, h4, b1, b2

VARIABLE focus  \* what the clients of this behaviour do: use "handles" or "histories"

TwoProcesses == {p1, p2}
TwoBuffers == {b1, b2}
FourObjects == {h1, h2, h3, h4}

\* Clients that keep their two standard handles and no others.
StandardHandlesOnly == \A p \in DOMAIN processes :
    Cardinality({h \in OwnedBy(p) : objects[h].kind = "input"}) = 1 /\ Cardinality(OwnedBy(p)) = 2

\* Clients that name no executable and use no history.
HistoriesUnused ==
    /\ \A i \in 1..Len(histories) : histories[i].commands = <<>>
    /\ \A p \in DOMAIN processes : processes[p].app = NoApp
    /\ bufferSize = InitialSize /\ bufferCount = InitialCount /\ ~noDuplicates

InFocus ==
    /\ focus = "handles" => HistoriesUnused
    /\ focus = "histories" =>
         StandardHandlesOnly /\ \A p \in DOMAIN processes : processes[p].app # NoApp

FocusInit == Init /\ focus \in {"handles", "histories"}
FocusNext == Next /\ UNCHANGED focus /\ InFocus'
FocusSpec == FocusInit /\ [][FocusNext]_<<vars, focus>>

\* No step depends on the last reply.
WithoutReplies == <<focus, tableVars, active, historyVars, nextSequence>>

CellSymmetry == Permutations(TwoProcesses) \cup Permutations(FourObjects)
=============================================================================
