---------------------------- MODULE MCInputReads ----------------------------
(***************************************************************************)
(* Small inputs for TLC.  A workload is an input mode, what the terminal   *)
(* sends and what the clients call.                                        *)
(***************************************************************************)
EXTENDS InputReads

MCKeys ==
    [k \in {"x*2", "wide", "C", "c", "BREAK", "break", "ESCAPE", "<-", "->", "->*2", "HOME", "END"} |->
        CASE k = "x*2" -> Key("X", "x", TRUE, 2, FALSE)
          [] k = "wide" -> Key("W", "wide", TRUE, 1, FALSE)
          [] k = "C" -> Key("C", "^C", TRUE, 1, TRUE)
          [] k = "c" -> Key("C", "^C", FALSE, 1, TRUE)
          [] k = "BREAK" -> Key("CANCEL", "^C", TRUE, 1, TRUE)
          [] k = "break" -> Key("CANCEL", "^C", FALSE, 1, TRUE)
          [] k = "ESCAPE" -> Key("ESCAPE", "ESC", TRUE, 1, FALSE)
          [] k = "<-" -> Key("LEFT", Nul, TRUE, 1, TRUE)
          [] k = "->" -> Key("RIGHT", Nul, TRUE, 1, TRUE)
          [] k = "->*2" -> Key("RIGHT", Nul, TRUE, 2, FALSE)
          [] k = "HOME" -> Key("HOME", Nul, TRUE, 0, TRUE)
          [] k = "END" -> Key("END", Nul, TRUE, 1, TRUE)]

Sequence(k) == <<"ESC", "[", k, "_">>

Pair == <<"lead", "trail">>

\* A response that is longer than the window.
LongResponse == <<"ESC", "[", "?", "5", "5", "5", "c">>

Read(unicode, sizes, ctrlZs) ==
    {Request("ReadConsole", unicode, n, z, FALSE, TRUE) : n \in sizes, z \in ctrlZs}

RawReads(sizes) == {Request("RawRead", FALSE, n, FALSE, FALSE, TRUE) : n \in sizes}

Get(n, peek, wait) == Request("GetConsoleInput", TRUE, n, FALSE, peek, wait)

Work(line, processed, ansi) ==
    [line |-> line, processed |-> processed, ansi |-> ansi, budget |-> 3, whole |-> FALSE,
     paced |-> FALSE, flush |-> FALSE, injections |-> {}, messages |-> {}, requests |-> {}]

Arrow == <<"ESC", "[", "D">>

\* Every kind of token with every kind of call.
UnicodeTokens ==
    [Work(FALSE, FALSE, FALSE) EXCEPT
        !.messages = {<<"a">>, Pair, Arrow, <<"ESC", "[", "I">>, LongResponse, Sequence("x*2"),
                      <<"ESC", "O", "P">>},
        !.injections = {<<"high", "low">>},
        !.budget = 2,
        !.requests = Read(TRUE, {2}, {FALSE}) \cup
                     {Get(1, FALSE, TRUE), Get(1, FALSE, FALSE), Get(2, TRUE, FALSE)}]

\* Longer inputs: pairs that are torn and sequences that are never finished.
UnicodeText ==
    [Work(FALSE, FALSE, FALSE) EXCEPT
        !.messages = {<<"a">>, Pair, <<"ESC">>, <<"ESC", "[">>},
        !.budget = 4,
        !.requests = Read(TRUE, {1}, {FALSE}) \cup {Get(1, FALSE, TRUE)}]

UnicodeControls ==
    [Work(FALSE, TRUE, FALSE) EXCEPT
        !.messages = {<<"a">>, Pair, <<"^C">>, <<"^Z">>, Sequence("C"), Sequence("c"), Sequence("BREAK"),
                      Sequence("break")},
        !.flush = TRUE, !.whole = TRUE,
        !.requests = Read(TRUE, {1}, BOOLEAN) \cup {Get(1, FALSE, TRUE), Get(1, TRUE, TRUE)}]

AnsiText ==
    [Work(FALSE, FALSE, TRUE) EXCEPT
        !.messages = {<<"a">>, <<"lead", "9b">>, <<"ESC">>, Arrow, LongResponse, Sequence("wide")},
        !.requests = Read(FALSE, {1}, {FALSE}) \cup RawReads({2})]

AnsiControls ==
    [Work(FALSE, TRUE, TRUE) EXCEPT
        !.messages = {<<"a">>, <<"^C">>, <<"^Z">>, Sequence("C"), Sequence("BREAK")},
        !.flush = TRUE, !.whole = TRUE,
        !.requests = Read(FALSE, {2}, BOOLEAN) \cup RawReads({2})]

EditingCharacters ==
    [Work(TRUE, TRUE, FALSE) EXCEPT
        !.messages = {<<"a">>, Pair, <<"BS">>, Arrow, <<"ESC", "[", "2", "~">>, <<"ESC", "[", "3", "~">>,
                      Sequence("ESCAPE"), Sequence("->*2")},
        !.budget = 6, !.whole = TRUE, !.paced = TRUE,
        !.requests = Read(TRUE, {1}, {FALSE})]

EditingWords ==
    [Work(TRUE, TRUE, FALSE) EXCEPT
        !.messages = {<<"a">>, <<" ">>, <<"ESC", "[", "I">>, <<"ESC", "[", "H">>, <<"ESC", "[", "F">>, Sequence("<-"),
                      Sequence("->"), Sequence("HOME"), Sequence("END")},
        !.budget = 6, !.whole = TRUE, !.paced = TRUE,
        !.requests = Read(TRUE, {1}, {FALSE})]

Lines ==
    [Work(TRUE, TRUE, FALSE) EXCEPT
        !.messages = {<<"a">>, Pair, <<"CR", "LF">>, <<"^C">>, <<"^Z">>, Sequence("BREAK"), Sequence("x*2")},
        !.flush = TRUE, !.paced = TRUE,
        !.requests = Read(TRUE, {1, 3}, {TRUE}) \cup Read(FALSE, {1, 4}, {FALSE})]

AllWorkloads ==
    {UnicodeTokens, UnicodeText, UnicodeControls, AnsiText, AnsiControls, EditingCharacters,
     EditingWords, Lines}
=============================================================================
