----------------------------- MODULE CommandLine -----------------------------
(***************************************************************************)
(* The client command line a launch rebuilds from its own arguments, and   *)
(* how the client's CommandLineToArgvW will split it.  A token is a        *)
(* sequence of characters; the name of a host option stands as one.        *)
(***************************************************************************)
EXTENDS Naturals, Sequences, SequencesExt

Space == " "
Quote == "\""
Backslash == "\\"

Backslashes(n) == [i \in 1 .. n |-> Backslash]

HasSpace(token) == \E i \in 1 .. Len(token) : token[i] = Space
Plain(token) == \A i \in 1 .. Len(token) : token[i] \notin {Space, Quote, Backslash}

\* One character of escape_argument's loop; slashes counts the backslashes just before it.
EscapeChar(acc, ch) ==
  CASE ch = Backslash -> [text |-> Append(acc.text, ch), slashes |-> acc.slashes + 1]
    [] ch = Quote -> [text |-> acc.text \o Backslashes(acc.slashes + 1) \o <<Quote>>,
                      slashes |-> 0]
    [] OTHER -> [text |-> Append(acc.text, ch), slashes |-> 0]

\* Mutant: backslashes before the closing quote are not doubled.
EscapeArgumentTail(token) ==
  IF token = <<>> THEN <<Quote, Quote>>
  ELSE IF Plain(token) THEN token
  ELSE LET open == IF HasSpace(token) THEN <<Quote>> ELSE <<>>
       IN FoldLeft(EscapeChar, [text |-> open, slashes |-> 0], token).text \o open

\* escape_argument: the quotes around a token with a space, and every backslash doubled
\* that a quote follows.
EscapeArgument(token) ==
  IF token = <<>> THEN <<Quote, Quote>>
  ELSE IF Plain(token) THEN token
  ELSE LET open == IF HasSpace(token) THEN <<Quote>> ELSE <<>>
           body == FoldLeft(EscapeChar, [text |-> open, slashes |-> 0], token)
       IN IF HasSpace(token) THEN body.text \o Backslashes(body.slashes) \o <<Quote>>
          ELSE body.text

\* set_client_command_line: the escaped tokens with single spaces between them.
ClientCommandLine(tokens) ==
  FoldLeft(LAMBDA text, token :
             IF text = <<>> THEN EscapeArgument(token)
             ELSE text \o <<Space>> \o EscapeArgument(token),
           <<>>, tokens)

-----------------------------------------------------------------------------
(* CommandLineToArgvW: the program's name ends at a space, or at the next quote
   when it begins with one; in the rest 2n backslashes before a quote are n and
   the quote opens or closes, 2n+1 are n and a quote that is a character.       *)

ArgvStart == [words |-> <<>>, word |-> <<>>, begun |-> FALSE, quoted |-> FALSE, slashes |-> 0]

EndWord(acc) ==
  LET word == acc.word \o Backslashes(acc.slashes)
  IN IF acc.begun \/ word # <<>> THEN [ArgvStart EXCEPT !.words = Append(acc.words, word)]
     ELSE [ArgvStart EXCEPT !.words = acc.words]

ProgramChar(acc, ch) ==
  CASE ch = Quote /\ ~acc.begun /\ acc.word = <<>> -> [acc EXCEPT !.begun = TRUE, !.quoted = TRUE]
    [] ch = Quote /\ acc.quoted -> [acc EXCEPT !.quoted = FALSE]
    [] ch = Space /\ ~acc.quoted -> EndWord(acc)
    [] OTHER -> [acc EXCEPT !.word = Append(@, ch)]

ArgumentChar(acc, ch) ==
  CASE ch = Backslash -> [acc EXCEPT !.slashes = @ + 1]
    [] ch = Quote /\ acc.slashes % 2 = 1 ->
         [acc EXCEPT !.word = @ \o Backslashes(acc.slashes \div 2) \o <<Quote>>,
                     !.slashes = 0, !.begun = TRUE]
    [] ch = Quote ->
         [acc EXCEPT !.word = @ \o Backslashes(acc.slashes \div 2), !.slashes = 0,
                     !.begun = TRUE, !.quoted = ~@]
    [] ch = Space /\ ~acc.quoted -> EndWord(acc)
    [] OTHER -> [acc EXCEPT !.word = Append(@ \o Backslashes(acc.slashes), ch), !.slashes = 0]

Argv(text) ==
  IF text = <<>> THEN <<>>
  ELSE EndWord(FoldLeft(LAMBDA acc, ch : IF acc.words = <<>> THEN ProgramChar(acc, ch)
                                         ELSE ArgumentChar(acc, ch),
                        ArgvStart, text)).words
=============================================================================
