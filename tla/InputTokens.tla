----------------------------- MODULE InputTokens -----------------------------
(***************************************************************************)
(* What the bytes of the console's input mean: the VT input decoder        *)
(* (vt_input_decoder.cpp) and the decoder of the input code page behind it *)
(* (condrv_server.hpp).                                                    *)
(*                                                                         *)
(* A byte is a string that names its class.  A character beyond the first  *)
(* plane has the bytes "lead" and "trail" and the code units "high" and    *)
(* "low"; other bytes are code units of the same name.  The parameters of  *)
(* a key sequence, a run of digits and semicolons in the code, are one     *)
(* byte that stands for the key they describe; "9b" is the C1 introducer.  *)
(***************************************************************************)
EXTENDS Integers, SequencesExt

CONSTANT
    Keys   \* what each parameter byte describes: a function from bytes to key events

Nul == "NUL"

Key(vk, char, down, repeat, ctrl) ==
    [vk |-> vk, char |-> char, down |-> down, repeat |-> repeat, ctrl |-> ctrl]

SimpleKey(vk) == Key(vk, Nul, TRUE, 1, FALSE)

Skip(s, n) == SubSeq(s, n + 1, Len(s))

First(s, n) == SubSeq(s, 1, IF n < Len(s) THEN n ELSE Len(s))

-----------------------------------------------------------------------------
(* DecodeResult and DecodedToken: `size' is bytes_consumed.                *)

Token(kind, size, value) == [kind |-> kind, size |-> size, value |-> value]

NeedMore == Token("more", 0, <<>>)
NoMatch == Token("none", 0, <<>>)
Ignored(n) == Token("ignored", n, <<>>)
KeyEvent(n, key) == Token("key", n, key)
Text(n, units) == Token("text", n, units)

decode_ss3(bytes) ==
    CASE Len(bytes) < 3 -> NeedMore
      [] Len(bytes) >= 3 /\ bytes[3] \in {"P", "Q", "R", "S"} -> KeyEvent(3, SimpleKey("F"))
      [] OTHER -> NoMatch

CursorKeys ==
    [b \in {"A", "B", "C", "D", "H", "F"} |->
        CASE b = "A" -> "UP" [] b = "B" -> "DOWN" [] b = "C" -> "RIGHT"
          [] b = "D" -> "LEFT" [] b = "H" -> "HOME" [] b = "F" -> "END"]

TildeKeys ==
    [b \in {"2", "3", "5", "6"} |->
        CASE b = "2" -> "INSERT" [] b = "3" -> "DELETE" [] b = "5" -> "PRIOR" [] b = "6" -> "NEXT"]

Parameters == DOMAIN Keys \cup DOMAIN TildeKeys

\* Without the parameter of the key state, the event is a key that goes up.
Win32Key(params) ==
    IF Len(params) = 1 /\ params[1] \in DOMAIN Keys
      THEN Keys[params[1]]
      ELSE Key("NONE", Nul, FALSE, 1, FALSE)

\* The places behind the first `from' bytes that end a run of parameters.
Terminators(bytes, from) == {i \in from + 1 .. Len(bytes) : bytes[i] \notin Parameters}

\* The response to a DA1 query: CSI ? ... c.
DeviceAttributes(bytes, n) ==
    LET ends == Terminators(bytes, n + 1)
    IN  IF ends = {} THEN NeedMore
        ELSE IF bytes[Min(ends)] = "c" THEN Ignored(Min(ends)) ELSE NoMatch

\* CSI 2~ and the like, and win32-input-mode.
KeySequence(bytes, n) ==
    LET ends == Terminators(bytes, n)
        end == Min(ends)
        params == SubSeq(bytes, n + 1, end - 1)
    IN  CASE ends = {} -> NeedMore
          [] ends # {} /\ bytes[end] = "~" /\ Len(params) = 1 /\ params[1] \in DOMAIN TildeKeys ->
                KeyEvent(end, SimpleKey(TildeKeys[params[1]]))
          [] ends # {} /\ bytes[end] = "_" -> KeyEvent(end, Win32Key(params))
          [] OTHER -> NoMatch

\* The introducer takes the first n bytes.
decode_csi(bytes, n) ==
    IF Len(bytes) <= n THEN NeedMore
    ELSE LET first == bytes[n + 1]
         IN  CASE first \in {"I", "O"} -> Ignored(n + 1)
               [] first \in DOMAIN CursorKeys -> KeyEvent(n + 1, SimpleKey(CursorKeys[first]))
               [] first = "?" -> DeviceAttributes(bytes, n)
               [] OTHER -> KeySequence(bytes, n)

\* An ESC alone may be the key or the beginning of a sequence: it waits.
try_decode_vt(bytes) ==
    CASE bytes = <<>> -> NoMatch
      [] bytes = <<"ESC">> -> NeedMore
      [] Len(bytes) >= 2 /\ bytes[1] = "ESC" /\ bytes[2] = "O" -> decode_ss3(bytes)
      [] Len(bytes) >= 2 /\ bytes[1] = "ESC" /\ bytes[2] = "[" -> decode_csi(bytes, 2)
      [] Len(bytes) >= 1 /\ bytes[1] = "9b" -> decode_csi(bytes, 1)
      [] OTHER -> NoMatch

Replacement == "fffd"

\* One character of the input code page; what is not valid is replaced byte by byte.
decode_one_console_input_unit(bytes) ==
    CASE bytes = <<>> \/ bytes = <<"lead">> -> NeedMore
      [] Len(bytes) >= 2 /\ bytes[1] = "lead" /\ bytes[2] \in {"trail", "9b"} -> Text(2, <<"high", "low">>)
      [] Len(bytes) >= 2 /\ bytes[1] = "lead" /\ bytes[2] \notin {"trail", "9b"} -> Text(1, <<Replacement>>)
      [] Len(bytes) >= 1 /\ bytes[1] \in {"trail", "9b"} -> Text(1, <<Replacement>>)
      [] OTHER -> Text(1, <<bytes[1]>>)

decode_one_input_token(bytes) ==
    LET vt == try_decode_vt(bytes)
    IN  IF vt.kind # "none" THEN vt ELSE decode_one_console_input_unit(bytes)

=============================================================================
