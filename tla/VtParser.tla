------------------------------ MODULE VtParser ------------------------------
(***************************************************************************)
(* The parser in apply_text_to_screen_buffer that finds the control        *)
(* sequences in the text of writes.  Its state is kept in the screen       *)
(* buffer, so a sequence may be cut anywhere by the end of a write.        *)
(*                                                                         *)
(* One step takes one character.  A character stands for its class: the    *)
(* digits and the separator, ESC and the C1 codes "CSI", "OSC", "ST" and   *)
(* "DCS" (which here also stands for PM, APC and SOS), "BEL", "#" and "!"  *)
(* for the intermediates 0x20..0x2f, "[", "]", "P", "\" and "m" for        *)
(* themselves, and "c" for the other finals.                               *)
(***************************************************************************)
EXTENDS Naturals, Sequences, FiniteSets

CONSTANTS
  Chars,         \* the characters that are written
  MaxCsi,        \* max_sequence_length of a CSI sequence; the code has 128
  MaxEsc,        \* max_sequence_length of an ESC dispatch; 16
  MaxIntermediates, \* size of esc_intermediates; 8
  MaxParams,     \* size of params; 16
  MaxNumber,     \* a number above it takes no more digits; 1000000
  MaxPayload,    \* size of osc_payload; 4096
  MaxText        \* bound: how many characters a sequence has that no limit ends

ASSUME LimitsAssumption ==
  /\ MaxCsi \in Nat /\ MaxIntermediates \in Nat /\ MaxParams \in Nat
  /\ MaxNumber \in Nat /\ MaxPayload \in Nat /\ MaxText \in Nat
  /\ MaxEsc \in Nat \ {0, 1}

VARIABLES
  phase,         \* VtOutputParseState::phase
  esc,           \* esc_intermediates, and esc_length
  csi,           \* csi, csi_current, csi_have_digits, ..., csi_length
  osc,           \* osc_param, osc_action, ..., osc_payload
  done,          \* what the last character was turned into
  seen           \* the characters of the sequence so far, for the properties

vars == <<phase, esc, csi, osc, done, seen>>

Digits == {"0", "1", "2"}

DigitValue(ch) == CASE ch = "0" -> 0 [] ch = "1" -> 1 [] ch = "2" -> 2

Intermediates == {"#", "!"}

(* 0x40..0x7e, the finals of CSI, and 0x30..0x7e, those of ESC dispatch.   *)
CsiFinals == {"[", "]", "P", "\\", "m", "c"}

EscFinals == CsiFinals \cup Digits \cup {";", "?"}

(* The OSC actions that set the title.                                     *)
TitleActions == {0, 1, 2, 21}

NoEsc == [intermediates |-> <<>>, length |-> 0]

NoCsi == [params |-> <<>>, private |-> FALSE, exclamation |-> FALSE,
          current |-> 0, haveDigits |-> FALSE, lastSeparator |-> FALSE,
          length |-> 0]

NoOsc == [param |-> 0, haveDigits |-> FALSE, inParam |-> TRUE, action |-> 0,
          capture |-> FALSE, payload |-> <<>>]

(* What becomes of a character: it is consumed, printed, or it completes a *)
(* sequence.                                                               *)
Consumed == [what |-> "consumed"]

Printed(ch) == [what |-> "print", char |-> ch]

Csi(params, c, ch) == [what |-> "csi", final |-> ch, params |-> params,
                       private |-> c.private, exclamation |-> c.exclamation]

EscDispatch(intermediates, ch) ==
  [what |-> "esc", final |-> ch, intermediates |-> intermediates]

Title(o) == [what |-> "title", text |-> o.payload]

-----------------------------------------------------------------------------
Init == /\ phase = "ground" /\ esc = NoEsc /\ csi = NoCsi /\ osc = NoOsc
        /\ done = Consumed /\ seen = <<>>

(* The sequence goes on in phase p.                                        *)
Continue(p, ch) == /\ phase' = p /\ done' = Consumed
                   /\ seen' = Append(seen, ch)

(* Text that no limit of the code ends; a string is not recorded.          *)
ContinueText(p, ch) == Len(seen) < MaxText /\ Continue(p, ch)

Skip(p) == phase' = p /\ done' = Consumed /\ UNCHANGED seen

(* The sequence, if any, is over.                                          *)
Finish(result) == phase' = "ground" /\ done' = result /\ seen' = <<>>

(* A variant of the next definition: one element too many.                 *)
AppendToFull(s, max, v) == IF Len(s) <= max THEN Append(s, v) ELSE s

AppendTo(s, max, v) == IF Len(s) < max THEN Append(s, v) ELSE s

(* A number stops growing once it is above the limit.                      *)
AddDigit(n, ch) == IF n <= MaxNumber THEN n * 10 + DigitValue(ch) ELSE n

Value(c) == IF c.haveDigits THEN c.current ELSE 0

-----------------------------------------------------------------------------
Ground(ch) ==
  /\ phase = "ground"
  /\ \/ ch = "ESC" /\ Continue("escape", ch) /\ UNCHANGED <<csi, osc>>
     \/ ch = "CSI" /\ Continue("csi", ch) /\ csi' = NoCsi /\ UNCHANGED osc
     \/ ch = "OSC" /\ Continue("osc", ch) /\ osc' = NoOsc /\ UNCHANGED csi
     \/ ch = "DCS" /\ Continue("string", ch) /\ UNCHANGED <<csi, osc>>
     \/ ch = "ST" /\ Finish(Consumed) /\ UNCHANGED <<csi, osc>>
     \/ /\ ch \notin {"ESC", "CSI", "OSC", "DCS", "ST"}
        /\ Finish(Printed(ch)) /\ UNCHANGED <<csi, osc>>
  /\ UNCHANGED esc

(***************************************************************************)
(* The character behind ESC: an introducer, an intermediate, or a final,   *)
(* which is dispatched at once.  Whatever has no meaning is consumed.      *)
(***************************************************************************)
Escape(ch) ==
  /\ phase = "escape"
  /\ \/ ch = "[" /\ Continue("csi", ch) /\ csi' = NoCsi /\ UNCHANGED osc
     \/ ch = "]" /\ Continue("osc", ch) /\ osc' = NoOsc /\ UNCHANGED csi
     \/ ch = "P" /\ Continue("string", ch) /\ UNCHANGED <<csi, osc>>
     \/ /\ ch \in Intermediates
        /\ Continue("esc_dispatch", ch) /\ UNCHANGED <<csi, osc>>
     \/ /\ ch \notin {"[", "]", "P"} \cup Intermediates
        /\ Finish(EscDispatch(<<>>, ch)) /\ UNCHANGED <<csi, osc>>
  /\ esc' = IF ch \in Intermediates
            THEN [intermediates |-> AppendTo(<<>>, MaxIntermediates, ch),
                  length |-> 1]
            ELSE NoEsc

(* Too many intermediates, like a character that is no final, end it.      *)
EscIntermediate(ch) ==
  /\ phase = "esc_dispatch"
  /\ \/ /\ ch \in Intermediates /\ esc.length + 1 < MaxEsc
        /\ Continue("esc_dispatch", ch)
        /\ esc' = [intermediates |-> AppendTo(esc.intermediates,
                                              MaxIntermediates, ch),
                   length |-> esc.length + 1]
     \/ /\ ch \in Intermediates /\ esc.length + 1 >= MaxEsc
        /\ Finish(Consumed) /\ esc' = NoEsc
     \/ /\ ch \in EscFinals
        /\ Finish(EscDispatch(esc.intermediates, ch)) /\ esc' = NoEsc
     \/ /\ ch \notin Intermediates \cup EscFinals
        /\ Finish(Consumed) /\ esc' = NoEsc
  /\ UNCHANGED <<csi, osc>>

-----------------------------------------------------------------------------
Digit(ch) == [csi EXCEPT !.current = AddDigit(@, ch), !.haveDigits = TRUE,
                         !.lastSeparator = FALSE]

(* A variant of the next definition: the separator keeps the old number.   *)
SeparatorStale ==
  [csi EXCEPT !.params = AppendTo(@, MaxParams, Value(csi)),
              !.haveDigits = FALSE, !.lastSeparator = TRUE]

Separator ==
  [csi EXCEPT !.params = AppendTo(@, MaxParams, Value(csi)), !.current = 0,
              !.haveDigits = FALSE, !.lastSeparator = TRUE]

(* What a character that is no final adds to the sequence, if anything.    *)
Collect(ch) ==
  CASE ch \in Digits -> Digit(ch)
    [] ch = ";" -> Separator
    [] ch = "?" -> [csi EXCEPT !.private = TRUE]
    [] ch = "!" -> [csi EXCEPT !.exclamation = TRUE]
    [] OTHER -> csi

(* The parameters that a final dispatches; SGR without any has one, 0.     *)
FinalParams(final) ==
  LET params == IF csi.haveDigits \/ csi.lastSeparator
                THEN AppendTo(csi.params, MaxParams, Value(csi))
                ELSE csi.params
  IN IF final = "m" /\ params = <<>> THEN <<0>> ELSE params

(* A variant of the next definition: what is ignored is not counted.       *)
NextCsiCountsKnown(ch) ==
  IF Collect(ch) = csi THEN csi ELSE [Collect(ch) EXCEPT !.length = @ + 1]

NextCsi(ch) == [Collect(ch) EXCEPT !.length = @ + 1]

(***************************************************************************)
(* Every character counts, the ignored ones too: the one behind the last   *)
(* that is allowed ends the sequence, whatever it is.                      *)
(***************************************************************************)
InCsi(ch) ==
  /\ phase = "csi"
  /\ \/ /\ csi.length >= MaxCsi
        /\ Finish(Consumed) /\ csi' = NoCsi
     \/ /\ csi.length < MaxCsi /\ ch \in CsiFinals
        /\ Finish(Csi(FinalParams(ch), csi, ch)) /\ csi' = NoCsi
     \/ /\ csi.length < MaxCsi /\ ch \notin CsiFinals
        /\ Continue("csi", ch) /\ csi' = NextCsi(ch)
  /\ UNCHANGED <<esc, osc>>

-----------------------------------------------------------------------------
(* The number in front of the text of an OSC; anything else ends it.       *)
OscParam(ch) ==
  /\ phase = "osc" /\ osc.inParam
  /\ \/ /\ ch \in Digits /\ ContinueText("osc", ch)
        /\ osc' = [osc EXCEPT !.param = AddDigit(@, ch), !.haveDigits = TRUE]
     \/ /\ ch = ";" /\ ContinueText("osc", ch)
        /\ LET action == IF osc.haveDigits THEN osc.param ELSE 0
           IN osc' = [osc EXCEPT !.inParam = FALSE, !.action = action,
                                 !.capture = action \in TitleActions]
     \/ /\ ch \notin Digits \cup {";"}
        /\ Finish(Consumed) /\ osc' = NoOsc
  /\ UNCHANGED <<esc, csi>>

EndOsc == /\ Finish(IF osc.capture THEN Title(osc) ELSE Consumed)
          /\ osc' = NoOsc

(* A variant of the next definition: what stands behind an ESC is lost.    *)
CaptureForgetsEscaped(ch) ==
  IF osc.capture /\ phase = "osc"
  THEN [osc EXCEPT !.payload = AppendTo(@, MaxPayload, ch)]
  ELSE osc

Capture(ch) ==
  IF osc.capture
  THEN [osc EXCEPT !.payload = AppendTo(@, MaxPayload, ch)]
  ELSE osc

(***************************************************************************)
(* The text, up to BEL or ST.  The character behind an ESC that does not   *)
(* make it ST is looked at again as text.                                  *)
(***************************************************************************)
OscText(ch) ==
  /\ \/ phase = "osc" /\ ~osc.inParam
     \/ phase = "osc_escape" /\ ch # "\\"
  /\ \/ ch \in {"BEL", "ST"} /\ EndOsc
     \/ ch = "ESC" /\ ContinueText("osc_escape", ch) /\ UNCHANGED osc
     \/ /\ ch \notin {"BEL", "ST", "ESC"}
        /\ ContinueText("osc", ch)
        /\ osc' = Capture(ch)
  /\ UNCHANGED <<esc, csi>>

OscTerminator(ch) ==
  /\ phase = "osc_escape" /\ ch = "\\"
  /\ EndOsc /\ UNCHANGED <<esc, csi>>

(* The text of DCS, PM, APC and SOS is dropped, up to ST.                  *)
InString(ch) ==
  /\ \/ phase = "string"
     \/ phase = "string_escape" /\ ch # "\\"
  /\ \/ ch = "ST" /\ Finish(Consumed)
     \/ ch = "ESC" /\ Skip("string_escape")
     \/ /\ ch \notin {"ST", "ESC"} /\ Skip("string")
  /\ UNCHANGED <<esc, csi, osc>>

StringTerminator(ch) ==
  /\ phase = "string_escape" /\ ch = "\\"
  /\ Finish(Consumed) /\ UNCHANGED <<esc, csi, osc>>

(* A write without VT processing begins by dropping what was begun.        *)
WriteWithoutVt(ch) ==
  /\ Finish(Printed(ch))
  /\ esc' = NoEsc /\ csi' = NoCsi /\ osc' = NoOsc

Next == \E ch \in Chars :
  \/ Ground(ch) \/ Escape(ch) \/ EscIntermediate(ch) \/ InCsi(ch)
  \/ OscParam(ch) \/ OscText(ch) \/ OscTerminator(ch)
  \/ InString(ch) \/ StringTerminator(ch) \/ WriteWithoutVt(ch)

Spec == Init /\ [][Next]_vars

-----------------------------------------------------------------------------
(* Types and array bounds: no character writes past esc_intermediates,     *)
(* csi.params or osc_payload, and no number grows past the one digit that  *)
(* is added after the check, so it fits its unsigned.                      *)
TypeOK ==
  /\ phase \in {"ground", "escape", "esc_dispatch", "csi", "osc",
                "osc_escape", "string", "string_escape"}
  /\ esc \in [intermediates : Seq(Chars), length : Nat]
  /\ Len(esc.intermediates) <= MaxIntermediates
  /\ csi \in [params : Seq(Nat), private : BOOLEAN, exclamation : BOOLEAN,
              current : 0 .. 10 * MaxNumber + 9, haveDigits : BOOLEAN,
              lastSeparator : BOOLEAN, length : Nat]
  /\ Len(csi.params) <= MaxParams
  /\ osc \in [param : 0 .. 10 * MaxNumber + 9, haveDigits : BOOLEAN,
              inParam : BOOLEAN, action : 0 .. 10 * MaxNumber + 9,
              capture : BOOLEAN, payload : Seq(Chars)]
  /\ Len(osc.payload) <= MaxPayload
  /\ seen \in Seq(Chars)

(* The characters of the sequence behind its introducer.                   *)
Body == IF seen[1] = "ESC" THEN SubSeq(seen, 3, Len(seen)) ELSE Tail(seen)

(***************************************************************************)
(* The length limits count the characters of this sequence and of no other *)
(* one, in whatever writes they came and however earlier sequences ended.  *)
(* So csi_length and esc_length end an unfinished CSI or ESC sequence      *)
(* after 128 and after 15 characters: text behind it is printed again.     *)
(***************************************************************************)
SequencesEnd ==
  /\ phase = "csi" => csi.length = Len(Body) /\ csi.length <= MaxCsi
  /\ phase = "esc_dispatch" =>
       /\ esc.length = Len(seen) - 1 /\ esc.length < MaxEsc
       /\ esc.intermediates =
            SubSeq(seen, 2, 1 + Len(esc.intermediates))
       /\ Len(esc.intermediates) \in {esc.length, MaxIntermediates}

(***************************************************************************)
(* A reference for the parameters: the digits and separators of the body,  *)
(* cut at the separators, each piece read as a number.                     *)
(***************************************************************************)
IsParameter(ch) == ch \in Digits \cup {";"}

Cuts(text) == {0, Len(text) + 1} \cup {k \in DOMAIN text : text[k] = ";"}

Pieces(text) ==
  LET Nth(n) == CHOOSE k \in Cuts(text) :
                  Cardinality({j \in Cuts(text) : j < k}) = n
  IN [n \in 1 .. Cardinality(Cuts(text)) - 1 |->
        SubSeq(text, Nth(n - 1) + 1, Nth(n) - 1)]

(* The number that the first k digits of a piece make.                     *)
Number(piece) ==
  LET n[k \in 0 .. Len(piece)] ==
        IF k = 0 THEN 0 ELSE 10 * n[k - 1] + DigitValue(piece[k])
      large == {k \in DOMAIN piece : n[k] > MaxNumber}
  IN n[IF large = {} THEN Len(piece)
       ELSE CHOOSE k \in large : \A j \in large : k <= j]

Parameters(body, final) ==
  LET text == SelectSeq(body, IsParameter)
      pieces == Pieces(text)
      kept == IF Len(pieces) < MaxParams THEN Len(pieces) ELSE MaxParams
  IN IF text # <<>> THEN [n \in 1 .. kept |-> Number(pieces[n])]
     ELSE IF final = "m" THEN <<0>> ELSE <<>>

(***************************************************************************)
(* What apply_csi is given is a function of the text of the sequence: the  *)
(* numbers between its separators, an empty one 0, the first MaxParams of  *)
(* them, and the markers that stand in it.  Nothing of an earlier or an    *)
(* abandoned sequence shows in it.                                         *)
(***************************************************************************)
CsiFaithful == [][ done'.what = "csi" =>
  /\ phase = "csi"
  /\ done'.params = Parameters(Body, done'.final)
  /\ done'.private = (\E k \in DOMAIN Body : Body[k] = "?")
  /\ done'.exclamation = (\E k \in DOMAIN Body : Body[k] = "!") ]_vars

NotEsc(ch) == ch # "ESC"

(***************************************************************************)
(* A title that OSC 0, 1, 2 or 21 sets is the text behind the first        *)
(* separator, cut to the size of osc_payload; an ESC in it is dropped.     *)
(***************************************************************************)
TitleFaithful == [][ done'.what = "title" =>
  LET start == CHOOSE k \in DOMAIN Body :
                 Body[k] = ";" /\ \A j \in 1 .. k - 1 : Body[j] # ";"
      text == SelectSeq(SubSeq(Body, start + 1, Len(Body)), NotEsc)
      kept == IF Len(text) < MaxPayload THEN Len(text) ELSE MaxPayload
  IN /\ phase \in {"osc", "osc_escape"}
     /\ Number(SubSeq(Body, 1, start - 1)) \in TitleActions
     /\ done'.text = SubSeq(text, 1, kept) ]_vars

=============================================================================
