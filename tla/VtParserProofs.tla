--------------------------- MODULE VtParserProofs ---------------------------
(***************************************************************************)
(* The arrays and the length limits of the VT output parser hold for any   *)
(* sizes and any text.                                                     *)
(***************************************************************************)
EXTENDS VtParser, SequenceTheorems, TLAPS

(* A bounded append stays in bounds and only ever extends its sequence.    *)
LEMMA AppendToBounded ==
  ASSUME NEW S, NEW s \in Seq(S), NEW max \in Nat, NEW v \in S, Len(s) <= max
  PROVE  /\ AppendTo(s, max, v) \in Seq(S)
         /\ Len(AppendTo(s, max, v)) <= max
         /\ AppendTo(s, max, v) \in {s, Append(s, v)}
BY DEF AppendTo

(* A number takes a digit only while it is at most MaxNumber.              *)
LEMMA AddDigitBounded ==
  ASSUME NEW n \in 0 .. 10 * MaxNumber + 9, NEW ch \in Digits
  PROVE  AddDigit(n, ch) \in 0 .. 10 * MaxNumber + 9
<1>1. DigitValue(ch) \in 0 .. 2
  BY DEF DigitValue, Digits
<1>2. CASE n <= MaxNumber
  <2>1. n * 10 + DigitValue(ch) \in 0 .. 10 * MaxNumber + 9
    BY <1>1, <1>2, LimitsAssumption
  <2>2. QED
    BY <1>2, <2>1 DEF AddDigit
<1>3. CASE ~(n <= MaxNumber)
  BY <1>3 DEF AddDigit
<1>4. QED
  BY <1>2, <1>3

(* TypeOK without the phase and the sequence, which every step changes.    *)
EscOK == /\ esc \in [intermediates : Seq(Chars), length : Nat]
         /\ Len(esc.intermediates) <= MaxIntermediates

CsiRecords ==
  [params : Seq(Nat), private : BOOLEAN, exclamation : BOOLEAN,
   current : 0 .. 10 * MaxNumber + 9, haveDigits : BOOLEAN,
   lastSeparator : BOOLEAN, length : Nat]

CsiOK == csi \in CsiRecords /\ Len(csi.params) <= MaxParams

OscRecords ==
  [param : 0 .. 10 * MaxNumber + 9, haveDigits : BOOLEAN, inParam : BOOLEAN,
   action : 0 .. 10 * MaxNumber + 9, capture : BOOLEAN, payload : Seq(Chars)]

OscOK == osc \in OscRecords /\ Len(osc.payload) <= MaxPayload

PhaseOK ==
  /\ phase \in {"ground", "escape", "esc_dispatch", "csi", "osc",
                "osc_escape", "string", "string_escape"}
  /\ seen \in Seq(Chars)

LEMMA EscReset == ASSUME esc' = NoEsc PROVE EscOK'
BY LimitsAssumption DEF EscOK, NoEsc

LEMMA CsiReset == ASSUME csi' = NoCsi PROVE CsiOK'
<1>1. 0 \in 0 .. 10 * MaxNumber + 9
  BY LimitsAssumption
<1>2. QED
  BY <1>1, LimitsAssumption DEF CsiOK, CsiRecords, NoCsi

LEMMA OscReset == ASSUME osc' = NoOsc PROVE OscOK'
<1>1. 0 \in 0 .. 10 * MaxNumber + 9
  BY LimitsAssumption
<1>2. QED
  BY <1>1, LimitsAssumption DEF OscOK, OscRecords, NoOsc

(* Where a sequence may go on, it is recorded with its new character.      *)
LEMMA ContinueOK ==
  ASSUME PhaseOK, NEW ch \in Chars,
         NEW p \in {"escape", "esc_dispatch", "csi", "osc", "osc_escape",
                    "string", "string_escape"}, Continue(p, ch)
  PROVE  PhaseOK' /\ Len(seen') = Len(seen) + 1
BY DEF PhaseOK, Continue

LEMMA FinishOK ==
  ASSUME NEW result, Finish(result)
  PROVE  PhaseOK' /\ phase' = "ground" /\ seen' = <<>>
BY DEF PhaseOK, Finish

LEMMA ValueIsNat == ASSUME NEW c \in CsiRecords PROVE Value(c) \in Nat
BY LimitsAssumption DEF Value, CsiRecords

LEMMA ZeroInRange == 0 \in 0 .. 10 * MaxNumber + 9
BY LimitsAssumption

(* No character takes the parameters out of their array.                   *)
LEMMA CollectOK ==
  ASSUME CsiOK, NEW ch
  PROVE  /\ Collect(ch) \in CsiRecords
         /\ Len(Collect(ch).params) <= MaxParams
         /\ Collect(ch).length = csi.length
<1>1. CASE ch \in Digits
  <2>1. csi.current \in 0 .. 10 * MaxNumber + 9
    BY DEF CsiOK, CsiRecords
  <2> DEFINE number == AddDigit(csi.current, ch)
  <2>2. number \in 0 .. 10 * MaxNumber + 9
    BY <1>1, <2>1, AddDigitBounded
  <2>3. Collect(ch) = [csi EXCEPT !.current = number, !.haveDigits = TRUE,
                                  !.lastSeparator = FALSE]
    BY <1>1, Zenon DEF Collect, Digit, Digits
  <2> HIDE DEF number
  <2>4. QED
    BY <2>2, <2>3, Zenon DEF CsiOK, CsiRecords
<1>2. CASE ch = ";"
  <2> DEFINE params == AppendTo(csi.params, MaxParams, Value(csi))
  <2>1. csi.params \in Seq(Nat) /\ Len(csi.params) <= MaxParams
    BY DEF CsiOK, CsiRecords
  <2>2. params \in Seq(Nat) /\ Len(params) <= MaxParams
    BY <2>1, ValueIsNat, AppendToBounded, LimitsAssumption DEF CsiOK
  <2>3. Collect(ch) = [csi EXCEPT !.params = params, !.current = 0,
                                  !.haveDigits = FALSE,
                                  !.lastSeparator = TRUE]
    BY <1>2, Zenon DEF Collect, Separator, Digits
  <2> HIDE DEF params
  <2>4. QED
    BY <2>2, <2>3, ZeroInRange, Zenon DEF CsiOK, CsiRecords
<1>3. CASE ch = "?"
  <2>1. Collect(ch) = [csi EXCEPT !.private = TRUE]
    BY <1>3, Zenon DEF Collect, Digits
  <2>2. QED
    BY <2>1, Zenon DEF CsiOK, CsiRecords
<1>4. CASE ch = "!"
  <2>1. Collect(ch) = [csi EXCEPT !.exclamation = TRUE]
    BY <1>4, Zenon DEF Collect, Digits
  <2>2. QED
    BY <2>1, Zenon DEF CsiOK, CsiRecords
<1>5. CASE ch \notin Digits \cup {";", "?", "!"}
  <2>1. Collect(ch) = csi
    BY <1>5, Zenon DEF Collect
  <2>2. QED
    BY <2>1 DEF CsiOK
<1>6. QED
  BY <1>1, <1>2, <1>3, <1>4, <1>5, Zenon

LEMMA LengthOK ==
  ASSUME NEW c \in CsiRecords, NEW n \in Nat
  PROVE  /\ [c EXCEPT !.length = n] \in CsiRecords
         /\ [c EXCEPT !.length = n].params = c.params
         /\ [c EXCEPT !.length = n].length = n
BY SMTT(30) DEF CsiRecords

(* The length grows by one with every character, known or not.             *)
LEMMA NextCsiOK ==
  ASSUME CsiOK, NEW ch
  PROVE  /\ NextCsi(ch) \in CsiRecords
         /\ Len(NextCsi(ch).params) <= MaxParams
         /\ NextCsi(ch).length = csi.length + 1
<1>1. PICK c \in CsiRecords : c = Collect(ch)
  BY CollectOK
<1>2. NextCsi(ch) = [c EXCEPT !.length = c.length + 1]
  BY <1>1 DEF NextCsi
<1>3. c.length + 1 \in Nat
  BY DEF CsiRecords
<1>4. /\ [c EXCEPT !.length = c.length + 1] \in CsiRecords
      /\ [c EXCEPT !.length = c.length + 1].params = c.params
      /\ [c EXCEPT !.length = c.length + 1].length = c.length + 1
  BY <1>3, LengthOK
<1>5. Len(c.params) <= MaxParams /\ c.length = csi.length
  BY <1>1, CollectOK
<1>6. QED
  BY <1>2, <1>4, <1>5

LEMMA MembershipIsBoolean == ASSUME NEW x, NEW S PROVE (x \in S) \in BOOLEAN
<1>1. CASE x \in S
  BY <1>1
<1>2. CASE x \notin S
  BY <1>2
<1>3. QED
  BY <1>1, <1>2

(* The steps of an OSC keep its number and its payload in bounds.          *)
LEMMA OscParamOK == ASSUME OscOK, NEW ch, OscParam(ch) PROVE OscOK'
<1>0. osc.param \in 0 .. 10 * MaxNumber + 9
  BY DEF OscOK, OscRecords
<1>1. CASE ch \in Digits
  <2>1. PICK n \in 0 .. 10 * MaxNumber + 9 : n = AddDigit(osc.param, ch)
    BY <1>0, <1>1, AddDigitBounded
  <2>2. osc' = [osc EXCEPT !.param = n, !.haveDigits = TRUE]
    BY <1>1, <2>1, Zenon DEF OscParam, Digits
  <2>3. QED
    BY <2>2, Zenon DEF OscOK, OscRecords
<1>2. CASE ch = ";"
  <2>1. PICK n \in 0 .. 10 * MaxNumber + 9, c \in BOOLEAN :
          osc' = [osc EXCEPT !.inParam = FALSE, !.action = n, !.capture = c]
    <3> DEFINE action == IF osc.haveDigits THEN osc.param ELSE 0
    <3>1. osc' = [osc EXCEPT !.inParam = FALSE, !.action = action,
                             !.capture = action \in TitleActions]
      BY <1>2, Zenon DEF OscParam, Digits
    <3>2. action \in 0 .. 10 * MaxNumber + 9
      <4>1. CASE osc.haveDigits
        BY <1>0, <4>1, Zenon
      <4>2. CASE ~osc.haveDigits
        BY <4>2, ZeroInRange, Zenon
      <4>3. QED
        BY <4>1, <4>2, Zenon
    <3>3. (action \in TitleActions) \in BOOLEAN
      BY MembershipIsBoolean, Zenon
    <3>4. QED
      BY <3>1, <3>2, <3>3, Zenon
  <2>2. QED
    BY <2>1, Zenon DEF OscOK, OscRecords
<1>3. CASE ch \notin Digits \cup {";"}
  BY <1>3, OscReset, Zenon DEF OscParam
<1>4. QED
  BY <1>1, <1>2, <1>3, Zenon

LEMMA CaptureOK ==
  ASSUME OscOK, NEW ch \in Chars, osc' = Capture(ch)
  PROVE  OscOK'
<1>1. osc.payload \in Seq(Chars) /\ Len(osc.payload) <= MaxPayload
  BY DEF OscOK, OscRecords
<1>2. PICK text \in Seq(Chars) : /\ text = AppendTo(osc.payload, MaxPayload, ch)
                                 /\ Len(text) <= MaxPayload
  BY <1>1, AppendToBounded, LimitsAssumption
<1>3. osc' = osc \/ osc' = [osc EXCEPT !.payload = text]
  BY <1>2 DEF Capture
<1>4. QED
  BY <1>2, <1>3, SMTT(30) DEF OscOK, OscRecords

(***************************************************************************)
(* The inductive invariant.  SequencesEnd speaks of two phases only; to    *)
(* enter them with the right count, the sequence must be empty in ground   *)
(* and be just ESC in escape, and a CSI must begin with its introducer.    *)
(***************************************************************************)
Introducer == IF seen[1] = "ESC" THEN 2 ELSE 1

IntermediatesOK ==
  /\ esc.length = Len(seen) - 1 /\ esc.length < MaxEsc
  /\ Len(esc.intermediates) \in {esc.length, MaxIntermediates}
  /\ Len(esc.intermediates) <= esc.length
  /\ \A k \in 1 .. Len(esc.intermediates) : esc.intermediates[k] = seen[k + 1]

Counts ==
  /\ phase = "ground" => seen = <<>>
  /\ phase = "escape" => seen = <<"ESC">>
  /\ phase = "csi" => /\ Len(seen) >= Introducer
                      /\ csi.length = Len(seen) - Introducer
                      /\ csi.length <= MaxCsi
  /\ phase = "esc_dispatch" => IntermediatesOK

IInv == PhaseOK /\ EscOK /\ CsiOK /\ OscOK /\ Counts

THEOREM InitIInv == Init => IInv
<1> SUFFICES ASSUME Init PROVE IInv
  OBVIOUS
<1>1. PhaseOK
  BY DEF Init, PhaseOK
<1>2. EscOK
  BY LimitsAssumption DEF Init, EscOK, NoEsc
<1>3. CsiOK
  BY LimitsAssumption DEF Init, CsiOK, CsiRecords, NoCsi
<1>4. OscOK
  BY LimitsAssumption DEF Init, OscOK, OscRecords, NoOsc
<1>5. Counts
  BY DEF Init, Counts
<1>6. QED
  BY <1>1, <1>2, <1>3, <1>4, <1>5 DEF IInv

(* What ends a sequence leaves the parser in ground.                       *)
LEMMA FinishCounts ==
  ASSUME NEW result, Finish(result)
  PROVE  PhaseOK' /\ Counts'
BY FinishOK DEF Counts

(* What goes on with a string or an OSC has no count to keep.              *)
LEMMA TextCounts ==
  ASSUME PhaseOK',
         phase' \in {"osc", "osc_escape", "string", "string_escape"}
  PROVE  Counts'
BY DEF Counts

LEMMA GroundStep ==
  ASSUME IInv, NEW ch \in Chars, Ground(ch)
  PROVE  IInv'
<1>0. /\ phase = "ground" /\ seen = <<>> /\ PhaseOK
      /\ EscOK /\ CsiOK /\ OscOK /\ esc' = esc
  BY DEF IInv, Counts, Ground
<1>1. EscOK'
  BY <1>0 DEF EscOK
<1>2. CsiOK' /\ OscOK'
  <2>1. csi' \in {csi, NoCsi} /\ osc' \in {osc, NoOsc}
    BY Zenon DEF Ground
  <2>2. CsiOK'
    BY <1>0, <2>1, CsiReset DEF CsiOK
  <2>3. OscOK'
    BY <1>0, <2>1, OscReset DEF OscOK
  <2>4. QED
    BY <2>2, <2>3
<1>3. PhaseOK' /\ Counts'
  <2>1. CASE ch = "ESC"
    <3>1. Continue("escape", ch)
      BY <2>1 DEF Ground
    <3>2. seen' = <<"ESC">> /\ phase' = "escape"
      BY <1>0, <2>1, <3>1 DEF Continue
    <3>3. QED
      BY <1>0, <2>1, <3>1, <3>2, ContinueOK DEF Counts
  <2>2. CASE ch = "CSI"
    <3>1. Continue("csi", ch) /\ csi' = NoCsi
      BY <2>2 DEF Ground
    <3>2. seen' = <<"CSI">> /\ phase' = "csi" /\ csi'.length = 0
      BY <1>0, <2>2, <3>1 DEF Continue, NoCsi
    <3>3. Introducer' = 1 /\ Len(seen') = 1
      BY <3>2 DEF Introducer
    <3>4. QED
      BY <1>0, <2>2, <3>1, <3>2, <3>3, ContinueOK, LimitsAssumption
         DEF Counts
  <2>3. CASE ch = "OSC"
    <3>1. Continue("osc", ch)
      BY <2>3 DEF Ground
    <3>2. PhaseOK' /\ phase' = "osc"
      BY <1>0, <3>1, ContinueOK DEF Continue
    <3>3. QED
      BY <3>2, TextCounts
  <2>4. CASE ch = "DCS"
    <3>1. Continue("string", ch)
      BY <2>4 DEF Ground
    <3>2. PhaseOK' /\ phase' = "string"
      BY <1>0, <3>1, ContinueOK DEF Continue
    <3>3. QED
      BY <3>2, TextCounts
  <2>5. CASE ch \notin {"ESC", "CSI", "OSC", "DCS"}
    <3>1. Finish(Consumed) \/ Finish(Printed(ch))
      BY <2>5, Zenon DEF Ground
    <3>2. QED
      BY <3>1, FinishCounts
  <2>6. QED
    BY <2>1, <2>2, <2>3, <2>4, <2>5
<1>4. QED
  BY <1>1, <1>2, <1>3 DEF IInv

LEMMA EmptyIntermediates ==
  ASSUME NEW ch \in Chars, MaxIntermediates = 0
  PROVE  AppendTo(<<>>, MaxIntermediates, ch) = <<>>
BY DEF AppendTo

LEMMA OneIntermediate ==
  ASSUME NEW ch \in Chars, MaxIntermediates > 0
  PROVE  AppendTo(<<>>, MaxIntermediates, ch) = <<ch>>
BY DEF AppendTo

(* What is known of the intermediates once the first one is stored.        *)
FirstStored(text, ch) ==
  /\ text \in Seq(Chars)
  /\ Len(text) <= MaxIntermediates /\ Len(text) <= 1
  /\ Len(text) \in {1, MaxIntermediates}
  /\ \A k \in 1 .. Len(text) : text[k] = ch

LEMMA FirstIntermediate ==
  ASSUME NEW ch \in Chars
  PROVE  FirstStored(AppendTo(<<>>, MaxIntermediates, ch), ch)
<1>1. CASE MaxIntermediates = 0
  <2>1. FirstStored(<<>>, ch)
    BY <1>1 DEF FirstStored
  <2>2. QED
    BY <1>1, <2>1, EmptyIntermediates
<1>2. CASE MaxIntermediates > 0
  <2>1. FirstStored(<<ch>>, ch)
    BY <1>2, LimitsAssumption DEF FirstStored
  <2>2. QED
    BY <1>2, <2>1, OneIntermediate
<1>3. QED
  BY <1>1, <1>2, LimitsAssumption

LEMMA EscapeStep ==
  ASSUME IInv, NEW ch \in Chars, Escape(ch)
  PROVE  IInv'
<1>0. /\ phase = "escape" /\ seen = <<"ESC">> /\ PhaseOK
      /\ EscOK /\ CsiOK /\ OscOK
  BY DEF IInv, Counts, Escape
<1>1. CsiOK' /\ OscOK'
  <2>1. csi' \in {csi, NoCsi} /\ osc' \in {osc, NoOsc}
    BY Zenon DEF Escape
  <2>2. CsiOK'
    BY <1>0, <2>1, CsiReset DEF CsiOK
  <2>3. OscOK'
    BY <1>0, <2>1, OscReset DEF OscOK
  <2>4. QED
    BY <2>2, <2>3
<1>2. CASE ch \in Intermediates
  <2>1. /\ Continue("esc_dispatch", ch)
        /\ esc' = [intermediates |-> AppendTo(<<>>, MaxIntermediates, ch),
                   length |-> 1]
    BY <1>2 DEF Escape, Intermediates
  <2> DEFINE text == AppendTo(<<>>, MaxIntermediates, ch)
  <2>2. /\ text \in Seq(Chars)
        /\ Len(text) <= MaxIntermediates /\ Len(text) <= 1
        /\ Len(text) \in {1, MaxIntermediates}
        /\ \A k \in 1 .. Len(text) : text[k] = ch
    BY FirstIntermediate, Zenon DEF FirstStored
  <2>3. esc' = [intermediates |-> text, length |-> 1]
    BY <2>1
  <2> HIDE DEF text
  <2>4. EscOK'
    BY <2>2, <2>3 DEF EscOK
  <2>5. PhaseOK' /\ phase' = "esc_dispatch"
    BY <1>0, <2>1, ContinueOK DEF Continue
  <2>6. /\ esc'.length = 1 /\ esc'.intermediates = text
        /\ Len(seen') = 2 /\ seen'[2] = ch
    <3>1. seen' = Append(<<"ESC">>, ch)
      BY <1>0, <2>1 DEF Continue
    <3>2. QED
      BY <2>3, <3>1
  <2>7. IntermediatesOK'
    <3>1. \A k \in 1 .. Len(text) : k = 1 /\ text[k] = seen'[k + 1]
      BY <2>2, <2>6
    <3>2. QED
      BY <2>2, <2>6, <3>1, LimitsAssumption DEF IntermediatesOK
  <2>8. Counts'
    BY <2>5, <2>7 DEF Counts
  <2>9. QED
    BY <1>1, <2>4, <2>5, <2>8 DEF IInv
<1>3. CASE ch \notin Intermediates
  <2>1. EscOK'
    BY <1>3, EscReset DEF Escape
  <2>2. CASE ch = "["
    <3>1. Continue("csi", ch) /\ csi' = NoCsi
      BY <2>2 DEF Escape, Intermediates
    <3>2. /\ PhaseOK' /\ phase' = "csi" /\ seen' = Append(<<"ESC">>, ch)
          /\ csi'.length = 0
      BY <1>0, <3>1, ContinueOK DEF Continue, NoCsi
    <3>3. Introducer' = 2 /\ Len(seen') = 2
      <4>1. Len(seen') = 2 /\ seen'[1] = "ESC"
        BY <3>2
      <4>2. QED
        BY <4>1 DEF Introducer
    <3>4. Counts'
      BY <3>2, <3>3, LimitsAssumption DEF Counts
    <3>5. QED
      BY <1>1, <2>1, <3>2, <3>4 DEF IInv
  <2>3. CASE ch \in {"]", "P"}
    <3>1. Continue("osc", ch) \/ Continue("string", ch)
      BY <2>3 DEF Escape, Intermediates
    <3>2. PhaseOK' /\ phase' \in {"osc", "string"}
      BY <1>0, <3>1, ContinueOK DEF Continue
    <3>3. QED
      BY <1>1, <2>1, <3>2, TextCounts DEF IInv
  <2>4. CASE ch \notin {"[", "]", "P"}
    <3>1. Finish(EscDispatch(<<>>, ch))
      BY <1>3, <2>4, Zenon DEF Escape
    <3>2. QED
      BY <1>1, <2>1, <3>1, FinishCounts DEF IInv
  <2>5. QED
    BY <2>2, <2>3, <2>4
<1>4. QED
  BY <1>2, <1>3

(* The stored intermediates are the first ones, each of them in its place. *)
LEMMA EscIntermediateStep ==
  ASSUME IInv, NEW ch \in Chars, EscIntermediate(ch)
  PROVE  IInv'
<1>0. /\ phase = "esc_dispatch" /\ IntermediatesOK /\ PhaseOK
      /\ EscOK /\ CsiOK /\ OscOK /\ csi' = csi /\ osc' = osc
  BY DEF IInv, Counts, EscIntermediate
<1>1. CsiOK' /\ OscOK'
  BY <1>0 DEF CsiOK, OscOK
<1>2. CASE ch \in Intermediates /\ esc.length + 1 < MaxEsc
  <2>1. /\ Continue("esc_dispatch", ch)
        /\ esc' = [intermediates |-> AppendTo(esc.intermediates,
                                              MaxIntermediates, ch),
                   length |-> esc.length + 1]
    <3>1. ~(esc.length + 1 >= MaxEsc)
      BY <1>2, <1>0, LimitsAssumption DEF EscOK
    <3>2. ch \notin EscFinals
      BY <1>2, Zenon DEF Intermediates, EscFinals, CsiFinals, Digits
    <3>3. QED
      BY <1>2, <3>1, <3>2, Zenon DEF EscIntermediate
  <2>2. /\ esc.intermediates \in Seq(Chars) /\ esc.length \in Nat
        /\ Len(esc.intermediates) <= MaxIntermediates
    BY <1>0 DEF EscOK
  <2>3. PICK text \in Seq(Chars) :
          /\ text = AppendTo(esc.intermediates, MaxIntermediates, ch)
          /\ Len(text) <= MaxIntermediates
    BY <2>2, AppendToBounded, LimitsAssumption
  <2>4. esc' = [intermediates |-> text, length |-> esc.length + 1]
    BY <2>1, <2>3
  <2>5. EscOK'
    BY <2>2, <2>3, <2>4 DEF EscOK
  <2>6. /\ PhaseOK' /\ phase' = "esc_dispatch" /\ seen' = Append(seen, ch)
        /\ seen \in Seq(Chars)
    BY <1>0, <2>1, ContinueOK DEF Continue, PhaseOK
  <2>7. /\ esc'.length = esc.length + 1 /\ esc'.intermediates = text
        /\ Len(seen') = Len(seen) + 1 /\ seen'[Len(seen) + 1] = ch
        /\ \A k \in 1 .. Len(seen) : seen'[k] = seen[k]
    BY <2>4, <2>6
  <2>8. /\ esc.length = Len(seen) - 1 /\ Len(seen) \in Nat
        /\ Len(esc.intermediates) \in {esc.length, MaxIntermediates}
        /\ Len(esc.intermediates) <= esc.length
        /\ \A k \in 1 .. Len(esc.intermediates) :
             esc.intermediates[k] = seen[k + 1]
    BY <1>0, <2>6, SMTT(30) DEF IntermediatesOK
  <2>9. IntermediatesOK'
    <3>1. CASE Len(esc.intermediates) < MaxIntermediates
      <4>1. text = Append(esc.intermediates, ch)
        BY <2>3, <3>1 DEF AppendTo
      <4>2. /\ Len(text) = Len(esc.intermediates) + 1
            /\ Len(esc.intermediates) = esc.length
        BY <2>2, <2>8, <3>1, <4>1
      <4>3. \A k \in 1 .. Len(text) : text[k] = seen'[k + 1]
        BY <2>2, <2>7, <2>8, <4>1, <4>2, SMTT(30)
      <4>4. /\ esc'.length = Len(seen') - 1 /\ esc'.length < MaxEsc
            /\ Len(esc'.intermediates) = esc'.length
        BY <1>2, <2>2, <2>7, <2>8, <4>2
      <4>5. Len(esc'.intermediates) \in {esc'.length, MaxIntermediates}
        BY <4>4
      <4>6. Len(esc'.intermediates) <= esc'.length
        BY <2>2, <2>7, <4>4
      <4>7. QED
        BY <2>7, <4>3, <4>4, <4>5, <4>6 DEF IntermediatesOK
    <3>2. CASE ~(Len(esc.intermediates) < MaxIntermediates)
      <4>1. text = esc.intermediates /\ Len(text) = MaxIntermediates
        BY <2>2, <2>3, <3>2, LimitsAssumption DEF AppendTo
      <4>2. \A k \in 1 .. Len(text) : text[k] = seen'[k + 1]
        BY <2>2, <2>7, <2>8, <4>1, SMTT(30)
      <4>3. QED
        BY <1>2, <2>2, <2>7, <2>8, <4>1, <4>2 DEF IntermediatesOK
    <3>3. QED
      BY <3>1, <3>2
  <2>10. Counts'
    BY <2>6, <2>9 DEF Counts
  <2>11. QED
    BY <1>1, <2>5, <2>6, <2>10 DEF IInv
<1>3. CASE ~(ch \in Intermediates /\ esc.length + 1 < MaxEsc)
  <2>1. esc' = NoEsc /\ \E result : Finish(result)
    BY <1>3, Zenon DEF EscIntermediate
  <2>2. QED
    BY <1>1, <2>1, EscReset, FinishCounts DEF IInv
<1>4. QED
  BY <1>2, <1>3

LEMMA InCsiStep ==
  ASSUME IInv, NEW ch \in Chars, InCsi(ch)
  PROVE  IInv'
<1>0. /\ phase = "csi" /\ PhaseOK /\ EscOK /\ CsiOK /\ OscOK
      /\ Len(seen) >= Introducer /\ csi.length = Len(seen) - Introducer
      /\ csi.length <= MaxCsi /\ esc' = esc /\ osc' = osc
  BY DEF IInv, Counts, InCsi
<1>1. EscOK' /\ OscOK'
  BY <1>0 DEF EscOK, OscOK
<1>2. CASE csi.length < MaxCsi /\ ch \notin CsiFinals
  <2>1. Continue("csi", ch) /\ csi' = NextCsi(ch)
    <3>1. ~(csi.length >= MaxCsi)
      BY <1>0, <1>2, LimitsAssumption DEF CsiOK, CsiRecords
    <3>2. QED
      BY <1>2, <3>1, Zenon DEF InCsi
  <2>2. CsiOK' /\ csi'.length = csi.length + 1
    BY <1>0, <2>1, NextCsiOK DEF CsiOK
  <2>3. PhaseOK' /\ phase' = "csi" /\ seen' = Append(seen, ch)
    BY <1>0, <2>1, ContinueOK DEF Continue
  <2>4. /\ Introducer \in {1, 2} /\ seen \in Seq(Chars) /\ csi.length \in Nat
    BY <1>0 DEF Introducer, PhaseOK, CsiOK, CsiRecords
  <2>5. Len(seen') = Len(seen) + 1 /\ seen'[1] = seen[1]
    BY <1>0, <2>3, <2>4
  <2>6. Introducer' = Introducer
    BY <2>5 DEF Introducer
  <2>7. /\ Len(seen') >= Introducer' /\ csi'.length = Len(seen') - Introducer'
        /\ csi'.length <= MaxCsi
    BY <1>0, <1>2, <2>2, <2>4, <2>5, <2>6, LimitsAssumption
  <2>8. Counts'
    BY <2>3, <2>7 DEF Counts
  <2>9. QED
    BY <1>1, <2>2, <2>3, <2>8 DEF IInv
<1>3. CASE ~(csi.length < MaxCsi /\ ch \notin CsiFinals)
  <2>1. csi' = NoCsi /\ \E result : Finish(result)
    BY <1>3, Zenon DEF InCsi
  <2>2. QED
    BY <1>1, <2>1, CsiReset, FinishCounts DEF IInv
<1>4. QED
  BY <1>2, <1>3

LEMMA OscStep ==
  ASSUME IInv, NEW ch \in Chars,
         OscParam(ch) \/ OscText(ch) \/ OscTerminator(ch)
  PROVE  IInv'
<1>0. /\ PhaseOK /\ EscOK /\ CsiOK /\ OscOK /\ esc' = esc /\ csi' = csi
  BY Zenon DEF IInv, OscParam, OscText, OscTerminator
<1>1. EscOK' /\ CsiOK'
  BY <1>0 DEF EscOK, CsiOK
<1>2. OscOK'
  <2>1. CASE OscParam(ch)
    BY <1>0, <2>1, OscParamOK
  <2>2. CASE OscText(ch)
    <3>1. osc' = NoOsc \/ osc' = osc \/ osc' = Capture(ch)
      BY <2>2, Zenon DEF OscText, EndOsc
    <3>2. CASE osc' = NoOsc
      BY <3>2, OscReset
    <3>3. CASE osc' = osc
      BY <1>0, <3>3 DEF OscOK
    <3>4. CASE osc' = Capture(ch)
      BY <1>0, <3>4, CaptureOK
    <3>5. QED
      BY <3>1, <3>2, <3>3, <3>4
  <2>3. CASE OscTerminator(ch)
    BY <2>3, OscReset DEF OscTerminator, EndOsc
  <2>4. QED
    BY <2>1, <2>2, <2>3
<1>3. PhaseOK' /\ Counts'
  <2>1. \/ \E result : Finish(result)
        \/ \E p \in {"osc", "osc_escape"} : Continue(p, ch)
    BY Zenon DEF OscParam, OscText, OscTerminator, EndOsc, ContinueText
  <2>2. CASE \E result : Finish(result)
    BY <2>2, FinishCounts
  <2>3. CASE \E p \in {"osc", "osc_escape"} : Continue(p, ch)
    <3>1. PhaseOK' /\ phase' \in {"osc", "osc_escape"}
      BY <1>0, <2>3, ContinueOK DEF Continue
    <3>2. QED
      BY <3>1, TextCounts
  <2>4. QED
    BY <2>1, <2>2, <2>3
<1>4. QED
  BY <1>1, <1>2, <1>3 DEF IInv

LEMMA StringStep ==
  ASSUME IInv, NEW ch \in Chars, InString(ch) \/ StringTerminator(ch)
  PROVE  IInv'
<1>0. /\ PhaseOK /\ EscOK /\ CsiOK /\ OscOK /\ esc' = esc /\ csi' = csi
      /\ osc' = osc
  BY DEF IInv, InString, StringTerminator
<1>1. EscOK' /\ CsiOK' /\ OscOK'
  BY <1>0 DEF EscOK, CsiOK, OscOK
<1>2. \/ Finish(Consumed)
      \/ seen' = seen /\ phase' \in {"string", "string_escape"}
  BY DEF InString, StringTerminator, Skip
<1>3. CASE Finish(Consumed)
  BY <1>1, <1>3, FinishCounts DEF IInv
<1>4. CASE seen' = seen /\ phase' \in {"string", "string_escape"}
  <2>1. PhaseOK'
    BY <1>0, <1>4 DEF PhaseOK
  <2>2. QED
    BY <1>1, <1>4, <2>1, TextCounts DEF IInv
<1>5. QED
  BY <1>2, <1>3, <1>4

(* Every step keeps the invariant; one lemma per group of handlers.        *)
THEOREM NextIInv == IInv /\ [Next]_vars => IInv'
<1> SUFFICES ASSUME IInv, [Next]_vars PROVE IInv'
  OBVIOUS
<1>1. CASE Next
  <2>1. PICK ch \in Chars :
          \/ Ground(ch) \/ Escape(ch) \/ EscIntermediate(ch) \/ InCsi(ch)
          \/ OscParam(ch) \/ OscText(ch) \/ OscTerminator(ch)
          \/ InString(ch) \/ StringTerminator(ch) \/ WriteWithoutVt(ch)
    BY <1>1, Zenon DEF Next
  <2>2. CASE WriteWithoutVt(ch)
    <3>1. EscOK' /\ CsiOK' /\ OscOK'
      BY <2>2, EscReset, CsiReset, OscReset, Zenon DEF WriteWithoutVt
    <3>2. PhaseOK' /\ Counts'
      BY <2>2, FinishCounts DEF WriteWithoutVt
    <3>3. QED
      BY <3>1, <3>2 DEF IInv
  <2>3. QED
    BY <2>1, <2>2, GroundStep, EscapeStep, EscIntermediateStep, InCsiStep,
       OscStep, StringStep, Zenon
<1>2. CASE UNCHANGED vars
  <2>1. /\ phase' = phase /\ esc' = esc /\ csi' = csi /\ osc' = osc
        /\ seen' = seen
    BY <1>2 DEF vars
  <2>2. PhaseOK' /\ EscOK' /\ CsiOK' /\ OscOK'
    BY <2>1 DEF IInv, PhaseOK, EscOK, CsiOK, OscOK
  <2>3. Introducer' = Introducer /\ (IntermediatesOK => IntermediatesOK')
    BY <2>1 DEF Introducer, IntermediatesOK
  <2>4. Counts'
    BY <2>1, <2>3 DEF IInv, Counts
  <2>5. QED
    BY <2>2, <2>4 DEF IInv
<1>3. QED
  BY <1>1, <1>2

LEMMA IInvTypeOK == IInv => TypeOK
BY DEF IInv, PhaseOK, EscOK, CsiOK, CsiRecords, OscOK, OscRecords, TypeOK

(***************************************************************************)
(* For any limits and any text no character of a sequence is stored past   *)
(* the end of an array, and the numbers stay within ten times their limit. *)
(***************************************************************************)
THEOREM ParserInBounds == Spec => []TypeOK
BY InitIInv, NextIInv, IInvTypeOK, PTL DEF Spec

LEMMA TwoIsLeast == ASSUME NEW n \in Int, n >= 2, ~(3 <= n) PROVE n - 2 = 0
OBVIOUS

LEMMA IInvSequencesEnd == IInv => SequencesEnd
<1> SUFFICES ASSUME IInv PROVE SequencesEnd
  OBVIOUS
<1>0. /\ seen \in Seq(Chars) /\ esc.intermediates \in Seq(Chars)
      /\ esc.length \in Nat
  BY DEF IInv, PhaseOK, EscOK
<1>1. ASSUME phase = "csi"
      PROVE  csi.length = Len(Body) /\ csi.length <= MaxCsi
  <2>1. /\ Len(seen) >= Introducer /\ csi.length = Len(seen) - Introducer
        /\ csi.length <= MaxCsi
    BY <1>1 DEF IInv, Counts
  <2>2. CASE seen[1] = "ESC"
    <3>1. Introducer = 2 /\ Body = SubSeq(seen, 3, Len(seen))
      BY <2>2 DEF Introducer, Body
    <3>2. Len(SubSeq(seen, 3, Len(seen))) = Len(seen) - 2
      <4>1. \A i \in 3 .. Len(seen) : seen[i] \in Chars
        BY <1>0
      <4>2. Len(seen) \in Int /\ Len(seen) >= 2
        BY <1>0, <2>1, <3>1
      <4>3. Len(SubSeq(seen, 3, Len(seen))) =
              IF 3 <= Len(seen) THEN Len(seen) - 3 + 1 ELSE 0
        BY <4>1, <4>2, SubSeqProperties
      <4>4. CASE 3 <= Len(seen)
        <5>1. Len(SubSeq(seen, 3, Len(seen))) = Len(seen) - 3 + 1
          BY <4>3, <4>4, Zenon
        <5>2. Len(seen) - 3 + 1 = Len(seen) - 2
          BY <4>2
        <5>3. QED
          BY <5>1, <5>2, Zenon
      <4>5. CASE ~(3 <= Len(seen))
        <5>1. Len(SubSeq(seen, 3, Len(seen))) = 0
          BY <4>3, <4>5, Zenon
        <5>2. Len(seen) - 2 = 0
          BY <4>2, <4>5, TwoIsLeast, Zenon
        <5>3. QED
          BY <5>1, <5>2, Zenon
      <4>6. QED
        BY <4>4, <4>5, Zenon
    <3>3. QED
      BY <2>1, <3>1, <3>2
  <2>3. CASE seen[1] # "ESC"
    <3>1. Introducer = 1 /\ Body = Tail(seen)
      BY <2>3 DEF Introducer, Body
    <3>2. Len(Tail(seen)) = Len(seen) - 1
      BY <1>0, <2>1, <3>1, HeadTailProperties
    <3>3. QED
      BY <2>1, <3>1, <3>2
  <2>4. QED
    BY <2>2, <2>3
<1>2. ASSUME phase = "esc_dispatch"
      PROVE  /\ esc.length = Len(seen) - 1 /\ esc.length < MaxEsc
             /\ esc.intermediates =
                  SubSeq(seen, 2, 1 + Len(esc.intermediates))
             /\ Len(esc.intermediates) \in {esc.length, MaxIntermediates}
  <2>1. IntermediatesOK
    BY <1>2 DEF IInv, Counts
  <2> DEFINE n == Len(esc.intermediates)
             text == SubSeq(seen, 2, 1 + n)
  <2>2. n \in Nat /\ n + 1 <= Len(seen)
    BY <1>0, <2>1 DEF IntermediatesOK
  <2>3. /\ text \in Seq(Chars) /\ Len(text) = n
        /\ \A k \in 1 .. n : text[k] = seen[k + 1]
    BY <1>0, <2>2, SubSeqProperties
  <2>4. \A k \in 1 .. n : esc.intermediates[k] = text[k]
    BY <2>1, <2>3 DEF IntermediatesOK
  <2>5. esc.intermediates = text
    BY <1>0, <2>3, <2>4, SeqEqual, Zenon
  <2>6. QED
    BY <2>1, <2>5 DEF IntermediatesOK
<1>3. QED
  BY <1>1, <1>2 DEF SequencesEnd

(***************************************************************************)
(* For any limits an unfinished CSI sequence ends after MaxCsi characters  *)
(* and an unfinished ESC sequence before MaxEsc, and what is stored of the *)
(* latter is its beginning.                                                *)
(***************************************************************************)
THEOREM UnfinishedSequencesEnd == Spec => []SequencesEnd
BY InitIInv, NextIInv, IInvSequencesEnd, PTL DEF Spec

=============================================================================
