SPECIFICATION Spec
CONSTANTS
  Chars <- Alphabet
  MaxCsi = 4
  MaxEsc = 4
  MaxIntermediates = 2
  MaxParams = 2
  MaxNumber = 2
  MaxPayload = 2
  MaxText = 6
INVARIANTS TypeOK SequencesEnd
PROPERTIES CsiFaithful TitleFaithful
