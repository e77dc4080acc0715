----------------------------- MODULE MCVtParser -----------------------------
(***************************************************************************)
(* An instance of VtParser whose limits are a few characters, so that each *)
(* of them is reached.                                                     *)
(***************************************************************************)
EXTENDS VtParser

(* Both introducers of each kind of sequence, both terminators, and at     *)
(* least one character of each class.                                      *)
Alphabet == {"ESC", "CSI", "OSC", "DCS", "ST", "BEL", "[", "]", "P", "\\",
             "0", "1", "2", ";", "?", "#", "!", "m", "c"}
=============================================================================
