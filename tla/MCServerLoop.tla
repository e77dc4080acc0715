---------------------------- MODULE MCServerLoop ----------------------------
(* Small instances of ServerLoop for TLC. *)
EXTENDS ServerLoop, TLC

CONSTANTS r1, r2, r3, r4

\* Two reads compete for the input while a client comes and another one goes.
ReadsAndClients ==
  (r1 :> "read") @@ (r2 :> "read") @@ (r3 :> "connect") @@ (r4 :> "disconnect")

\* The two reads are interchangeable.
SwapReads == Permutations({r1, r2})

\* A read that pends while a write makes the calls a wake may cancel.
ReadWrite == (r1 :> "read") @@ (r3 :> "write")
=============================================================================
