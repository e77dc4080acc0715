-------------------------- MODULE ComHandoffProofs --------------------------
(***************************************************************************)
(* Proofs about ComHandoff for any number of calls.                        *)
(***************************************************************************)
EXTENDS ComHandoff, TLAPS

Copied == {"succeed", "signalOk", "ok"}

\* Nobody is past the compare-and-exchange before it is won; afterwards the payload is that of
\* the call that won, and what the state and the main thread say about it agrees.
AcceptInv ==
    /\ ~begun => \A c \in Callers : pc[c] \notin Accepted
    /\ \A c \in Callers : pc[c] \in Copied => payload = c
    /\ payload # NoCaller => pc[payload] \in Copied
    /\ handoff \in Kinds => payload # NoCaller /\ kind[payload] = handoff
    /\ main \in Kinds => payload # NoCaller /\ kind[payload] = main

\* A reason is there before anybody can see the failed state.
ReasonInv ==
    /\ \A c \in Callers : pc[c] = "setFailed" => failure # NoCaller
    /\ handoff = "failed" => failure # NoCaller
    /\ main = "failed" => reported # NoCaller

\* The Boolean variables are kept apart from the others.
FlagTypes == begun \in BOOLEAN /\ event \in BOOLEAN
Types ==
    /\ pc \in [Callers -> {"idle", "begin", "copy", "succeed", "signalOk", "ok",
                           "fail", "setFailed", "signalRefused", "refused"}]
    /\ kind \in [Callers -> Kinds]
    /\ {payload, failure, reported} \subseteq Callers \cup {NoCaller}
    /\ handoff \in Kinds \cup {"pending", "failed"}
    /\ main \in Finished \cup {"waiting", "readFailed", "readConsole", "readTerminal"}

IInv == Types /\ FlagTypes /\ OneAccepted /\ AcceptInv /\ ReasonInv

-----------------------------------------------------------------------------
\* Nothing has happened at the start.
LEMMA InitOK == Init => IInv
  <1> SUFFICES ASSUME Init PROVE IInv
    OBVIOUS
  <1>1. Types
    BY CallerAssumption DEF Init, Types, Kinds, Finished
  <1>2. FlagTypes
    BY Zenon DEF Init, FlagTypes
  <1>3. OneAccepted /\ AcceptInv /\ ReasonInv
    BY DEF Init, OneAccepted, AcceptInv, ReasonInv, Accepted, Copied, Kinds
  <1> QED BY <1>1, <1>2, <1>3 DEF IInv

\* One step per action, and under it one per conjunct.
LEMMA NextOK == IInv /\ [Next]_vars => IInv'
  <1> SUFFICES ASSUME IInv, [Next]_vars PROVE IInv'
    OBVIOUS
  <1> USE CallerAssumption DEF IInv, callVars, mainVars
  <1>1. ASSUME NEW c \in Callers, NEW k \in Kinds, NEW valid \in BOOLEAN, Call(c, k, valid) PROVE IInv'
    <2>1. Types'
      BY <1>1 DEF Types, Kinds, Finished, Call, Go
    <2>2. FlagTypes'
      BY <1>1, Zenon DEF FlagTypes, Call, Go
    <2>3. OneAccepted'
      BY <1>1 DEF Types, OneAccepted, AcceptInv, Accepted, Call, Go
    <2>4. AcceptInv'
      BY <1>1 DEF Types, Kinds, OneAccepted, AcceptInv, Accepted, Copied, Call, Go
    <2>5. ReasonInv'
      BY <1>1 DEF Types, Kinds, ReasonInv, Call, Go
    <2> QED BY <2>1, <2>2, <2>3, <2>4, <2>5
  <1>2. ASSUME NEW c \in Callers, TryBeginEstablish(c) PROVE IInv'
    <2>1. Types'
      BY <1>2 DEF Types, Kinds, Finished, TryBeginEstablish, Go
    <2>2. FlagTypes'
      BY <1>2, Zenon DEF FlagTypes, TryBeginEstablish, Go
    <2>3. OneAccepted'
      BY <1>2 DEF Types, OneAccepted, AcceptInv, Accepted, TryBeginEstablish, Go
    <2>4. AcceptInv'
      BY <1>2 DEF Types, Kinds, OneAccepted, AcceptInv, Accepted, Copied, TryBeginEstablish, Go
    <2>5. ReasonInv'
      BY <1>2 DEF Types, Kinds, ReasonInv, TryBeginEstablish, Go
    <2> QED BY <2>1, <2>2, <2>3, <2>4, <2>5
  <1>3. ASSUME NEW c \in Callers, Copy(c) PROVE IInv'
    <2>1. Types'
      BY <1>3 DEF Types, Kinds, Finished, Copy, Go
    <2>2. FlagTypes'
      BY <1>3, Zenon DEF FlagTypes, Copy, Go
    <2>3. OneAccepted'
      BY <1>3 DEF Types, OneAccepted, AcceptInv, Accepted, Copy, Go
    <2>4. AcceptInv'
      BY <1>3 DEF Types, Kinds, OneAccepted, AcceptInv, Accepted, Copied, Copy, Go
    <2>5. ReasonInv'
      BY <1>3 DEF Types, Kinds, ReasonInv, Copy, Go
    <2> QED BY <2>1, <2>2, <2>3, <2>4, <2>5
  <1>4. ASSUME NEW c \in Callers, SetSucceeded(c) PROVE IInv'
    <2>1. Types'
      BY <1>4 DEF Types, Kinds, Finished, SetSucceeded, Go
    <2>2. FlagTypes'
      BY <1>4, Zenon DEF FlagTypes, SetSucceeded, Go
    <2>3. OneAccepted'
      BY <1>4 DEF Types, OneAccepted, AcceptInv, Accepted, SetSucceeded, Go
    <2>4. AcceptInv'
      BY <1>4 DEF Types, Kinds, OneAccepted, AcceptInv, Accepted, Copied, SetSucceeded, Go
    <2>5. ReasonInv'
      BY <1>4 DEF Types, Kinds, ReasonInv, SetSucceeded, Go
    <2> QED BY <2>1, <2>2, <2>3, <2>4, <2>5
  <1>5. ASSUME NEW c \in Callers, SetReason(c) PROVE IInv'
    <2>1. Types'
      BY <1>5 DEF Types, Kinds, Finished, SetReason, Go
    <2>2. FlagTypes'
      BY <1>5, Zenon DEF FlagTypes, SetReason, Go
    <2>3. OneAccepted'
      BY <1>5 DEF Types, OneAccepted, AcceptInv, Accepted, SetReason, Go
    <2>4. AcceptInv'
      BY <1>5 DEF Types, Kinds, OneAccepted, AcceptInv, Accepted, Copied, SetReason, Go
    <2>5. ReasonInv'
      BY <1>5 DEF Types, Kinds, ReasonInv, SetReason, Go
    <2> QED BY <2>1, <2>2, <2>3, <2>4, <2>5
  <1>6. ASSUME NEW c \in Callers, SetFailed(c) PROVE IInv'
    <2>1. Types'
      BY <1>6 DEF Types, Kinds, Finished, SetFailed, Go
    <2>2. FlagTypes'
      BY <1>6, Zenon DEF FlagTypes, SetFailed, Go
    <2>3. OneAccepted'
      BY <1>6 DEF Types, OneAccepted, AcceptInv, Accepted, SetFailed, Go
    <2>4. AcceptInv'
      BY <1>6 DEF Types, Kinds, OneAccepted, AcceptInv, Accepted, Copied, SetFailed, Go
    <2>5. ReasonInv'
      BY <1>6 DEF Types, Kinds, ReasonInv, SetFailed, Go
    <2> QED BY <2>1, <2>2, <2>3, <2>4, <2>5
  <1>7. ASSUME NEW c \in Callers, Signal(c) PROVE IInv'
    <2>1. Types'
      BY <1>7 DEF Types, Kinds, Finished, Signal, Go
    <2>2. FlagTypes'
      BY <1>7, Zenon DEF FlagTypes, Signal, Go
    <2>3. OneAccepted'
      BY <1>7 DEF Types, OneAccepted, AcceptInv, Accepted, Signal, Go
    <2>4. AcceptInv'
      BY <1>7 DEF Types, Kinds, OneAccepted, AcceptInv, Accepted, Copied, Signal, Go
    <2>5. ReasonInv'
      BY <1>7 DEF Types, Kinds, ReasonInv, Signal, Go
    <2> QED BY <2>1, <2>2, <2>3, <2>4, <2>5
  <1>8. CASE Main
    <2>1. Types'
      BY <1>8 DEF Types, Kinds, Finished, Main, Wake, ReadFailed, ReadConsole, ReadTerminal, MainGoes
    <2>2. FlagTypes'
      BY <1>8, Zenon DEF FlagTypes, Main, Wake, ReadFailed, ReadConsole, ReadTerminal, MainGoes
    <2>3. OneAccepted'
      BY <1>8 DEF Types, OneAccepted, AcceptInv, Accepted, Main, Wake, ReadFailed, ReadConsole, ReadTerminal, MainGoes
    <2>4. AcceptInv'
      BY <1>8 DEF Types, Kinds, OneAccepted, AcceptInv, Accepted, Copied, Main, Wake, ReadFailed, ReadConsole, ReadTerminal, MainGoes
    <2>5. ReasonInv'
      BY <1>8 DEF Types, Kinds, ReasonInv, Main, Wake, ReadFailed, ReadConsole, ReadTerminal, MainGoes
    <2> QED BY <2>1, <2>2, <2>3, <2>4, <2>5
  <1>9. CASE TimeOut
    <2>1. Types'
      BY <1>9 DEF Types, Kinds, Finished, TimeOut, MainGoes
    <2>2. FlagTypes'
      BY <1>9, Zenon DEF FlagTypes, TimeOut, MainGoes
    <2>3. OneAccepted'
      BY <1>9 DEF Types, OneAccepted, AcceptInv, Accepted, TimeOut, MainGoes
    <2>4. AcceptInv'
      BY <1>9 DEF Types, Kinds, OneAccepted, AcceptInv, Accepted, Copied, TimeOut, MainGoes
    <2>5. ReasonInv'
      BY <1>9 DEF Types, Kinds, ReasonInv, TimeOut, MainGoes
    <2> QED BY <2>1, <2>2, <2>3, <2>4, <2>5
  <1>10. CASE UNCHANGED vars
    <2>1. Types'
      BY <1>10 DEF Types, Kinds, Finished, vars
    <2>2. FlagTypes'
      BY <1>10, Zenon DEF FlagTypes, vars
    <2>3. OneAccepted'
      BY <1>10 DEF Types, OneAccepted, AcceptInv, Accepted, vars
    <2>4. AcceptInv'
      BY <1>10 DEF Types, Kinds, OneAccepted, AcceptInv, Accepted, Copied, vars
    <2>5. ReasonInv'
      BY <1>10 DEF Types, Kinds, ReasonInv, vars
    <2> QED BY <2>1, <2>2, <2>3, <2>4, <2>5
  <1> QED BY <1>1, <1>2, <1>3, <1>4, <1>5, <1>6, <1>7, <1>8, <1>9, <1>10, Zenon DEF Next, Step

-----------------------------------------------------------------------------
\* The inductive invariant holds throughout.
THEOREM HandoffInvariant == Spec => []IInv
  BY InitOK, NextOK, PTL DEF Spec

\* Of any number of concurrent calls the server accepts one.
THEOREM AcceptsOne == Spec => []OneAccepted
  <1>1. IInv => OneAccepted
    BY DEF IInv
  <1> QED BY HandoffInvariant, <1>1, PTL

\* The runner always gets the complete payload of the accepted call, and a failure is never
\* reported without a reason, although both are read without a lock.
THEOREM ReadsComplete == Spec => []ReadsWhatWasWritten
  <1>1. IInv => RunnerGetsPayload
    BY DEF IInv, AcceptInv, RunnerGetsPayload, Copied, Accepted
  <1>2. IInv => FailureHasReason
    BY DEF IInv, ReasonInv, FailureHasReason
  <1>3. IInv => ReadsWhatWasWritten
    BY <1>1, <1>2 DEF ReadsWhatWasWritten
  <1> QED BY HandoffInvariant, <1>3, PTL

\* Every variable keeps its type, for any number of calls.
THEOREM TypeCorrect == Spec => []TypeOK
  <1>1. IInv => TypeOK
    BY DEF IInv, Types, FlagTypes, TypeOK
  <1> QED BY HandoffInvariant, <1>1, PTL
=============================================================================
