----------------------------- MODULE ComHandoff -----------------------------
(***************************************************************************)
(* The COM local server started with -Embedding (com_embedding_server.cpp) *)
(* receives one handoff and then runs it.  The calls of IConsoleHandoff    *)
(* and ITerminalHandoff arrive on COM's threads, possibly several at once; *)
(* the main thread waits for the completion event and then reads what they *)
(* left in HandoffState.                                                   *)
(***************************************************************************)
CONSTANTS
    Callers,            \* calls that may arrive, each on a thread of its own
    NoCaller,
    SupportsTerminal,   \* supports_terminal_handoff
    CanTimeOut          \* wait_timeout_ms # 0

ASSUME CallerAssumption ==
    /\ NoCaller \notin Callers
    /\ SupportsTerminal \in BOOLEAN /\ CanTimeOut \in BOOLEAN

VARIABLES
    pc,         \* where each call is; "ok" and "refused" have returned
    kind,       \* the interface each call was made on
    begun,      \* _establish_called
    payload,    \* the call whose handles and message have been copied
    failure,    \* the call that wrote _failure_hr and _failure_context last
    handoff,    \* _state
    event,      \* the completion event
    main,       \* the main thread, run_with_runners
    reported    \* the call whose failure the main thread returns

callVars == <<pc, kind, begun, payload, failure, handoff, event>>
mainVars == <<main, reported>>
vars == <<callVars, mainVars>>

Kinds == {"console", "terminal"}
Finished == {"console", "terminal", "failed", "notSet", "noRunner", "timedOut"}

Init ==
    /\ pc = [c \in Callers |-> "idle"]
    /\ kind = [c \in Callers |-> "console"]
    /\ begun = FALSE
    /\ payload = NoCaller /\ failure = NoCaller
    /\ handoff = "pending" /\ event = FALSE
    /\ main = "waiting" /\ reported = NoCaller

-----------------------------------------------------------------------------
(***************************************************************************)
(* A call.                                                                 *)
(***************************************************************************)
Go(c, from, to) == pc[c] = from /\ pc' = [pc EXCEPT ![c] = to]

\* The arguments are looked at first, and refused calls go on to set_failed_with_context.
Call(c, k, valid) ==
    /\ Go(c, "idle", IF valid /\ (k = "console" \/ SupportsTerminal) THEN "begin" ELSE "fail")
    /\ kind' = [kind EXCEPT ![c] = k]
    /\ UNCHANGED <<begun, payload, failure, handoff, event, mainVars>>

\* Variant: every call may establish the handoff.
TryBeginEstablishAlways(c) ==
    /\ Go(c, "begin", "copy")
    /\ begun' = TRUE
    /\ UNCHANGED <<kind, payload, failure, handoff, event, mainVars>>

\* try_begin_establish: a compare-and-exchange that one call wins.
TryBeginEstablish(c) ==
    /\ Go(c, "begin", IF begun THEN "fail" ELSE "copy")
    /\ begun' = TRUE
    /\ UNCHANGED <<kind, payload, failure, handoff, event, mainVars>>

\* Variant: success is announced before the handles are copied.
CopyLate(c) ==
    /\ Go(c, "copy", "succeed")
    /\ handoff' = kind[c] /\ event' = TRUE
    /\ UNCHANGED <<kind, begun, payload, failure, mainVars>>

\* Duplicating the handles (and creating pipes, for ITerminalHandoff3) may fail.
Copy(c) ==
    /\ \/ Go(c, "copy", "succeed") /\ payload' = c
       \/ Go(c, "copy", "fail") /\ UNCHANGED payload
    /\ UNCHANGED <<kind, begun, failure, handoff, event, mainVars>>

\* set_console_succeeded and set_terminal_succeeded, up to the event.
SetSucceeded(c) ==
    /\ Go(c, "succeed", "signalOk")
    /\ handoff' = kind[c]
    /\ UNCHANGED <<kind, begun, payload, failure, event, mainVars>>

\* set_failed_with_context: the reason, then the state, then the event.
SetReason(c) ==
    /\ Go(c, "fail", "setFailed")
    /\ failure' = c
    /\ UNCHANGED <<kind, begun, payload, handoff, event, mainVars>>

SetFailed(c) ==
    /\ Go(c, "setFailed", "signalRefused")
    /\ handoff' = "failed"
    /\ UNCHANGED <<kind, begun, payload, failure, event, mainVars>>

\* Variant: a refused call does not wake the main thread.
SignalSuccessOnly(c) ==
    /\ \/ Go(c, "signalOk", "ok") /\ event' = TRUE
       \/ Go(c, "signalRefused", "refused") /\ UNCHANGED event
    /\ UNCHANGED <<kind, begun, payload, failure, handoff, mainVars>>

\* signal_completion_event; the call returns.
Signal(c) ==
    /\ Go(c, "signalOk", "ok") \/ Go(c, "signalRefused", "refused")
    /\ event' = TRUE
    /\ UNCHANGED <<kind, begun, payload, failure, handoff, mainVars>>

Step(c) ==
    \/ TryBeginEstablish(c) \/ Copy(c) \/ SetSucceeded(c)
    \/ SetReason(c) \/ SetFailed(c) \/ Signal(c)

-----------------------------------------------------------------------------
(***************************************************************************)
(* The main thread.  It reads the state up to three times.                 *)
(***************************************************************************)
MainGoes(from, to) == main = from /\ main' = to /\ UNCHANGED callVars

Wake == event /\ MainGoes("waiting", "readFailed") /\ UNCHANGED reported

TimeOut == CanTimeOut /\ ~event /\ MainGoes("waiting", "timedOut") /\ UNCHANGED reported

ReadFailed ==
    /\ MainGoes("readFailed", IF handoff = "failed" THEN "failed" ELSE "readConsole")
    /\ reported' = IF handoff = "failed" THEN failure ELSE reported

ReadConsole ==
    /\ MainGoes("readConsole", IF handoff = "console" THEN "console" ELSE "readTerminal")
    /\ UNCHANGED reported

ReadTerminal ==
    /\ MainGoes("readTerminal",
         IF handoff # "terminal" THEN "notSet" ELSE IF SupportsTerminal THEN "terminal" ELSE "noRunner")
    /\ UNCHANGED reported

Main == Wake \/ ReadFailed \/ ReadConsole \/ ReadTerminal

Next ==
    \/ \E c \in Callers, k \in Kinds, valid \in BOOLEAN : Call(c, k, valid)
    \/ \E c \in Callers : Step(c)
    \/ Main \/ TimeOut

\* COM's threads and the main thread are scheduled; no call need ever arrive.
Fairness == WF_vars(Main) /\ \A c \in Callers : WF_vars(Step(c))

Spec == Init /\ [][Next]_vars /\ Fairness

-----------------------------------------------------------------------------
\* Every variable has its type.
TypeOK ==
    /\ pc \in [Callers -> {"idle", "begin", "copy", "succeed", "signalOk", "ok",
                           "fail", "setFailed", "signalRefused", "refused"}]
    /\ kind \in [Callers -> Kinds]
    /\ begun \in BOOLEAN /\ event \in BOOLEAN
    /\ {payload, failure, reported} \subseteq Callers \cup {NoCaller}
    /\ handoff \in Kinds \cup {"pending", "failed"}
    /\ main \in Finished \cup {"waiting", "readFailed", "readConsole", "readTerminal"}

Accepted == {"copy", "succeed", "signalOk", "ok"}

\* The server accepts exactly one handoff: of any number of calls at once, only one gets past
\* the compare-and-exchange.
OneAccepted == \A c, d \in Callers : pc[c] \in Accepted /\ pc[d] \in Accepted => c = d

\* A runner is given the handles of an accepted call of its own interface, completely copied,
\* though it reads them on another thread without a lock.
RunnerGetsPayload ==
    main \in Kinds => payload # NoCaller /\ kind[payload] = main /\ pc[payload] \in Accepted

\* A failure the server reports is one that a refused call wrote.
FailureHasReason == main = "failed" => reported # NoCaller

\* What the main thread takes from the calls without a lock was complete when it looked.
ReadsWhatWasWritten == RunnerGetsPayload /\ FailureHasReason

\* Once a call has returned, whatever the outcome, the main thread does not stay waiting.
ReturnEndsWait == (\E c \in Callers : pc[c] \in {"ok", "refused"}) ~> main \in Finished
=============================================================================
