--------------------------- MODULE DelegatedSession ---------------------------
(***************************************************************************)
(* The inbox host after a successful IConsoleHandoff: Session::run waits   *)
(* for the delegated host, for the console's \Reference handle and for the *)
(* HostSignalInputThread, which reads the delegated host's requests from a *)
(* pipe and carries them out.  A request is a code byte and a payload that *)
(* declares its own size; the pipe holds units <<packet, part>>, part 0    *)
(* being the code, and the delegated host may die between any two of them. *)
(***************************************************************************)
EXTENDS Naturals, Sequences

CONSTANTS
  Signals,     \* the requests it may write: records [code, size]
  PayloadSize, \* sizeof the structure the reader expects
  MaxSignals   \* how many requests it writes

VARIABLES
  inbox,      \* the main thread: "none", "start", "open", "wait", "stop", "join" or "done"
  reader,     \* the signal thread: "none", "code", "payload", "extra" or "exited"
  got,        \* units of the payload read so far
  current,    \* the packet whose code was read last
  signalStop, \* the thread's stop event
  ownWriter,  \* our own copy of the pipe's write end is open
  hostWriter, \* the delegated host's copy is open
  packets,    \* the requests begun
  owed,       \* units of the last one not yet written
  wire,       \* the units in the pipe
  handled,    \* the requests carried out
  closings,   \* how often the client was asked to close since the pipe had ended
  delegated,  \* the delegated host: "running" or "exited"
  reference,  \* "usable", "signalled" or "useless": the console's \Reference handle
  observed,   \* observe_delegated_process
  guarded,    \* wait on the reference
  lastCode,   \* delegated_signaled and its exit code
  left        \* what was returned: "none", "code", "zero" or "error"

delegatedVars == <<inbox, reader, got, current, signalStop, ownWriter, hostWriter, packets, owed,
                   wire, handled, closings, delegated, reference, observed, guarded, lastCode, left>>

Host == <<hostWriter, packets, owed, delegated>>
ReaderState == <<reader, got, current, wire, handled, closings>>

DelegatedTypeOK ==
  /\ inbox \in {"none", "start", "open", "wait", "stop", "join", "done"}
  /\ reader \in {"none", "code", "payload", "extra", "exited"}
  /\ {signalStop, ownWriter, hostWriter, observed, guarded, lastCode} \subseteq BOOLEAN
  /\ packets \in Seq(Signals) /\ Len(packets) <= MaxSignals
  /\ wire \in Seq((1 .. MaxSignals) \X Nat)
  /\ handled \in Seq(1 .. MaxSignals)
  /\ current \in 0 .. Len(packets) /\ got \in Nat /\ owed \in Nat /\ closings \in Nat
  /\ delegated \in {"running", "exited"} /\ reference \in {"usable", "signalled", "useless"}
  /\ left \in {"none", "code", "zero", "error"}

DelegatedInit ==
  /\ inbox = "none" /\ reader = "none" /\ left = "none"
  /\ got = 0 /\ current = 0 /\ owed = 0 /\ closings = 0
  /\ packets = <<>> /\ wire = <<>> /\ handled = <<>>
  /\ delegated = "running" /\ reference = "usable"
  /\ ownWriter = TRUE /\ hostWriter = TRUE /\ observed = TRUE
  /\ signalStop = FALSE /\ guarded = FALSE /\ lastCode = FALSE

\* The handoff has succeeded: both processes hold the write end.
StartDelegated ==
  /\ inbox = "none"
  /\ inbox' = "start"
  /\ reference' \in {"usable", "useless"}
  /\ UNCHANGED <<ReaderState, signalStop, ownWriter, Host, observed, guarded, lastCode, left>>

HasReader == reader # "none"
HaveGuard == guarded \/ HasReader

\* Returning destroys the signal thread, which first stops and joins it.
Leave(value) == left' = value /\ inbox' = IF HasReader THEN "stop" ELSE "done"

-----------------------------------------------------------------------------
(* The main thread *)

\* Mutant: our copy of the write end stays open.
StartReaderKeepsWriter ==
  /\ inbox = "start"
  /\ inbox' = "open"
  /\ reader' \in {"code", "none"}
  /\ UNCHANGED <<got, current, wire, handled, closings, signalStop, ownWriter, Host, reference,
                 observed, guarded, lastCode, left>>

\* HostSignalInputThread::start may fail; our ends of the pipe are closed either way.
StartReader ==
  /\ inbox = "start"
  /\ inbox' = "open"
  /\ reader' \in {"code", "none"}
  /\ ownWriter' = FALSE
  /\ UNCHANGED <<got, current, wire, handled, closings, signalStop, Host, reference, observed,
                 guarded, lastCode, left>>

\* A reference that is already signalled, or cannot be opened, guards nothing.
OpenReference ==
  /\ inbox = "open"
  /\ inbox' = "wait"
  /\ guarded' = (reference = "usable")
  /\ UNCHANGED <<ReaderState, signalStop, ownWriter, Host, reference, observed, lastCode, left>>

\* Mutant: the inbox host leaves with the delegated host's process.
DelegatedExitedLeaves ==
  /\ inbox = "wait"
  /\ observed /\ delegated = "exited"
  /\ observed' = FALSE /\ lastCode' = TRUE
  /\ Leave("code")
  /\ UNCHANGED <<ReaderState, signalStop, ownWriter, Host, reference, guarded>>

\* The delegated host is the first of the handles waited for.
DelegatedExited ==
  /\ inbox = "wait"
  /\ observed /\ delegated = "exited"
  /\ \/ /\ observed' = FALSE /\ lastCode' = TRUE
        /\ IF HaveGuard THEN UNCHANGED <<inbox, left>> ELSE Leave("code")
     \/ Leave("error") /\ UNCHANGED <<observed, lastCode>>
  /\ UNCHANGED <<ReaderState, signalStop, ownWriter, Host, reference, guarded>>

GuardSignalled ==
  /\ inbox = "wait"
  /\ ~(observed /\ delegated = "exited")
  /\ (guarded /\ reference = "signalled") \/ reader = "exited"
  /\ Leave(IF lastCode THEN "code" ELSE "zero")
  /\ UNCHANGED <<ReaderState, signalStop, ownWriter, Host, reference, observed, guarded, lastCode>>

WaitFails ==
  /\ inbox = "wait"
  /\ Leave("error")
  /\ UNCHANGED <<ReaderState, signalStop, ownWriter, Host, reference, observed, guarded, lastCode>>

StopReader ==
  /\ inbox = "stop"
  /\ inbox' = "join" /\ signalStop' = TRUE
  /\ UNCHANGED <<ReaderState, ownWriter, Host, reference, observed, guarded, lastCode, left>>

JoinReader ==
  /\ inbox = "join" /\ reader = "exited"
  /\ inbox' = "done"
  /\ UNCHANGED <<ReaderState, signalStop, ownWriter, Host, reference, observed, guarded, lastCode,
                 left>>

InboxThread == StartReader \/ OpenReference \/ DelegatedExited \/ GuardSignalled \/ StopReader
               \/ JoinReader

-----------------------------------------------------------------------------
(* The signal thread *)

ReaderRest == <<inbox, signalStop, ownWriter, Host, reference, observed, guarded, lastCode, left>>
Reading == reader \in {"code", "payload", "extra"}
PipeBroken == wire = <<>> /\ ~ownWriter /\ ~hostWriter

\* signal_pipe_disconnected: the client is asked to close, and the thread ends.
Disconnected == reader' = "exited" /\ closings' = closings + 1

\* read_exact looks at the stop event before every read.
ReaderStops ==
  /\ Reading /\ signalStop
  /\ reader' = "exited"
  /\ UNCHANGED <<got, current, wire, handled, closings, ReaderRest>>

ReaderBreaks ==
  /\ Reading /\ ~signalStop /\ PipeBroken
  /\ Disconnected
  /\ UNCHANGED <<got, current, wire, handled, ReaderRest>>

\* Behind a payload that was not consumed to its end, a code is any byte.
Codes(unit) == IF unit[2] = 0 THEN {packets[unit[1]].code} ELSE {s.code : s \in Signals}

ReadCode ==
  /\ reader = "code" /\ ~signalStop /\ wire # <<>>
  /\ wire' = Tail(wire)
  /\ current' = Head(wire)[1] /\ got' = 0
  /\ \E code \in Codes(Head(wire)) :
       IF code = "unknown" THEN Disconnected ELSE reader' = "payload" /\ UNCHANGED closings
  /\ UNCHANGED <<handled, ReaderRest>>

\* The request is carried out and the next code is read.
Perform == handled' = Append(handled, current) /\ reader' = "code"

\* Mutant: what a larger payload adds stays in the pipe.
ReadPayloadLeavesExtra ==
  /\ reader = "payload" /\ ~signalStop /\ wire # <<>>
  /\ wire' = Tail(wire)
  /\ got' = got + 1
  /\ IF got + 1 < PayloadSize THEN UNCHANGED <<reader, handled, closings>>
     ELSE IF packets[current].size < PayloadSize THEN Disconnected /\ UNCHANGED handled
     ELSE Perform /\ UNCHANGED closings
  /\ UNCHANGED <<current, ReaderRest>>

\* The declared size is known once the whole structure has been read: a smaller one ends
\* the thread, what a larger one adds is discarded.
ReadPayload ==
  /\ reader = "payload" /\ ~signalStop /\ wire # <<>>
  /\ wire' = Tail(wire)
  /\ got' = got + 1
  /\ IF got + 1 < PayloadSize THEN UNCHANGED <<reader, handled, closings>>
     ELSE IF packets[current].size < PayloadSize THEN Disconnected /\ UNCHANGED handled
     ELSE IF packets[current].size > PayloadSize
     THEN reader' = "extra" /\ UNCHANGED <<handled, closings>>
     ELSE Perform /\ UNCHANGED closings
  /\ UNCHANGED <<current, ReaderRest>>

DiscardExtra ==
  /\ reader = "extra" /\ ~signalStop /\ wire # <<>>
  /\ wire' = Tail(wire)
  /\ got' = got + 1
  /\ IF got + 1 = packets[current].size THEN Perform ELSE UNCHANGED <<reader, handled>>
  /\ UNCHANGED <<current, closings, ReaderRest>>

SignalThread == ReaderStops \/ ReaderBreaks \/ ReadCode \/ ReadPayload \/ DiscardExtra

-----------------------------------------------------------------------------
(* The delegated host and the console *)

InboxRest == <<inbox, reader, got, current, signalStop, ownWriter, handled, closings, observed,
               guarded, lastCode, left>>

\* What it writes once nobody reads the pipe concerns nobody.
Heard == hostWriter /\ (inbox = "start" \/ Reading)

HostBegins(signal) ==
  /\ Heard /\ owed = 0 /\ Len(packets) < MaxSignals
  /\ packets' = Append(packets, signal)
  /\ owed' = signal.size
  /\ wire' = Append(wire, <<Len(packets) + 1, 0>>)
  /\ UNCHANGED <<InboxRest, hostWriter, delegated, reference>>

HostContinues ==
  /\ Heard /\ owed > 0
  /\ owed' = owed - 1
  /\ wire' = Append(wire, <<Len(packets), packets[Len(packets)].size - owed + 1>>)
  /\ UNCHANGED <<InboxRest, hostWriter, packets, delegated, reference>>

\* It closes its end, before or after it exits: a process it started may hold a copy.
HostCloses ==
  /\ hostWriter /\ inbox # "none"
  /\ hostWriter' = FALSE /\ owed' = 0
  /\ UNCHANGED <<InboxRest, packets, wire, delegated, reference>>

HostExits ==
  /\ delegated = "running" /\ inbox # "none"
  /\ delegated' = "exited"
  /\ UNCHANGED <<InboxRest, hostWriter, packets, owed, wire, reference>>

LastClientLeaves ==
  /\ reference = "usable" /\ inbox # "none"
  /\ reference' = "signalled"
  /\ UNCHANGED <<InboxRest, wire, Host>>

DelegatedHost == (\E s \in Signals : HostBegins(s)) \/ HostContinues \/ HostCloses \/ HostExits
                 \/ LastClientLeaves

DelegatedRuns == inbox \notin {"none", "done"}
DelegatedNext == InboxThread \/ WaitFails \/ SignalThread \/ (DelegatedRuns /\ DelegatedHost)

-----------------------------------------------------------------------------
\* The requests carried out are the first ones of the delegated host, each once and in
\* order, and none of them was malformed: a payload longer than this build knows does not
\* put the thread out of step with the stream.
SignalsKeepTheirFrame ==
  /\ \A i \in 1 .. Len(handled) : handled[i] = i
  /\ \A i \in 1 .. Len(handled) : /\ packets[i].code # "unknown"
                                  /\ packets[i].size >= PayloadSize

\* While the console is in use the inbox host stays: with a guard it returns without an
\* error only after its signal thread ended by itself or the reference was signalled,
\* never because the delegated host's process alone is gone.
GuardOutlivesDelegate ==
  (inbox \in {"stop", "join", "done"} /\ left # "error" /\ HaveGuard)
    => (guarded /\ reference = "signalled") \/ reader = "exited"

\* A signal thread that ends before it is told to stop has asked the client to close, once:
\* a delegated host that vanishes, even in the middle of a request, does not leave a client
\* without a console behind.
ClosedOnceOnDisconnect ==
  /\ reader = "exited" => (closings = 1 \/ signalStop)
  /\ closings > 0 => reader = "exited" /\ closings = 1

\* The inbox host may not outlive the delegated host's end of the pipe it reads: its own
\* copy of the write end must not keep the pipe alive.
InboxMustEnd == inbox = "wait" /\ HasReader /\ ~hostWriter
=============================================================================
