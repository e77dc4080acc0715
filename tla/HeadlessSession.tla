--------------------------- MODULE HeadlessSession ---------------------------
(***************************************************************************)
(* Serving a console on the main thread: behind a terminal (headless or    *)
(* ConPTY startup with a server handle), or without any window.  The       *)
(* signal handle is an event or a pipe.  Headless hosting hands a pipe to  *)
(* a SignalPipeMonitor, a thread that reads the terminal's bytes away and  *)
(* turns the end of the pipe into an event.  ConDrvServer::run, modelled   *)
(* in ServerLoop, appears here as what makes it return.                    *)
(***************************************************************************)
EXTENDS Naturals

CONSTANT MaxBytes  \* how many chunks of bytes the terminal writes to the signal pipe

VARIABLES
  host,       \* "none", "prepare", "handshake", "serve", "cancelIo", "cancelSync", "join", "done"
  windowless, \* no terminal either: the signal handle itself is the stop signal
  signalKind, \* "none", "event" or "pipe"
  sigBytes,   \* unread chunks in the signal pipe
  sigWritten, \* chunks written so far
  sigOpen,    \* the terminal's end of it is open
  sigEvent,   \* an event given as signal is set
  stopEvent,  \* the event the monitor sets
  monitor,    \* "none", "idle" (between two reads), "reading" or "exited"
  served      \* why ConDrvServer::run returned: "no", "stopped", "ended" or "failed"

headlessVars == <<host, windowless, signalKind, sigBytes, sigWritten, sigOpen, sigEvent, stopEvent,
                  monitor, served>>

Terminal == <<sigBytes, sigWritten, sigOpen, sigEvent>>

HeadlessTypeOK ==
  /\ host \in {"none", "prepare", "handshake", "serve", "cancelIo", "cancelSync", "join", "done"}
  /\ {windowless, sigOpen, sigEvent, stopEvent} \subseteq BOOLEAN
  /\ signalKind \in {"none", "event", "pipe"}
  /\ sigBytes \in 0 .. MaxBytes /\ sigWritten \in 0 .. MaxBytes
  /\ monitor \in {"none", "idle", "reading", "exited"}
  /\ served \in {"no", "stopped", "ended", "failed"}

HeadlessInit ==
  /\ host = "none" /\ windowless = FALSE /\ signalKind = "none" /\ monitor = "none"
  /\ sigBytes = 0 /\ sigWritten = 0 /\ sigOpen = TRUE /\ sigEvent = FALSE
  /\ stopEvent = FALSE /\ served = "no"

\* Where a session of this kind begins.
StartServing(alone, how) ==
  /\ host = "none"
  /\ host' = IF alone THEN "serve" ELSE "prepare"
  /\ windowless' = alone
  /\ signalKind' = how
  /\ UNCHANGED <<Terminal, stopEvent, monitor, served>>

-----------------------------------------------------------------------------
(* The main thread *)

\* Only a pipe gets a monitor; without one there is no stop signal at all.
StartMonitor ==
  /\ host = "prepare"
  /\ host' = "handshake"
  /\ monitor' \in IF signalKind = "pipe" THEN {"idle", "none"} ELSE {"none"}
  /\ UNCHANGED <<windowless, signalKind, Terminal, stopEvent, served>>

\* Leaving destroys the monitor, which cancels its read and joins it.
LeaveServing(why) ==
  /\ served' = why
  /\ host' = IF monitor = "none" THEN "done" ELSE "cancelIo"

HeadlessHandshake ==
  /\ host = "handshake"
  /\ \/ host' = "serve" /\ UNCHANGED served
     \/ LeaveServing("failed")
  /\ UNCHANGED <<windowless, signalKind, Terminal, stopEvent, monitor>>

\* A pipe that is waited on directly is signalled by any byte in it.
StopSignalled ==
  \/ signalKind = "event" /\ sigEvent
  \/ signalKind = "pipe" /\ windowless /\ (sigBytes > 0 \/ ~sigOpen)
  \/ monitor # "none" /\ stopEvent

ServerStops ==
  /\ host = "serve" /\ StopSignalled
  /\ LeaveServing("stopped")
  /\ UNCHANGED <<windowless, signalKind, Terminal, stopEvent, monitor>>

\* The last client has disconnected, or the device has failed.
ServerEnds ==
  /\ host = "serve"
  /\ LeaveServing("ended")
  /\ UNCHANGED <<windowless, signalKind, Terminal, stopEvent, monitor>>

\* CancelIoEx, then CancelSynchronousIo: either ends a read that is pending just then.
CancelRead ==
  /\ host \in {"cancelIo", "cancelSync"}
  /\ host' = IF host = "cancelIo" THEN "cancelSync" ELSE "join"
  /\ monitor' = IF monitor = "reading" THEN "exited" ELSE monitor
  /\ UNCHANGED <<windowless, signalKind, Terminal, stopEvent, served>>

JoinMonitor ==
  /\ host = "join" /\ monitor = "exited"
  /\ host' = "done"
  /\ UNCHANGED <<windowless, signalKind, Terminal, stopEvent, monitor, served>>

HeadlessMain == StartMonitor \/ HeadlessHandshake \/ ServerStops \/ CancelRead \/ JoinMonitor

-----------------------------------------------------------------------------
(* The monitor *)

MonitorReads ==
  /\ monitor = "idle"
  /\ monitor' = "reading"
  /\ UNCHANGED <<host, windowless, signalKind, Terminal, stopEvent, served>>

\* Mutant: bytes in the pipe are taken for its end.
MonitorDrainsStops ==
  /\ monitor = "reading" /\ sigBytes > 0
  /\ monitor' = "idle" /\ sigBytes' = 0 /\ stopEvent' = TRUE
  /\ UNCHANGED <<host, windowless, signalKind, sigWritten, sigOpen, sigEvent, served>>

MonitorDrains ==
  /\ monitor = "reading" /\ sigBytes > 0
  /\ monitor' = "idle" /\ sigBytes' = 0
  /\ UNCHANGED <<host, windowless, signalKind, sigWritten, sigOpen, sigEvent, stopEvent, served>>

MonitorBreaks ==
  /\ monitor = "reading" /\ sigBytes = 0 /\ ~sigOpen
  /\ monitor' = "exited" /\ stopEvent' = TRUE
  /\ UNCHANGED <<host, windowless, signalKind, Terminal, served>>

MonitorThread == MonitorReads \/ MonitorDrains \/ MonitorBreaks

-----------------------------------------------------------------------------
(* The terminal, or whoever holds the other end of the signal handle *)

TerminalWrites ==
  /\ signalKind = "pipe" /\ sigOpen /\ sigWritten < MaxBytes
  /\ sigBytes' = sigBytes + 1 /\ sigWritten' = sigWritten + 1
  /\ UNCHANGED <<host, windowless, signalKind, sigOpen, sigEvent, stopEvent, monitor, served>>

TerminalCloses ==
  /\ signalKind = "pipe" /\ sigOpen
  /\ sigOpen' = FALSE
  /\ UNCHANGED <<host, windowless, signalKind, sigBytes, sigWritten, sigEvent, stopEvent, monitor,
                 served>>

EventIsSet ==
  /\ signalKind = "event" /\ ~sigEvent
  /\ sigEvent' = TRUE
  /\ UNCHANGED <<host, windowless, signalKind, sigBytes, sigWritten, sigOpen, stopEvent, monitor,
                 served>>

HeadlessRuns == host \notin {"none", "done"}
HeadlessNext == HeadlessMain \/ ServerEnds \/ MonitorThread
                \/ (HeadlessRuns /\ (TerminalWrites \/ TerminalCloses \/ EventIsSet))

-----------------------------------------------------------------------------
\* Behind a terminal, bytes in the signal pipe are not a request to stop: the server is
\* stopped only after the terminal closed the pipe (or set the event it gave).
TrafficDoesNotStop ==
  (served = "stopped" /\ ~windowless) => IF signalKind = "pipe" THEN ~sigOpen ELSE sigEvent

\* A session whose signal pipe is monitored may not outlive its terminal.
ServingMustEnd == HeadlessRuns /\ monitor # "none" /\ ~sigOpen
=============================================================================
