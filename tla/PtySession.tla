------------------------------ MODULE PtySession ------------------------------
(***************************************************************************)
(* run_with_pseudoconsole: a session without a window.  One thread polls   *)
(* the signal handle, copies the pseudo console's output to the terminal,  *)
(* copies the terminal's input to the pseudo console, looks at the client  *)
(* process and, once it is gone, drains what output is left.               *)
(***************************************************************************)
EXTENDS PtyClient

CONSTANTS
  MaxInput,   \* pieces of input the terminal sends
  MaxFailures \* how often TerminateProcess may fail

VARIABLES
  pump,       \* where the thread is
  modes,      \* the terminal's console modes: "own" or "raw"
  chunk,      \* output read and being written to the terminal
  terminal,   \* output the terminal has
  hostIn,     \* input waiting in the host's input
  hostInOpen, \* whether more can come
  sent,       \* pieces of input sent so far
  ptyIn,      \* input the pseudo console has
  asked,      \* the signal handle is signalled
  failures,   \* failed TerminateProcess calls
  terminated, inputEof, exited, drains, broken, hadOutput,  \* locals of the loop
  returned    \* what was returned

pumpVars == <<pump, modes, chunk, terminal, hostIn, hostInOpen, sent, ptyIn, asked, failures,
              terminated, inputEof, exited, drains, broken, hadOutput, returned>>

PumpTypeOK ==
  /\ pump \in {"none", "spawn", "handshake", "signal", "output", "write", "input", "process",
               "drain", "code", "done"}
  /\ modes \in {"own", "raw"}
  /\ {hostInOpen, asked, terminated, inputEof, exited, drains, broken, hadOutput} \subseteq BOOLEAN
  /\ terminal \in Seq(1 .. MaxOutput) /\ chunk \in Seq(1 .. MaxOutput)
  /\ hostIn \in Seq(1 .. MaxInput) /\ ptyIn \in Seq(1 .. MaxInput)
  /\ sent \in 0 .. MaxInput /\ failures \in 0 .. MaxFailures
  /\ returned \in Clients \cup {"error"}

PumpInit ==
  /\ pump = "none" /\ modes = "own" /\ returned = "none"
  /\ chunk = <<>> /\ terminal = <<>> /\ hostIn = <<>> /\ ptyIn = <<>>
  /\ hostInOpen = TRUE /\ sent = 0 /\ asked = FALSE /\ failures = 0
  /\ terminated = FALSE /\ inputEof = FALSE /\ exited = FALSE /\ drains = FALSE
  /\ broken = FALSE /\ hadOutput = FALSE

StartPump == pump = "none" /\ pump' = "spawn" /\ UNCHANGED ptyVars
             /\ UNCHANGED <<modes, chunk, terminal, hostIn, hostInOpen, sent, ptyIn, asked,
                            failures, terminated, inputEof, exited, drains, broken, hadOutput,
                            returned>>

IoVars == <<chunk, terminal, hostIn, hostInOpen, sent, ptyIn>>
LocalVars == <<terminated, inputEof, exited, drains, broken, hadOutput>>

\* Every return runs the destructors: ConsoleModeGuard puts the modes back, and then
\* the pseudo console is closed.
LeaveWith(value) ==
  /\ pump' = "done" /\ returned' = value
  /\ modes' = "own"
  /\ ClosePseudoConsole

-----------------------------------------------------------------------------
\* Pipes, pseudo console, attribute list and client; then the ConsoleModeGuard.
SpawnClientOfPump ==
  /\ pump = "spawn"
  /\ \/ pump' = "handshake" /\ modes' = "raw" /\ SpawnClient /\ UNCHANGED returned
     \/ LeaveWith("error")
  /\ UNCHANGED <<IoVars, asked, failures, LocalVars>>

\* send_initial_terminal_handshake writes to the terminal.
Handshake ==
  /\ pump = "handshake"
  /\ \/ pump' = "signal" /\ UNCHANGED <<modes, returned, ptyVars>>
     \/ LeaveWith("error")
  /\ UNCHANGED <<IoVars, asked, failures, LocalVars>>

\* The handle stays signalled, so a TerminateProcess that fails is tried again.
PollSignal ==
  /\ pump = "signal"
  /\ pump' = "output"
  /\ terminated' = (terminated \/ asked)
  /\ \/ client' = (IF asked THEN Terminate ELSE client) /\ UNCHANGED failures
     \/ asked /\ failures < MaxFailures /\ failures' = failures + 1 /\ UNCHANGED client
  /\ UNCHANGED <<modes, IoVars, asked, inputEof, exited, drains, broken, hadOutput, returned,
                 written, unflushed, ptyOut, ptyOutOpen>>

\* pump_output_from_pseudoconsole up to the read.
PumpOutput ==
  /\ pump = "output"
  /\ \/ /\ ptyOut = <<>>
        /\ broken' = ~ptyOutOpen /\ hadOutput' = FALSE
        /\ pump' = "input"
        /\ UNCHANGED <<chunk, ptyOut>>
     \/ \E n \in 1 .. Len(ptyOut) :
          /\ chunk' = SubSeq(ptyOut, 1, n)
          /\ ptyOut' = SubSeq(ptyOut, n + 1, Len(ptyOut))
          /\ broken' = FALSE /\ hadOutput' = TRUE
          /\ pump' = "write"
  /\ UNCHANGED <<modes, terminal, hostIn, hostInOpen, sent, ptyIn, asked, failures, terminated,
                 inputEof, exited, drains, returned, client, written, unflushed, ptyOutOpen>>

\* write_bytes repeats WriteFile until all of the chunk is written.
WriteOutput ==
  /\ pump = "write"
  /\ \E n \in 1 .. Len(chunk) :
       /\ terminal' = terminal \o SubSeq(chunk, 1, n)
       /\ chunk' = SubSeq(chunk, n + 1, Len(chunk))
       /\ pump' = IF n = Len(chunk) THEN "input" ELSE "write"
  /\ UNCHANGED <<modes, hostIn, hostInOpen, sent, ptyIn, asked, failures, LocalVars, returned,
                 ptyVars>>

\* pump_console_input_to_pseudoconsole: not any more once the client is being ended.
PumpInput ==
  /\ pump = "input"
  /\ pump' = "process"
  /\ IF exited \/ terminated \/ inputEof
     THEN UNCHANGED <<hostIn, ptyIn, inputEof>>
     ELSE \/ /\ hostIn = <<>>
             /\ inputEof' = ~hostInOpen
             /\ UNCHANGED <<hostIn, ptyIn>>
          \/ \E n \in 1 .. Len(hostIn) :
               /\ ptyIn' = ptyIn \o SubSeq(hostIn, 1, n)
               /\ hostIn' = SubSeq(hostIn, n + 1, Len(hostIn))
               /\ UNCHANGED inputEof
  /\ UNCHANGED <<modes, chunk, terminal, hostInOpen, sent, asked, failures, terminated, exited,
                 drains, broken, hadOutput, returned, ptyVars>>

PollProcess ==
  /\ pump = "process"
  /\ pump' = "drain"
  /\ exited' = (exited \/ ClientGone)
  /\ UNCHANGED <<modes, IoVars, asked, failures, terminated, inputEof, drains, broken, hadOutput,
                 returned, ptyVars>>

\* After the client: a broken pipe ends the loop, output restarts the drain period.
DrainPump ==
  /\ pump = "drain"
  /\ pump' = IF exited /\ broken THEN "code" ELSE "signal"
  /\ drains' = (exited /\ ~hadOutput)
  /\ UNCHANGED <<modes, IoVars, asked, failures, terminated, inputEof, exited, broken, hadOutput,
                 returned, ptyVars>>

\* kDrainTimeoutMs without output; the pseudo console host is assumed to flush within
\* it, early enough for one more look at the pipe.
DrainPumpElapses ==
  /\ pump = "drain" /\ exited /\ ~broken /\ ~hadOutput /\ drains
  /\ unflushed = <<>> /\ ptyOut = <<>>
  /\ pump' = "code"
  /\ UNCHANGED <<modes, IoVars, asked, failures, LocalVars, returned, ptyVars>>

ReturnCode ==
  /\ pump = "code"
  /\ LeaveWith(client)
  /\ UNCHANGED <<IoVars, asked, failures, LocalVars>>

\* Any pipe, console or wait call may fail: the session returns the error.
PumpFails ==
  /\ pump \in {"output", "write", "input", "process", "code"}
  /\ LeaveWith("error")
  /\ UNCHANGED <<IoVars, asked, failures, LocalVars>>

-----------------------------------------------------------------------------
\* The terminal, and whoever holds the signal handle.
TerminalSends ==
  /\ hostInOpen
  /\ \/ sent < MaxInput /\ sent' = sent + 1 /\ hostIn' = Append(hostIn, sent + 1)
        /\ UNCHANGED hostInOpen
     \/ hostInOpen' = FALSE /\ UNCHANGED <<sent, hostIn>>
  /\ UNCHANGED <<pump, modes, chunk, terminal, ptyIn, asked, failures, LocalVars, returned, ptyVars>>

SignalAsks ==
  /\ ~asked /\ asked' = TRUE
  /\ UNCHANGED <<pump, modes, IoVars, failures, LocalVars, returned, ptyVars>>

PumpThread == \/ SpawnClientOfPump \/ Handshake \/ PollSignal \/ PumpOutput \/ WriteOutput
              \/ PumpInput \/ PollProcess \/ DrainPump \/ DrainPumpElapses \/ ReturnCode
              \/ PumpFails

PumpRuns == pump \notin {"none", "done"}

PumpNext ==
  /\ PumpRuns
  /\ PumpThread \/ TerminalSends \/ SignalAsks \/ (PtyStep /\ UNCHANGED pumpVars)

PumpReaders == (HostFlushes \/ (client = "dying" /\ ClientExits)) /\ UNCHANGED pumpVars

-----------------------------------------------------------------------------
\* What reaches the terminal is what the client wrote and what reaches the client is
\* what was typed, each in order and without a gap, at every moment.
StreamsInOrder ==
  /\ terminal \o chunk = Pieces(Len(terminal \o chunk))
  /\ ptyIn \o hostIn = Pieces(sent)

\* A session that returns its client's exit code has forwarded all of the output,
\* also the part the pseudo console host flushed after the client was gone.
OutputForwardedBeforeReturn ==
  (returned \notin {"none", "error"}) =>
    /\ terminal = Pieces(written)
    /\ returned \in {"exited", "ended"}

\* However the session ends, the terminal has its own modes back and no client is left.
ReturnsClean == pump = "done" => modes = "own" /\ (client = "none" \/ ClientGone)

\* A session may not outlive its client, nor a request to shut down.
PumpMustEnd == PumpRuns /\ (ClientGone \/ asked)
=============================================================================
