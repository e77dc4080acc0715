---------------------------- MODULE SessionProofs ----------------------------
(***************************************************************************)
(* What every run of the program keeps, for any command line, any amount   *)
(* of output, keys and signals, and any way its threads take turns.        *)
(*                                                                         *)
(* The sessions are composed side by side, so each proof starts from a     *)
(* frame lemma (a step of the program is a step of this session, its       *)
(* start, or leaves its variables alone) and goes on with an inductive     *)
(* invariant of that session alone.  The two sessions with a client share  *)
(* its variables; that only one of them ever runs is an invariant of the   *)
(* launch (Exclusive).                                                     *)
(***************************************************************************)
EXTENDS SessionHost, TLAPS

-----------------------------------------------------------------------------
(* Frames *)

\* A step of the program is a step of the headless server, its start, or none of its own.
LEMMA HeadlessFrame ==
  [HostNext]_hostVars =>
    \/ HeadlessNext
    \/ \E a \in BOOLEAN, k \in {"none", "event", "pipe"} : StartServing(a, k)
    \/ UNCHANGED headlessVars
<1> SUFFICES ASSUME [HostNext]_hostVars
             PROVE  \/ HeadlessNext
                    \/ \E a \in BOOLEAN, k \in {"none", "event", "pipe"} : StartServing(a, k)
                    \/ UNCHANGED headlessVars
  OBVIOUS
<1>1. CASE BeginServing
  BY <1>1 DEF BeginServing
<1>2. CASE HeadlessNext /\ OnlyHeadless
  BY <1>2
<1>3. CASE \/ LaunchStep /\ OnlyLaunch
           \/ BeginWindow \/ BeginPump \/ BeginDelegated
           \/ WinNext /\ OnlyWindow
           \/ PumpNext /\ OnlyPump
           \/ DelegatedNext /\ OnlyDelegated
           \/ Finished
           \/ UNCHANGED hostVars
  BY <1>3 DEF OnlyLaunch, OnlyWindow, OnlyPump, OnlyDelegated, BeginWindow, BeginPump,
              BeginDelegated, Finished, hostVars
<1> QED
  BY <1>1, <1>2, <1>3 DEF HostNext

\* The same for the inbox host of a delegated session.
LEMMA DelegatedFrame ==
  [HostNext]_hostVars => DelegatedNext \/ StartDelegated \/ UNCHANGED delegatedVars
<1> SUFFICES ASSUME [HostNext]_hostVars
             PROVE  DelegatedNext \/ StartDelegated \/ UNCHANGED delegatedVars
  OBVIOUS
<1>1. CASE BeginDelegated
  BY <1>1 DEF BeginDelegated
<1>2. CASE DelegatedNext /\ OnlyDelegated
  BY <1>2
<1>3. CASE \/ LaunchStep /\ OnlyLaunch
           \/ BeginWindow \/ BeginPump \/ BeginServing
           \/ WinNext /\ OnlyWindow
           \/ PumpNext /\ OnlyPump
           \/ HeadlessNext /\ OnlyHeadless
           \/ Finished
           \/ UNCHANGED hostVars
  BY <1>3 DEF OnlyLaunch, OnlyWindow, OnlyPump, OnlyHeadless, BeginWindow, BeginPump,
              BeginServing, Finished, hostVars
<1> QED
  BY <1>1, <1>2, <1>3 DEF HostNext

-----------------------------------------------------------------------------
(* Headless serving *)

\* The stop event means that the pipe is closed, and only a pipe has a monitor.
HeadlessInv ==
  /\ stopEvent => ~sigOpen
  /\ monitor # "none" => signalKind = "pipe"
  /\ signalKind \in {"none", "event", "pipe"}
  /\ host = "none" => monitor = "none" /\ ~stopEvent /\ served = "no"
  /\ TrafficDoesNotStop

\* A step of the server, its monitor or its terminal keeps HeadlessInv.
LEMMA HeadlessStep == HeadlessInv /\ HeadlessNext => HeadlessInv'
<1> SUFFICES ASSUME HeadlessInv, HeadlessNext
             PROVE  HeadlessInv'
  OBVIOUS
<1> USE DEF HeadlessInv, TrafficDoesNotStop, Terminal
<1>1. CASE StartMonitor
  BY <1>1 DEF StartMonitor
<1>2. CASE HeadlessHandshake
  BY <1>2 DEF HeadlessHandshake, LeaveServing
<1>3. CASE ServerStops
  BY <1>3 DEF ServerStops, LeaveServing, StopSignalled
<1>4. CASE CancelRead
  BY <1>4 DEF CancelRead
<1>5. CASE JoinMonitor
  BY <1>5 DEF JoinMonitor
<1>6. CASE ServerEnds
  BY <1>6 DEF ServerEnds, LeaveServing
<1>7. CASE MonitorThread
  BY <1>7 DEF MonitorThread, MonitorReads, MonitorDrains, MonitorBreaks
<1>8. CASE HeadlessRuns /\ (TerminalWrites \/ TerminalCloses \/ EventIsSet)
  BY <1>8 DEF HeadlessRuns, TerminalWrites, TerminalCloses, EventIsSet
<1> QED
  BY <1>1, <1>2, <1>3, <1>4, <1>5, <1>6, <1>7, <1>8 DEF HeadlessNext, HeadlessMain

\* For any traffic on the signal pipe and any interleaving of server, monitor and
\* terminal, a headless server behind a terminal is stopped only after the terminal has
\* closed the pipe or set the event (SignalPipeMonitor).
THEOREM TrafficIsHarmless == HostSpec => []TrafficDoesNotStop
<1>1. HostInit => HeadlessInv
  BY DEF HostInit, HeadlessInit, HeadlessInv, TrafficDoesNotStop
<1>2. HeadlessInv /\ [HostNext]_hostVars => HeadlessInv'
  <2> SUFFICES ASSUME HeadlessInv, [HostNext]_hostVars
               PROVE  HeadlessInv'
    OBVIOUS
  <2>1. CASE HeadlessNext
    BY <2>1, HeadlessStep
  <2>2. CASE \E a \in BOOLEAN, k \in {"none", "event", "pipe"} : StartServing(a, k)
    BY <2>2 DEF StartServing, HeadlessInv, TrafficDoesNotStop, Terminal
  <2>3. CASE UNCHANGED headlessVars
    BY <2>3 DEF headlessVars, HeadlessInv, TrafficDoesNotStop
  <2> QED
    BY <2>1, <2>2, <2>3, HeadlessFrame
<1>3. HeadlessInv => TrafficDoesNotStop
  BY DEF HeadlessInv
<1> QED
  BY <1>1, <1>2, <1>3, PTL DEF HostSpec

-----------------------------------------------------------------------------
(* The inbox host of a delegated session *)

\* The signal thread has asked for the close at most once, and only at its end.
DelegatedInv ==
  /\ closings \in Nat
  /\ inbox \in {"none", "start"} => reader = "none"
  /\ GuardOutlivesDelegate
  /\ ClosedOnceOnDisconnect

\* A step of the main thread keeps DelegatedInv.
LEMMA InboxKeeps == DelegatedInv /\ (InboxThread \/ WaitFails) => DelegatedInv'
<1> SUFFICES ASSUME DelegatedInv, InboxThread \/ WaitFails
             PROVE  DelegatedInv'
  OBVIOUS
<1> USE DEF DelegatedInv, GuardOutlivesDelegate, ClosedOnceOnDisconnect, HaveGuard, HasReader,
            ReaderState, Leave
<1>1. CASE StartReader
  BY <1>1 DEF StartReader
<1>2. CASE OpenReference
  BY <1>2 DEF OpenReference
<1>3. CASE DelegatedExited
  BY <1>3 DEF DelegatedExited
<1>4. CASE GuardSignalled
  BY <1>4 DEF GuardSignalled, Host
<1>5. CASE StopReader
  BY <1>5 DEF StopReader
<1>6. CASE JoinReader
  BY <1>6 DEF JoinReader
<1>7. CASE WaitFails
  BY <1>7 DEF WaitFails
<1> QED
  BY <1>1, <1>2, <1>3, <1>4, <1>5, <1>6, <1>7 DEF InboxThread

\* A step of the signal thread or of the delegated host keeps DelegatedInv.
LEMMA SignalKeeps == DelegatedInv /\ (SignalThread \/ DelegatedHost) => DelegatedInv'
<1> SUFFICES ASSUME DelegatedInv, SignalThread \/ DelegatedHost
             PROVE  DelegatedInv'
  OBVIOUS
<1> USE DEF DelegatedInv, GuardOutlivesDelegate, ClosedOnceOnDisconnect, HaveGuard, HasReader,
            ReaderRest, Reading, Host, Disconnected, InboxRest
<1>1. CASE ReaderStops
  BY <1>1 DEF ReaderStops
<1>2. CASE ReaderBreaks
  BY <1>2 DEF ReaderBreaks
<1>3. CASE ReadCode
  <2> PICK packet : IF packet = "unknown" THEN Disconnected ELSE reader' = "payload" /\ UNCHANGED closings
    BY <1>3 DEF ReadCode
  <2> QED
    BY <1>3, SMTT(30) DEF ReadCode
<1>4. CASE ReadPayload
  BY <1>4, SMTT(30) DEF ReadPayload, Perform
<1>5. CASE DiscardExtra
  BY <1>5 DEF DiscardExtra, Perform
<1>6. CASE \E s \in Signals : HostBegins(s)
  BY <1>6, SMTT(30) DEF HostBegins
<1>7. CASE HostContinues
  BY <1>7 DEF HostContinues
<1>8. CASE HostCloses
  BY <1>8 DEF HostCloses
<1>9. CASE HostExits
  BY <1>9 DEF HostExits
<1>10. CASE LastClientLeaves
  BY <1>10 DEF LastClientLeaves
<1> QED
  BY <1>1, <1>2, <1>3, <1>4, <1>5, <1>6, <1>7, <1>8, <1>9, <1>10 DEF SignalThread, DelegatedHost

\* DelegatedInv is an invariant of every run of the program.
LEMMA DelegatedInvariant == HostSpec => []DelegatedInv
<1>1. HostInit => DelegatedInv
  BY DEF HostInit, DelegatedInit, DelegatedInv, GuardOutlivesDelegate, ClosedOnceOnDisconnect
<1>2. DelegatedInv /\ [HostNext]_hostVars => DelegatedInv'
  <2> SUFFICES ASSUME DelegatedInv, [HostNext]_hostVars
               PROVE  DelegatedInv'
    OBVIOUS
  <2>1. CASE DelegatedNext
    BY <2>1, InboxKeeps, SignalKeeps DEF DelegatedNext
  <2>2. CASE StartDelegated
    BY <2>2 DEF StartDelegated, DelegatedInv, GuardOutlivesDelegate, ClosedOnceOnDisconnect,
                HaveGuard, HasReader, ReaderState
  <2>3. CASE UNCHANGED delegatedVars
    BY <2>3 DEF delegatedVars, DelegatedInv, GuardOutlivesDelegate, ClosedOnceOnDisconnect,
                HaveGuard, HasReader
  <2> QED
    BY <2>1, <2>2, <2>3, DelegatedFrame
<1> QED
  BY <1>1, <1>2, PTL DEF HostSpec

\* The inbox host does not return with the delegated host's process while a guard says the
\* console is in use (Session::run), and whatever the delegated host writes before it
\* vanishes, the signal thread asks the client to close exactly once
\* (HostSignalInputThread::thread_proc).
THEOREM DelegatedKept == HostSpec => []DelegatedClientKept
<1>1. DelegatedInv => DelegatedClientKept
  BY DEF DelegatedInv, DelegatedClientKept
<1> QED
  BY <1>1, DelegatedInvariant, PTL

-----------------------------------------------------------------------------
(* The sessions with a client: the windows and the pump *)

\* One of them runs, and only once the launch is over; the worker exists only between the
\* start of the host and its join.
Exclusive ==
  /\ client \in Clients
  /\ kind # "none" => pump = "none"
  /\ at # "hosted" => kind = "none" /\ pump = "none"

WorkerInv ==
  /\ kind = "none" => ui = "none"
  /\ ui \in {"none", "spawn", "window", "bridge", "worker"} => worker = "none"
  /\ ui = "join" => worker = "exited"

ClientInv == /\ Exclusive /\ WorkerInv
             /\ ThreadsJoinedBeforeReturn /\ ClientNotLeftRunning /\ ReturnsClean

\* The launch is not over while it takes steps.
LEMMA LaunchNotOver == LaunchStep => at # "hosted"
BY DEF LaunchStep, LoadConfig, TakeFlag, TakeValue, TakeClient, EndOfTokens, RunComServer,
       Dispatch, Validate, Route, ReadInitialPacket, ResolveTarget, InvokeHandoff

\* ClientInv is about these variables, and the launch only by being over.
LEMMA ClientInvFrame ==
  ASSUME ClientInv, UNCHANGED <<ptyVars, winVars, pumpVars>>, at' = "hosted" \/ at # "hosted"
  PROVE  ClientInv'
BY DEF ClientInv, Exclusive, WorkerInv, ThreadsJoinedBeforeReturn, ClientNotLeftRunning,
       ReturnsClean, ClientGone, ptyVars, winVars, pumpVars

\* Starting a session keeps ClientInv.
LEMMA BeginKeeps ==
  ASSUME ClientInv, BeginWindow \/ BeginPump \/ BeginDelegated \/ BeginServing
  PROVE  ClientInv'
<1>1. at # "hosted" /\ at' = "hosted"
  BY DEF BeginWindow, BeginPump, BeginDelegated, BeginServing, HostWithPacket, HostPlain, GoTo,
         Routes
<1>2. kind = "none" /\ pump = "none" /\ ui = "none" /\ worker = "none"
  BY <1>1 DEF ClientInv, Exclusive, WorkerInv
<1>3. CASE BeginWindow
  <2>1. PICK k \in {"server", "delegated", "terminal", "pty"}, a, b, c \in BOOLEAN \cup {opts["signal"]} :
          StartHost(k, a, b, c)
    BY <1>3 DEF BeginWindow
  <2>2. UNCHANGED pumpVars
    BY <1>3 DEF BeginWindow
  <2> QED
    BY <1>1, <1>2, <2>1, <2>2
       DEF StartHost, SpawnClient, ptyVars, pumpVars, ClientInv, Exclusive, WorkerInv,
           ThreadsJoinedBeforeReturn, ClientNotLeftRunning, ReturnsClean, Clients
<1>4. CASE BeginPump
  BY <1>1, <1>2, <1>4
     DEF BeginPump, StartPump, winVars, ptyVars, ClientInv, Exclusive, WorkerInv,
         ThreadsJoinedBeforeReturn, ClientNotLeftRunning, ReturnsClean
<1>5. CASE BeginDelegated \/ BeginServing
  <2>1. UNCHANGED <<ptyVars, winVars, pumpVars>>
    BY <1>5 DEF BeginDelegated, BeginServing
  <2> QED
    BY <1>1, <2>1, ClientInvFrame
<1> QED
  BY <1>3, <1>4, <1>5
\* What a window host keeps by itself.
WinInv == /\ kind # "none" /\ client \in Clients
          /\ WorkerInv /\ ThreadsJoinedBeforeReturn /\ ClientNotLeftRunning

\* A step of the UI thread keeps WinInv: an early return has no worker yet, a late one has
\* joined it, and the client is ended before the first wait.
LEMMA UiKeeps == ASSUME WinInv, WinRuns, UiThread PROVE WinInv' /\ kind' = kind
<1> USE DEF WinInv, WorkerInv, ThreadsJoinedBeforeReturn, ClientNotLeftRunning, Clients,
            ConfigVars, ptyVars
<1>1. CASE SpawnPty
  BY <1>1 DEF SpawnPty, SpawnClient, Unwind, ClosePseudoConsole
<1>2. CASE CreateWindow
  BY <1>2 DEF CreateWindow, Unwind, ClosePseudoConsole
<1>3. CASE StartBridge
  BY <1>3 DEF StartBridge, Unwind, ClosePseudoConsole
<1>4. CASE StartWorker
  BY <1>4 DEF StartWorker, Unwind, ClosePseudoConsole
<1>5. CASE DispatchMessage
  BY <1>5 DEF DispatchMessage, DestroyWindow
<1>6. CASE HandlePaint
  BY <1>6 DEF HandlePaint
<1>7. CASE WriteResumes
  BY <1>7 DEF WriteResumes, WriteKey
<1>8. CASE StopWork
  BY <1>8 DEF StopWork, Terminate
<1>9. CASE CancelWorker
  BY <1>9 DEF CancelWorker
<1>10. CASE JoinWorker
  BY <1>10 DEF JoinWorker, Return, ClosePseudoConsole
<1>11. CASE JoinTimesOut
  BY <1>11 DEF JoinTimesOut
<1>12. CASE JoinBridge
  BY <1>12 DEF JoinBridge, Return, ClosePseudoConsole
<1> QED
  BY <1>1, <1>2, <1>3, <1>4, <1>5, <1>6, <1>7, <1>8, <1>9, <1>10, <1>11, <1>12 DEF UiThread

\* A step of the worker keeps WinInv: one that has exited, or does not exist, takes none.
LEMMA WorkerKeeps ==
  ASSUME WinInv, WinRuns, ServerThread \/ OutputThread \/ PostClose
  PROVE  WinInv' /\ kind' = kind
<1> USE DEF WinInv, WorkerInv, ThreadsJoinedBeforeReturn, ClientNotLeftRunning, ConfigVars,
            ptyVars, WinRuns, Ended
<1>1. CASE ServerThread
  BY <1>1 DEF ServerThread, ServePublishes, ServePosts, ServeReturns
<1>2. CASE PostClose
  BY <1>2 DEF PostClose
<1>3. CASE CheckStop \/ CheckProcess
  BY <1>3 DEF CheckStop, CheckProcess, OutputKeeps
<1>4. CASE ReadOutput
  BY <1>4 DEF ReadOutput, OutputKeeps
<1>5. CASE PublishNotice \/ PostInvalidate
  BY <1>5 DEF PublishNotice, PostInvalidate, OutputKeeps
<1>6. CASE Drain \/ DrainElapses
  BY <1>6 DEF Drain, DrainElapses, OutputKeeps
<1>7. CASE FinishOutput \/ OutputFails
  BY <1>7 DEF FinishOutput, OutputFails, OutputKeeps
<1> QED
  BY <1>1, <1>2, <1>3, <1>4, <1>5, <1>6, <1>7 DEF OutputThread

\* The bridge thread, the user, the client and the pseudo console host keep WinInv.
LEMMA OutsideKeeps ==
  ASSUME WinInv, WinRuns, BridgeWakes \/ Outside
  PROVE  WinInv' /\ kind' = kind
<1> USE DEF WinInv, WorkerInv, ThreadsJoinedBeforeReturn, ClientNotLeftRunning, ConfigVars,
            ptyVars, WinRuns, Ended
<1>1. CASE BridgeWakes
  BY <1>1 DEF BridgeWakes
<1>2. CASE UserCloses
  BY <1>2 DEF UserCloses, DestroyWindow
<1>3. CASE SubmitKey
  BY <1>3 DEF SubmitKey, WriteKey
<1>4. CASE SignalRaised \/ ReadInput
  BY <1>4 DEF SignalRaised, ReadInput
<1>5. CASE PtyHostSteps
  BY <1>5 DEF PtyHostSteps, PtyStep, ClientWrites, ClientExits, HostFlushes, HostEnds, winVars,
              Clients
<1> QED
  BY <1>1, <1>2, <1>3, <1>4, <1>5 DEF Outside
\* A step of the pump keeps its client typed and does not restart it; the step that leaves
\* has put the modes back and closed the pseudo console.
LEMMA PumpKeeps ==
  ASSUME client \in Clients, PumpNext
  PROVE  client' \in Clients /\ pump' # "none" /\ ReturnsClean'
<1> USE DEF PumpRuns, ReturnsClean, ClientGone, Clients, ptyVars, ClosePseudoConsole, LeaveWith
<1>0. PumpRuns
  BY DEF PumpNext
<1>1. CASE SpawnClientOfPump
  BY <1>1 DEF SpawnClientOfPump, SpawnClient
<1>2. CASE Handshake
  BY <1>2 DEF Handshake
<1>3. CASE PollSignal
  BY <1>3 DEF PollSignal, Terminate
<1>4. CASE PumpOutput \/ WriteOutput
  BY <1>4 DEF PumpOutput, WriteOutput
<1>5. CASE PumpInput \/ PollProcess
  BY <1>5 DEF PumpInput, PollProcess
<1>6. CASE DrainPump \/ DrainPumpElapses
  BY <1>6 DEF DrainPump, DrainPumpElapses
<1>7. CASE ReturnCode \/ PumpFails
  BY <1>7 DEF ReturnCode, PumpFails
<1>8. CASE TerminalSends \/ SignalAsks
  BY <1>0, <1>8 DEF TerminalSends, SignalAsks
<1>9. CASE PtyStep /\ UNCHANGED pumpVars
  BY <1>0, <1>9 DEF PtyStep, ClientWrites, ClientExits, HostFlushes, HostEnds, pumpVars
<1> QED
  BY <1>1, <1>2, <1>3, <1>4, <1>5, <1>6, <1>7, <1>8, <1>9 DEF PumpNext, PumpThread

\* ClientInv is an invariant of every run of the program.
LEMMA ClientInvariant == HostSpec => []ClientInv
<1>1. HostInit => ClientInv
  BY DEF HostInit, LaunchInit, PtyInit, WinInit, PumpInit, ClientInv, Exclusive, WorkerInv,
         ThreadsJoinedBeforeReturn, ClientNotLeftRunning, ReturnsClean, Clients
<1>2. ClientInv /\ [HostNext]_hostVars => ClientInv'
  <2> SUFFICES ASSUME ClientInv, [HostNext]_hostVars
               PROVE  ClientInv'
    OBVIOUS
  <2>1. CASE LaunchStep /\ OnlyLaunch
    BY <2>1, LaunchNotOver, ClientInvFrame DEF OnlyLaunch
  <2>2. CASE BeginWindow \/ BeginPump \/ BeginDelegated \/ BeginServing
    BY <2>2, BeginKeeps
  <2>3. CASE WinNext /\ OnlyWindow
    <3>1. WinInv /\ pump = "none" /\ at = "hosted" /\ WinRuns
      BY <2>3 DEF ClientInv, Exclusive, WinInv, WinNext, WinRuns
    <3>2. WinInv' /\ kind' = kind
      BY <2>3, <3>1, UiKeeps, WorkerKeeps, OutsideKeeps DEF WinNext
    <3>3. pump' = pump /\ at' = at
      BY <2>3 DEF OnlyWindow, pumpVars, launchVars
    <3> QED
      BY <3>1, <3>2, <3>3 DEF ClientInv, Exclusive, WinInv, ReturnsClean
  <2>4. CASE PumpNext /\ OnlyPump
    <3>1. kind = "none" /\ at = "hosted" /\ client \in Clients
      BY <2>4 DEF ClientInv, Exclusive, PumpNext, PumpRuns
    <3>2. client' \in Clients /\ pump' # "none" /\ ReturnsClean'
      BY <2>4, <3>1, PumpKeeps
    <3>3. UNCHANGED winVars /\ at' = at
      BY <2>4 DEF OnlyPump, launchVars
    <3> QED
      BY <3>1, <3>2, <3>3 DEF ClientInv, Exclusive, WorkerInv, ThreadsJoinedBeforeReturn,
                              ClientNotLeftRunning, winVars
  <2>5. CASE \/ DelegatedNext /\ OnlyDelegated
             \/ HeadlessNext /\ OnlyHeadless
             \/ Finished
             \/ UNCHANGED hostVars
    <3>1. UNCHANGED <<ptyVars, winVars, pumpVars>> /\ at' = at
      BY <2>5 DEF OnlyDelegated, OnlyHeadless, Finished, hostVars, launchVars
    <3> QED
      BY <3>1, ClientInvFrame
  <2> QED
    BY <2>1, <2>2, <2>3, <2>4, <2>5 DEF HostNext
<1> QED
  BY <1>1, <1>2, PTL DEF HostSpec

\* No window host returns a result while its worker or its bridge thread still runs; once
\* its window is closed a windowed pseudo console has ended its client, on every way out,
\* the forced exit included; and however a session without a window ends, the terminal has
\* its modes back and no client is left (the destructors of run_with_pseudoconsole).  All
\* of it for any output, keys and order of failures.
THEOREM NothingLeftBehind == HostSpec => []ReturnsLeaveNothing
<1>1. ClientInv => ReturnsLeaveNothing
  BY DEF ClientInv, ReturnsLeaveNothing
<1> QED
  BY <1>1, ClientInvariant, PTL

-----------------------------------------------------------------------------
(* The first packet *)

\* A packet read ahead is only held where it is still to be hosted or offered.
PacketInv ==
  /\ at \in {"config", "parse", "parsed", "session", "valid", "probe"} => first = "unread"
  /\ first \in {"held", "offered"} => at \in {"handoff", "offer", "window", "windowless"}

\* A CONNECT packet read before routing is answered by the session that is hosted, or by
\* the delegated host, on every route and fallback (Session::run).
THEOREM PacketAnswered == HostSpec => []InitialPacketServed
<1>1. HostInit => PacketInv
  BY DEF HostInit, LaunchInit, PacketInv
<1>2. PacketInv /\ [HostNext]_hostVars => PacketInv'
  <2> SUFFICES ASSUME PacketInv, [HostNext]_hostVars
               PROVE  PacketInv'
    OBVIOUS
  <2> USE DEF PacketInv, GoTo
  <2>1. CASE LoadConfig \/ TakeFlag \/ TakeValue \/ TakeClient \/ EndOfTokens
    BY <2>1 DEF LoadConfig, TakeFlag, TakeValue, TakeClient, EndOfTokens
  <2>2. CASE RunComServer \/ Dispatch \/ Validate
    BY <2>2 DEF RunComServer, Dispatch, Validate
  <2>3. CASE Route
    BY <2>3 DEF Route
  <2>4. CASE ReadInitialPacket
    <3>1. /\ at = "probe"
          /\ first' \in {first, "held"}
          /\ at' \in {"handoff", "window", "windowless"}
      BY <2>4 DEF ReadInitialPacket
    <3> QED
      BY <3>1
  <2>5. CASE ResolveTarget \/ InvokeHandoff
    BY <2>5 DEF ResolveTarget, InvokeHandoff
  <2>6. CASE BeginWindow \/ BeginPump \/ BeginDelegated \/ BeginServing
    <3>1. HostWithPacket \/ HostPlain
      BY <2>6 DEF BeginWindow, BeginPump, BeginDelegated, BeginServing
    <3> QED
      BY <3>1 DEF HostWithPacket, HostPlain, Routes
  <2>7. CASE UNCHANGED launchVars
    BY <2>7 DEF launchVars
  <2> QED
    BY <2>1, <2>2, <2>3, <2>4, <2>5, <2>6, <2>7
       DEF HostNext, LaunchStep, OnlyWindow, OnlyPump, OnlyDelegated, OnlyHeadless, Finished,
           hostVars
<1>3. PacketInv => InitialPacketServed
  BY DEF PacketInv, InitialPacketServed
<1> QED
  BY <1>1, <1>2, <1>3, PTL DEF HostSpec
=============================================================================
