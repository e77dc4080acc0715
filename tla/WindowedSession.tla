--------------------------- MODULE WindowedSession ---------------------------
(***************************************************************************)
(* The four hosts that own a window.  They share one shape: a UI thread    *)
(* runs the message loop of a WindowHost, one worker thread does the work, *)
(* and sometimes a bridge thread turns an outside handle into the stop     *)
(* event.                                                                  *)
(*   "server"    run_windowed_server                  (session.cpp)        *)
(*   "delegated" run_windowed_default_terminal_host                        *)
(*   "pty"       run_windowed_pseudoconsole_terminal  (session.cpp)        *)
(*   "terminal"  run_windowed_terminal_handoff_host                        *)
(* In the first two the worker is the ConDrv server (modules ServerLoop,   *)
(* ConsoleState, InputReads); here it only publishes snapshots, reads the  *)
(* window's input pipe and returns.  In the other two the worker copies a  *)
(* pseudo console's output to a screen buffer.                             *)
(***************************************************************************)
EXTENDS PtyClient

CONSTANTS
  MaxKeys,   \* how many keys the user presses, for each kind of host
  MaxShown,  \* how many pieces of output there are, for each kind of host
  PipeRoom   \* how many of them the input pipe holds

VARIABLES
  kind,      \* which host this is
  hold,      \* hold_window_on_exit
  hasClient, \* the host has a handle to the client process
  hasSignal, \* there is a handle for the bridge thread to watch
  signal,    \* that handle is signalled
  ui,        \* where the UI thread is
  window,    \* "none", "open" or "gone"
  posted,    \* messages the worker has posted to the window
  dirty,     \* the window has an invalid region
  latest,    \* the published snapshot, as the amount of output it shows
  shown,     \* what is on the screen; Lost after a paint whose Direct2D target was lost
  typed,     \* keys pressed
  inPipe,    \* keys in the input pipe
  sinkOpen,  \* the sink's pipe handle is valid
  stop,      \* the stop event
  worker,    \* where the worker thread is
  outcome,   \* what the worker left in its context: "none", "ok" or "error"
  code,      \* the exit code it left there, as the client state it was read from
  canceled, exitSeen, draining,  \* locals of the output worker
  applied,   \* pieces of output applied to the screen buffer
  bridge,    \* where the bridge thread is
  signalPipe,\* "terminal": the host signal pipe of the handoff is open
  result     \* what the host returned

winVars == <<kind, hold, hasClient, hasSignal, signal, ui, window, posted, dirty, latest,
             shown, typed, inPipe, sinkOpen, stop, worker, outcome, code,
             canceled, exitSeen, draining, applied, bridge, signalPipe, result>>

ConfigVars == <<kind, hold, hasClient, hasSignal>>
ViewVars == <<dirty, shown>>
KeyVars == <<typed, inPipe, sinkOpen>>
LoopVars == <<canceled, exitSeen, draining, applied>>
ContextVars == <<outcome, code>>

Lost == MaxOutput + 2

Kinds == {"none", "server", "delegated", "pty", "terminal"}
Serving == kind \in {"server", "delegated"}

WinTypeOK ==
  /\ kind \in Kinds
  /\ {hold, hasClient, hasSignal, signal, dirty, sinkOpen, stop, canceled,
      exitSeen, draining, signalPipe} \subseteq BOOLEAN
  /\ ui \in {"none", "spawn", "window", "bridge", "worker", "loop", "write", "closed",
             "cancel", "wait", "join", "done", "killed"}
  /\ window \in {"none", "open", "gone"}
  /\ posted \in Seq({"invalidate", "close"})
  /\ latest \in 0 .. MaxOutput + 1 /\ shown \in 0 .. Lost
  /\ typed \in Nat /\ inPipe \in 0 .. PipeRoom
  /\ worker \in {"none", "serve", "servePost", "stop", "process", "read", "post",
                 "drain", "finish", "notice", "noticePost", "close", "exited"}
  /\ outcome \in {"none", "ok", "error"}
  /\ code \in Clients /\ result \in Clients \cup {"error"}
  /\ applied \in Seq(1 .. MaxOutput)
  /\ bridge \in {"none", "wait", "exited"}

\* The state of a host that has not been started.
WinInit ==
  /\ kind = "none" /\ ui = "none" /\ window = "none" /\ worker = "none" /\ bridge = "none"
  /\ hold = FALSE /\ hasClient = FALSE /\ hasSignal = FALSE /\ signal = FALSE
  /\ posted = <<>> /\ dirty = FALSE /\ latest = 0 /\ shown = 0
  /\ typed = 0 /\ inPipe = 0 /\ sinkOpen = FALSE /\ stop = FALSE
  /\ outcome = "none" /\ code = "none" /\ result = "none"
  /\ canceled = FALSE /\ exitSeen = FALSE /\ draining = FALSE /\ applied = <<>>
  /\ signalPipe = FALSE

-----------------------------------------------------------------------------
\* Starting.  The payload of a terminal handoff comes with a client, its output
\* pipe and a host signal pipe; the client's process handle may be missing.

StartHost(k, keep, known, watched) ==
  /\ kind = "none"
  /\ kind' = k
  /\ hold' = keep /\ hasClient' = known /\ hasSignal' = watched
  /\ ui' = IF k = "pty" THEN "spawn" ELSE "window"
  /\ signalPipe' = (k = "terminal")
  /\ IF k = "terminal" THEN SpawnClient ELSE UNCHANGED ptyVars
  /\ UNCHANGED <<signal, window, posted, ViewVars, latest, KeyVars, stop, worker, ContextVars,
                 LoopVars, bridge, result>>

\* What is destroyed on an early return: the window, whose WM_DESTROY sets the stop
\* event, the pseudo console, and the handles of a handoff.
Unwind ==
  /\ ui' = "done" /\ result' = "error"
  /\ window' = IF window = "open" THEN "gone" ELSE window
  /\ stop' = (stop \/ window = "open")
  /\ signalPipe' = FALSE
  /\ IF kind = "pty" THEN ClosePseudoConsole ELSE UNCHANGED ptyVars

SpawnPty ==
  /\ ui = "spawn"
  /\ \/ ui' = "window" /\ SpawnClient /\ UNCHANGED <<result, window, stop, signalPipe>>
     \/ Unwind
  /\ UNCHANGED <<ConfigVars, signal, posted, ViewVars, latest, KeyVars, worker, ContextVars,
                 LoopVars, bridge>>

\* WindowHost::create shows the window and UpdateWindow paints it; a terminal handoff
\* then publishes an empty snapshot and posts an invalidation.
CreateWindow ==
  /\ ui = "window"
  /\ \/ /\ ui' = IF Serving THEN "bridge" ELSE "worker"
        /\ window' = "open" /\ sinkOpen' = TRUE
        /\ shown' \in {latest, Lost}
        /\ posted' = IF kind = "terminal" THEN <<"invalidate">> ELSE posted
        /\ UNCHANGED <<result, stop, signalPipe, ptyVars>>
     \/ Unwind /\ UNCHANGED <<sinkOpen, shown, posted>>
  /\ UNCHANGED <<ConfigVars, signal, latest, dirty, typed, inPipe, worker,
                 ContextVars, LoopVars, bridge>>

StartBridge ==
  /\ ui = "bridge"
  /\ \/ /\ ui' = "worker"
        /\ bridge' = IF hasSignal THEN "wait" ELSE "none"
        /\ UNCHANGED <<result, window, stop, signalPipe, ptyVars>>
     \/ hasSignal /\ Unwind /\ UNCHANGED bridge
  /\ UNCHANGED <<ConfigVars, signal, posted, ViewVars, latest, KeyVars, worker, ContextVars,
                 LoopVars>>

\* A failure here returns with the bridge thread running: nothing stops or joins it.
StartWorker ==
  /\ ui = "worker"
  /\ \/ /\ ui' = "loop"
        /\ worker' = IF Serving THEN "serve" ELSE "stop"
        /\ UNCHANGED <<result, window, stop, signalPipe, ptyVars>>
     \/ Unwind /\ UNCHANGED worker
  /\ UNCHANGED <<ConfigVars, signal, posted, ViewVars, latest, KeyVars, ContextVars, LoopVars,
                 bridge>>

-----------------------------------------------------------------------------
\* The window.  Posting to a window that is gone fails, and no caller looks at that.

Post(message) == posted' = IF window = "open" THEN Append(posted, message) ELSE posted

\* WM_CLOSE destroys the window; WM_DESTROY sets the stop event and ends the loop.
\* Messages still queued for the window and its invalid region are discarded with it.
DestroyWindow ==
  /\ window' = "gone" /\ posted' = <<>> /\ stop' = TRUE /\ ui' = "closed"
  /\ dirty' = FALSE /\ shown' = 0
  /\ UNCHANGED <<ConfigVars, signal, latest, KeyVars, worker, ContextVars, LoopVars,
                 bridge, signalPipe, result, ptyVars>>

UserCloses == ui = "loop" /\ DestroyWindow

DispatchMessage ==
  /\ ui = "loop" /\ posted # <<>>
  /\ \/ Head(posted) = "close" /\ DestroyWindow
     \/ /\ Head(posted) = "invalidate"
        /\ posted' = Tail(posted) /\ dirty' = TRUE
        /\ UNCHANGED <<ConfigVars, signal, ui, window, latest, shown, KeyVars, stop,
                       worker, ContextVars, LoopVars, bridge, signalPipe, result, ptyVars>>

\* WM_PAINT is generated when no posted message is left.  BeginPaint validates the
\* window before the snapshot is loaded.  When EndDraw reports a lost target the
\* resources are dropped and nothing invalidates the window again.
HandlePaint ==
  /\ ui = "loop" /\ posted = <<>> /\ dirty
  /\ dirty' = FALSE
  /\ shown' \in {latest, Lost}
  /\ UNCHANGED <<ConfigVars, signal, ui, window, posted, latest, KeyVars, stop, worker,
                 ContextVars, LoopVars, bridge, signalPipe, result, ptyVars>>

\* Whether something still holds the read end of the input pipe.  The worker's context
\* keeps it until the host returns; a pseudo console host closes it when it ends.
InputReadable == Serving \/ ptyOutOpen

\* Mutant: the write does not wait for room.
WriteKeyNoWait ==
  /\ ui' = "loop"
  /\ sinkOpen' = (sinkOpen /\ InputReadable)
  /\ inPipe' = IF sinkOpen /\ InputReadable THEN inPipe + 1 ELSE inPipe

\* WriteFile on the sink's handle: it waits for room, and a broken pipe closes the sink.
WriteKey ==
  /\ ui' = IF sinkOpen /\ InputReadable /\ inPipe = PipeRoom THEN "write" ELSE "loop"
  /\ sinkOpen' = (sinkOpen /\ InputReadable)
  /\ inPipe' = IF sinkOpen /\ InputReadable /\ inPipe < PipeRoom THEN inPipe + 1 ELSE inPipe

\* WindowInputPipeSink::submit_key_event, on the UI thread.
SubmitKey ==
  /\ ui = "loop" /\ typed < MaxKeys[kind]
  /\ typed' = typed + 1
  /\ WriteKey
  /\ UNCHANGED <<ConfigVars, signal, window, posted, ViewVars, latest, stop, worker,
                 ContextVars, LoopVars, bridge, signalPipe, result, ptyVars>>

WriteResumes ==
  /\ ui = "write" /\ (inPipe < PipeRoom \/ ~InputReadable)
  /\ WriteKey
  /\ UNCHANGED typed
  /\ UNCHANGED <<ConfigVars, signal, window, posted, ViewVars, latest, stop, worker,
                 ContextVars, LoopVars, bridge, signalPipe, result, ptyVars>>

\* The other end of the pipe: the ConDrv server's input monitor while the server
\* runs, or the pseudo console host.  Nothing is left to follow once the window is gone.
ReadInput ==
  /\ inPipe > 0 /\ window = "open"
  /\ IF Serving THEN worker \in {"serve", "servePost"} ELSE ptyOutOpen
  /\ inPipe' = inPipe - 1
  /\ UNCHANGED <<ConfigVars, signal, ui, window, posted, ViewVars, latest, typed, sinkOpen,
                 stop, worker, ContextVars, LoopVars, bridge, signalPipe, result, ptyVars>>

-----------------------------------------------------------------------------
\* The ConDrv server as the worker of a window.

ServePublishes ==
  /\ worker = "serve" /\ latest < MaxShown[kind]
  /\ latest' = latest + 1 /\ worker' = "servePost"
  /\ UNCHANGED <<ConfigVars, signal, ui, window, posted, ViewVars, KeyVars, stop, ContextVars,
                 LoopVars, bridge, signalPipe, result, ptyVars>>

ServePosts ==
  /\ worker = "servePost"
  /\ Post("invalidate") /\ worker' = "serve"
  /\ UNCHANGED <<ConfigVars, signal, ui, window, ViewVars, latest, KeyVars, stop, ContextVars,
                 LoopVars, bridge, signalPipe, result, ptyVars>>

\* ConDrvServer::run returns: the last client left, the driver failed or stop is set.
ServeReturns ==
  /\ worker = "serve"
  /\ outcome' \in {"ok", "error"} /\ worker' = "close"
  /\ code' = "exited"
  /\ UNCHANGED <<ConfigVars, signal, ui, window, posted, ViewVars, latest, KeyVars, stop,
                 LoopVars, bridge, signalPipe, result, ptyVars>>

PostClose ==
  /\ worker = "close"
  /\ Post("close") /\ worker' = "exited"
  /\ UNCHANGED <<ConfigVars, signal, ui, window, ViewVars, latest, KeyVars, stop, ContextVars,
                 LoopVars, bridge, signalPipe, result, ptyVars>>

-----------------------------------------------------------------------------
\* The output worker of "pty" and "terminal": windowed_pty_output_thread_proc and
\* terminal_output_thread_proc.

OutputKeeps == UNCHANGED <<ConfigVars, signal, ui, window, ViewVars, KeyVars, stop, bridge,
                           signalPipe, result>>

CheckStop ==
  /\ worker = "stop"
  /\ canceled' = stop
  /\ worker' = IF stop THEN "finish" ELSE "process"
  /\ OutputKeeps /\ UNCHANGED <<posted, latest, ContextVars, exitSeen, draining, applied, ptyVars>>

CheckProcess ==
  /\ worker = "process"
  /\ exitSeen' = (exitSeen \/ (hasClient /\ ClientGone))
  /\ worker' = "read"
  /\ OutputKeeps /\ UNCHANGED <<posted, latest, ContextVars, canceled, draining, applied, ptyVars>>

\* PeekNamedPipe and ReadFile: a broken pipe ends the loop; a chunk is what is there,
\* or as much of it as the buffer holds.  The chunk is applied to the worker's own
\* screen buffer and a snapshot of that is published.
ReadOutput ==
  /\ worker = "read"
  /\ \/ /\ ptyOut = <<>>
        /\ worker' = IF ptyOutOpen THEN "drain" ELSE "finish"
        /\ UNCHANGED <<applied, draining, ptyOut, latest>>
     \/ \E n \in 1 .. Len(ptyOut) :
          /\ applied' = applied \o SubSeq(ptyOut, 1, n)
          /\ ptyOut' = SubSeq(ptyOut, n + 1, Len(ptyOut))
          /\ draining' = FALSE
          /\ latest' = Len(applied')
          /\ worker' = "post"
  /\ OutputKeeps /\ UNCHANGED <<posted, ContextVars, canceled, exitSeen,
                                client, written, unflushed, ptyOutOpen>>

PublishNotice ==
  /\ worker = "notice"
  /\ latest' = Len(applied) + 1
  /\ worker' = "noticePost"
  /\ OutputKeeps /\ UNCHANGED <<posted, ContextVars, LoopVars, ptyVars>>

\* Mutant: the notice is published without an invalidation.
PostInvalidateNotNotice ==
  /\ worker \in {"post", "noticePost"}
  /\ IF worker = "post" THEN Post("invalidate") ELSE UNCHANGED posted
  /\ worker' = IF worker = "post" THEN "stop" ELSE "exited"
  /\ OutputKeeps /\ UNCHANGED <<latest, ContextVars, LoopVars, ptyVars>>

PostInvalidate ==
  /\ worker \in {"post", "noticePost"}
  /\ Post("invalidate")
  /\ worker' = IF worker = "post" THEN "stop" ELSE "exited"
  /\ OutputKeeps /\ UNCHANGED <<latest, ContextVars, LoopVars, ptyVars>>

\* Mutant: an empty pipe ends the loop as soon as the client is gone.
DrainNoGrace ==
  /\ worker = "drain"
  /\ worker' = (IF exitSeen THEN "finish" ELSE "stop") /\ draining' = exitSeen
  /\ OutputKeeps /\ UNCHANGED <<posted, latest, ContextVars, canceled, exitSeen, applied, ptyVars>>

\* No output this time.  Once the client is known to be gone the pipe has to stay
\* empty for kDrainTimeoutMs; the pseudo console host is assumed to flush within it, early
\* enough for one more look at the pipe.
Drain ==
  /\ worker = "drain"
  /\ worker' = "stop" /\ draining' = exitSeen
  /\ OutputKeeps /\ UNCHANGED <<posted, latest, ContextVars, canceled, exitSeen, applied, ptyVars>>

DrainElapses ==
  /\ worker = "drain" /\ exitSeen /\ draining
  /\ unflushed = <<>> /\ ptyOut = <<>>
  /\ worker' = "finish"
  /\ OutputKeeps /\ UNCHANGED <<posted, latest, ContextVars, LoopVars, ptyVars>>

\* GetExitCodeProcess, then the notice or the close unless the loop was cancelled.
FinishOutput ==
  /\ worker = "finish"
  /\ outcome' = "ok"
  /\ code' = IF hasClient THEN client ELSE "none"
  /\ worker' = IF canceled THEN "exited" ELSE IF hold THEN "notice" ELSE "close"
  /\ OutputKeeps /\ UNCHANGED <<posted, latest, LoopVars, ptyVars>>

\* A failed wait, peek, read or exit code query returns at once; an exception, while
\* decoding or applying text, also posts WM_CLOSE unless cancelled.
OutputFails ==
  /\ \/ worker \in {"stop", "process", "read", "finish"} /\ worker' = "exited"
     \/ worker \in {"read", "notice"} /\ worker' = IF canceled THEN "exited" ELSE "close"
  /\ outcome' = "error"
  /\ OutputKeeps /\ UNCHANGED <<posted, latest, code, LoopVars, ptyVars>>

-----------------------------------------------------------------------------
\* The bridge thread, and the handle it watches (the host that started this one).

SignalRaised ==
  /\ hasSignal /\ ~signal /\ ui \notin {"none", "done", "killed"}
  /\ signal' = TRUE
  /\ UNCHANGED <<ConfigVars, ui, window, posted, ViewVars, latest, KeyVars, stop, worker,
                 ContextVars, LoopVars, bridge, signalPipe, result, ptyVars>>

BridgeWakes ==
  /\ bridge = "wait"
  /\ signal \/ stop
  /\ bridge' = "exited"
  /\ stop' = (stop \/ signal)
  /\ UNCHANGED <<ConfigVars, signal, ui, window, posted, ViewVars, latest, KeyVars, worker,
                 ContextVars, LoopVars, signalPipe, result, ptyVars>>

-----------------------------------------------------------------------------
\* After the message loop.

\* Mutant: the client is not terminated.
StopWorkNoTerminate ==
  /\ ui = "closed"
  /\ ui' = "cancel" /\ stop' = TRUE
  /\ signalPipe' = FALSE
  /\ UNCHANGED <<ConfigVars, signal, window, posted, ViewVars, latest, KeyVars, worker,
                 ContextVars, LoopVars, bridge, result, ptyVars>>

\* The stop event again; "pty" terminates a client that still runs, "terminal" closes
\* the host signal pipe, which asks the server to end its client.
StopWork ==
  /\ ui = "closed"
  /\ ui' = "cancel" /\ stop' = TRUE
  /\ signalPipe' = FALSE
  /\ client' = IF kind = "pty" THEN Terminate ELSE client
  /\ UNCHANGED <<ConfigVars, signal, window, posted, ViewVars, latest, KeyVars, worker,
                 ContextVars, LoopVars, bridge, result, written, unflushed, ptyOut, ptyOutOpen>>

\* CancelSynchronousIo and CancelIoEx: a read of the output worker may be aborted,
\* which ends its loop the way a broken pipe does.
CancelWorker ==
  /\ ui = "cancel"
  /\ ui' = "wait"
  /\ worker' \in {worker} \cup (IF worker = "read" THEN {"finish"} ELSE {})
  /\ UNCHANGED <<ConfigVars, signal, window, posted, ViewVars, latest, KeyVars, stop,
                 ContextVars, LoopVars, bridge, signalPipe, result, ptyVars>>

\* The worker's context, read once it has exited.  "pty" prefers the client's code now.
Result == IF outcome # "ok" THEN "error"
          ELSE IF kind = "pty" /\ ClientGone THEN client ELSE code

Return ==
  /\ ui' = "done" /\ result' = Result
  /\ IF kind = "pty" THEN ClosePseudoConsole ELSE UNCHANGED ptyVars

JoinWorker ==
  /\ ui = "wait" /\ worker = "exited"
  /\ IF bridge = "none" THEN Return ELSE ui' = "join" /\ UNCHANGED <<result, ptyVars>>
  /\ UNCHANGED <<ConfigVars, signal, window, posted, ViewVars, latest, KeyVars, stop, worker,
                 ContextVars, LoopVars, bridge, signalPipe>>

\* Five seconds without the worker exiting, or a failed wait: ExitProcess.
JoinTimesOut ==
  /\ ui = "wait" /\ worker # "exited"
  /\ ui' = "killed"
  /\ UNCHANGED <<ConfigVars, signal, window, posted, ViewVars, latest, KeyVars, stop, worker,
                 ContextVars, LoopVars, bridge, signalPipe, result, ptyVars>>

JoinBridge ==
  /\ ui = "join" /\ bridge = "exited"
  /\ Return
  /\ UNCHANGED <<ConfigVars, signal, window, posted, ViewVars, latest, KeyVars, stop, worker,
                 ContextVars, LoopVars, bridge, signalPipe>>

-----------------------------------------------------------------------------
\* The threads of the process, and what goes on around it.
UiThread == \/ SpawnPty \/ CreateWindow \/ StartBridge \/ StartWorker
            \/ DispatchMessage \/ HandlePaint \/ WriteResumes
            \/ StopWork \/ CancelWorker \/ JoinWorker \/ JoinTimesOut \/ JoinBridge
OutputThread == \/ CheckStop \/ CheckProcess \/ ReadOutput \/ PublishNotice \/ PostInvalidate
                \/ Drain \/ DrainElapses \/ FinishOutput \/ OutputFails
ServerThread == ServePublishes \/ ServePosts \/ ServeReturns
PtyHostSteps == PtyStep /\ written' <= MaxShown[kind] /\ UNCHANGED winVars
Outside == UserCloses \/ SubmitKey \/ SignalRaised \/ ReadInput \/ PtyHostSteps

Ended == ui \in {"done", "killed"}
WinRuns == kind # "none" /\ ~Ended

WinNext ==
  /\ WinRuns
  /\ UiThread \/ ServerThread \/ OutputThread \/ PostClose \/ BridgeWakes \/ Outside

\* The steps that do happen: threads run, a server that is told to stop returns (what
\* ServerLoop is about), and whoever reads the pipes keeps reading.
WinWorker == ServePosts \/ (stop /\ ServeReturns) \/ OutputThread \/ PostClose
WinReaders == \/ ReadInput
              \/ (HostFlushes \/ (client = "dying" /\ ClientExits)) /\ UNCHANGED winVars

-----------------------------------------------------------------------------
\* The UI thread waits in WriteFile for a server that has already returned: nobody will
\* read the input pipe, and its read end stays open in the worker's context.
InputStuck == ui = "write" /\ Serving /\ worker \in {"close", "exited"} /\ inPipe = PipeRoom

\* The worker ended without closing the window: it was told to hold it, or it failed.
LeftOpen == ~Serving /\ ~canceled /\ (hold \/ outcome = "error")

\* Closing the window ends the hosting process, whatever the worker is doing
\* (session.cpp: "closing the window must terminate the hosting process").  And when the
\* work is over, or the process that started the host goes away, the host does not stay
\* behind: the worker's WM_CLOSE reaches the window, the bridge thread's stop event
\* reaches the worker, and the host returns, unless its UI thread is stuck.
WindowSessionEnds ==
  (\/ window = "gone"
   \/ worker = "exited" /\ ~LeftOpen
   \/ bridge = "wait" /\ signal) ~> (Ended \/ InputStuck)

\* No publication is missed: the screen catches up with the published snapshot, unless
\* the window closes or a paint was lost with its Direct2D target.
PublishedIsPainted ==
  (latest > shown /\ window = "open") ~> (shown >= latest \/ window = "gone" \/ InputStuck)

\* An output worker that ends by itself has shown everything its client wrote, in
\* order, although the last of it arrives after the client has exited.
OutputShownBeforeExit ==
  (~Serving /\ outcome = "ok" /\ ~stop) => applied = Pieces(written)

\* The host returns a worker's result only after that worker, and the bridge thread
\* beside it, have exited: both use state of the function that returns.
ThreadsJoinedBeforeReturn ==
  (ui = "done" /\ worker # "none") => worker = "exited" /\ bridge # "wait"

\* Once the window is closed the client of a windowed pseudo console has been ended
\* before the host waits for its worker, so no exit of the host, the forced one
\* included, leaves it running (session.cpp: "Ensure the client is not left running").
ClientNotLeftRunning ==
  (kind = "pty" /\ ui \in {"cancel", "wait", "join", "done", "killed"}) => client # "running"
=============================================================================
