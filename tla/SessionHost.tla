----------------------------- MODULE SessionHost -----------------------------
(***************************************************************************)
(* One run of the program: a launch that routes to exactly one session,    *)
(* and that session until it returns.  The session modules are composed    *)
(* side by side; only the one the launch chose takes steps.                *)
(***************************************************************************)
EXTENDS WindowedSession, PtySession, DelegatedSession, HeadlessSession, Launch

hostVars == <<launchVars, ptyVars, winVars, pumpVars, delegatedVars, headlessVars>>

HostTypeOK == /\ LaunchTypeOK /\ PtyTypeOK /\ WinTypeOK /\ PumpTypeOK /\ DelegatedTypeOK
              /\ HeadlessTypeOK

HostInit == LaunchInit /\ PtyInit /\ WinInit /\ PumpInit /\ DelegatedInit /\ HeadlessInit

OnlyLaunch == UNCHANGED <<ptyVars, winVars, pumpVars, delegatedVars, headlessVars>>
OnlyWindow == UNCHANGED <<launchVars, pumpVars, delegatedVars, headlessVars>>
OnlyPump == UNCHANGED <<launchVars, winVars, delegatedVars, headlessVars>>
OnlyDelegated == UNCHANGED <<launchVars, ptyVars, winVars, pumpVars, headlessVars>>
OnlyHeadless == UNCHANGED <<launchVars, ptyVars, winVars, pumpVars, delegatedVars>>

-----------------------------------------------------------------------------
(* The routes *)

\* A window for a ConDrv server or for a handoff; only the first kinds watch a handle,
\* and only an output worker can be told to hold the window.
BeginWindow ==
  /\ \/ /\ at = "window" /\ HostWithPacket
        /\ StartHost("server", FALSE, FALSE, opts["signal"])
     \/ /\ at = "comWindow" /\ HostPlain
        /\ StartHost("delegated", FALSE, FALSE, TRUE)
     \/ /\ at = "comTerminal" /\ HostPlain
        /\ \E keep, known \in BOOLEAN : StartHost("terminal", keep, known, FALSE)
     \/ /\ at = "pty" /\ HostPlain
        /\ \E keep \in BOOLEAN : StartHost("pty", keep, TRUE, FALSE)
  /\ UNCHANGED <<pumpVars, delegatedVars, headlessVars>>

BeginPump == /\ at = "pump" /\ HostPlain
             /\ StartPump
             /\ UNCHANGED <<winVars, delegatedVars, headlessVars>>

BeginDelegated == /\ at = "delegated" /\ HostPlain
                  /\ StartDelegated
                  /\ UNCHANGED <<ptyVars, winVars, pumpVars, headlessVars>>

BeginServing ==
  /\ \E signalled \in IF opts["signal"] THEN {"event", "pipe"} ELSE {"none"} :
       \/ at = "windowless" /\ HostWithPacket /\ StartServing(TRUE, signalled)
       \/ at = "headless" /\ HostPlain /\ StartServing(FALSE, signalled)
  /\ UNCHANGED <<ptyVars, winVars, pumpVars, delegatedVars>>

Over == at = "exit" \/ (kind # "none" /\ Ended) \/ "done" \in {pump, inbox, host}

\* Nothing happens any more: the process has returned, or its UI thread is stuck.
Finished == (Over \/ InputStuck) /\ UNCHANGED hostVars

HostNext ==
  \/ LaunchStep /\ OnlyLaunch
  \/ BeginWindow \/ BeginPump \/ BeginDelegated \/ BeginServing
  \/ WinNext /\ OnlyWindow
  \/ PumpNext /\ OnlyPump
  \/ DelegatedNext /\ OnlyDelegated
  \/ HeadlessNext /\ OnlyHeadless
  \/ Finished

-----------------------------------------------------------------------------
(* Threads that can run do; a drain's grace period ends although its output may arrive in
   between again and again; the processes at the other end of the pipes read and flush.   *)

MainThread == \/ WinRuns /\ UiThread /\ OnlyWindow
              \/ PumpRuns /\ PumpThread /\ OnlyPump
              \/ InboxThread /\ OnlyDelegated
              \/ HeadlessMain /\ OnlyHeadless
SecondThread == \/ WinRuns /\ WinWorker /\ OnlyWindow
                \/ SignalThread /\ OnlyDelegated
                \/ MonitorThread /\ OnlyHeadless
GracePeriod == \/ WinRuns /\ DrainElapses /\ OnlyWindow
               \/ PumpRuns /\ DrainPumpElapses /\ OnlyPump
OtherProcesses == \/ WinRuns /\ WinReaders /\ OnlyWindow
                  \/ PumpRuns /\ PumpReaders /\ OnlyPump

HostSpec ==
  /\ HostInit /\ [][HostNext]_hostVars
  /\ WF_hostVars(MainThread)
  /\ WF_hostVars(SecondThread)
  /\ SF_hostVars(GracePeriod)
  /\ WF_hostVars(WinRuns /\ BridgeWakes /\ OnlyWindow)
  /\ WF_hostVars(OtherProcesses)

-----------------------------------------------------------------------------
\* When the peer of a session without a window goes away the program returns: the client
\* of a pump (or a request to end it, whatever output is still under way), the delegated
\* host that held the other end of the signal pipe, the terminal behind a headless server
\* (whatever bytes of it are unread); no thread that is joined keeps it.
PeerGoneEndsSession == (PumpMustEnd \/ InboxMustEnd \/ ServingMustEnd) ~> Over

\* No session stays behind, with a window or without one.
SessionsEnd == WindowSessionEnds /\ PeerGoneEndsSession

\* What a client writes reaches the screen or the terminal, all of it, before the program
\* says that the client has ended, and what is typed reaches the client in order.
OutputReachesUser == /\ OutputShownBeforeExit /\ OutputForwardedBeforeReturn
                     /\ StreamsInOrder

\* A host with a client that returns leaves no thread and no client running, and a
\* terminal with its own modes.
ReturnsLeaveNothing == ThreadsJoinedBeforeReturn /\ ClientNotLeftRunning /\ ReturnsClean

\* The client of a delegated host is not abandoned: the inbox host stays while it may be
\* needed, and when the delegated host vanishes the client is asked to close, once.
DelegatedClientKept == GuardOutlivesDelegate /\ ClosedOnceOnDisconnect
=============================================================================
