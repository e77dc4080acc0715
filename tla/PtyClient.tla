------------------------------ MODULE PtyClient ------------------------------
(***************************************************************************)
(* What a session started by this program has on the other side of its     *)
(* pipes: a client process and the host of its pseudo console.  The client *)
(* writes numbered pieces of output; the pseudo console host renders them  *)
(* and puts them in the output pipe some time later, so output can still   *)
(* arrive after the client has exited.  Both are programs of the operating *)
(* system, modelled from how session.cpp and terminal_handoff_host.cpp use *)
(* them.                                                                   *)
(***************************************************************************)
EXTENDS Naturals, Sequences

CONSTANT MaxOutput  \* how many pieces of output the client may write

VARIABLES
  client,     \* "none", "running", "exited", "dying" (terminated, not yet gone) or "ended"
  written,    \* how many pieces the client has written
  unflushed,  \* pieces the pseudo console host has not yet put in the pipe
  ptyOut,     \* the pseudo console's output pipe
  ptyOutOpen  \* whether its write end is open

ptyVars == <<client, written, unflushed, ptyOut, ptyOutOpen>>

Clients == {"none", "running", "exited", "dying", "ended"}

PtyTypeOK ==
  /\ client \in Clients
  /\ written \in 0 .. MaxOutput
  /\ unflushed \in Seq(1 .. MaxOutput)
  /\ ptyOut \in Seq(1 .. MaxOutput)
  /\ ptyOutOpen \in BOOLEAN

PtyInit ==
  /\ client = "none"
  /\ written = 0
  /\ unflushed = <<>>
  /\ ptyOut = <<>>
  /\ ptyOutOpen = FALSE

\* The process handle is signalled.
ClientGone == client \in {"exited", "ended"}

\* CreatePseudoConsole and CreateProcessW.
SpawnClient == /\ client' = "running"
               /\ ptyOutOpen' = TRUE
               /\ UNCHANGED <<written, unflushed, ptyOut>>

\* TerminateProcess: asynchronous, and without effect on a process that is gone.
Terminate == IF client = "running" THEN "dying" ELSE client

\* ClosePseudoConsole ends the clients that are still attached.
ClosePseudoConsole ==
  /\ client' = IF client \in {"running", "dying"} THEN "ended" ELSE client
  /\ ptyOutOpen' = FALSE
  /\ unflushed' = <<>>
  /\ UNCHANGED <<written, ptyOut>>

ClientWrites ==
  /\ client = "running"
  /\ written < MaxOutput
  /\ written' = written + 1
  /\ unflushed' = Append(unflushed, written + 1)
  /\ UNCHANGED <<client, ptyOut, ptyOutOpen>>

ClientExits ==
  /\ client \in {"running", "dying"}
  /\ client' = IF client = "running" THEN "exited" ELSE "ended"
  /\ UNCHANGED <<written, unflushed, ptyOut, ptyOutOpen>>

HostFlushes ==
  /\ ptyOutOpen
  /\ unflushed # <<>>
  /\ ptyOut' = Append(ptyOut, Head(unflushed))
  /\ unflushed' = Tail(unflushed)
  /\ UNCHANGED <<client, written, ptyOutOpen>>

\* The pseudo console host exits once its last client has and all is flushed.
HostEnds ==
  /\ ptyOutOpen
  /\ ClientGone
  /\ unflushed = <<>>
  /\ ptyOutOpen' = FALSE
  /\ UNCHANGED <<client, written, unflushed, ptyOut>>

PtyStep == ClientWrites \/ ClientExits \/ HostFlushes \/ HostEnds

\* The pieces 1 .. n in the order they were written.
Pieces(n) == [i \in 1 .. n |-> i]
=============================================================================
