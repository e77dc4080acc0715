----------------------------- MODULE ServerLoop -----------------------------
(***************************************************************************)
(* The ConDrv server loop (run_loop in condrv_server.cpp): the server      *)
(* thread, the input monitor thread, the signal monitor thread, and the    *)
(* driver they talk to.                                                    *)
(*                                                                         *)
(* The server thread is at one program point, pc.  The points of DeviceIo  *)
(* and "hostWrite" are synchronous calls in flight: the two monitors may   *)
(* cancel them.  A cancelled call either fails or, when it was about to    *)
(* complete, succeeds.  A cancellation that finds no call in flight is     *)
(* lost.                                                                   *)
(***************************************************************************)
EXTENDS Integers, Sequences, FiniteSets

CONSTANTS
    Requests,    \* the messages the clients may send through the driver
    Kind,        \* what each message asks for
    None,        \* an empty optional
    InitialPacket, \* the packet inherited from the inbox host, or None
    MaxRetries,  \* max_retries of release_message_buffers and complete_io_direct
    MaxInput     \* bound: how many units of input the host sends

Kinds == {"read", "write", "connect", "disconnect"}

ASSUME RequestAssumption ==
    /\ Kind \in [Requests -> Kinds]
    /\ None \notin Requests
    /\ InitialPacket \in Requests \cup {None}

ASSUME BoundAssumption == MaxInput \in Nat /\ MaxRetries \in Nat /\ MaxRetries >= 4

VARIABLES
    pc,            \* the server thread's program point
    scan,          \* pending replies left to retry in this pass, the current one included
    pending,       \* pending_replies
    current,       \* the message being dispatched or released
    staged,        \* pending_completion
    attempt,       \* attempts already cancelled of the call being retried
    exitRequested, \* exit_no_clients_requested
    exitReason,    \* which of the exit_ flags is set, or "error"
    clients,       \* ServerState::process_count
    hasPending,    \* has_pending_replies
    inReadIo,      \* in_driver_read_io
    stop,          \* stop_requested
    avail,         \* units of input in the InputQueue
    disconnected,  \* InputQueue::_disconnected
    sent,          \* driver: messages sent by clients
    inbox,         \* driver: messages not yet handed to the server
    replies,       \* driver: completions accepted for each message
    connected,     \* driver: READ_IO does not fail with PIPE_NOT_CONNECTED
    cancelled,     \* the call in flight has been cancelled
    impc,          \* the input monitor's program point
    typed,         \* units the host has sent
    eof,           \* the host has closed its ends of the pipes
    smpc,          \* the signal monitor's program point
    signaled       \* the external signal handle is signaled

messageVars == <<scan, pending, current, staged>>
exitVars    == <<exitRequested, exitReason>>
flagVars    == <<hasPending, inReadIo, stop>>
queueVars   == <<avail, disconnected>>
driverVars  == <<sent, inbox, replies, connected>>
inputVars   == <<impc, typed, eof>>
signalVars  == <<smpc, signaled>>
serverVars  == <<pc, attempt, clients, messageVars, exitVars>>
vars == <<serverVars, flagVars, queueVars, driverVars, cancelled, inputVars, signalVars>>

ServerPoints ==
    {"loop", "service", "retry", "guard", "issueRead", "readIo", "gotPacket",
     "gotAborted", "gotPipe", "dispatch", "checkDisconnected", "readInput",
     "hostWrite", "writeOutput", "stage", "shutdown", "completeStaged",
     "failPending", "joinSignal", "waitSignal", "joinInput", "waitInput", "returned"}

InputPoints ==
    {"checkStop", "issue", "reading", "loadPending", "loadDriver", "cancelSync",
     "cancelEx", "markDisconnected", "exited"}

SignalPoints == {"waiting", "cancelSync", "cancelEx", "exited"}

\* Synchronous calls on the ConDrv server handle.
DeviceIo == {"readIo", "readInput", "writeOutput", "completeStaged", "failPending"}

\* The events the joins raise: SignalMonitor::_stop_event, and stop_requested of
\* the input monitor's context.
SignalStopEvent == pc \in {"waitSignal", "joinInput", "waitInput", "returned"}
InputStop == pc \in {"waitInput", "returned"}

Init ==
    /\ pc = IF InitialPacket = None THEN "loop" ELSE "dispatch"
    /\ current = InitialPacket
    /\ sent = {InitialPacket} \ {None}
    /\ scan = 0 /\ pending = <<>> /\ staged = None /\ attempt = 0
    /\ exitRequested = FALSE /\ exitReason = "none" /\ clients = 0
    /\ hasPending = FALSE /\ inReadIo = FALSE /\ stop = FALSE
    /\ avail = 0 /\ disconnected = FALSE
    /\ inbox = {} /\ replies = [r \in Requests |-> 0] /\ connected = TRUE
    /\ cancelled = FALSE
    /\ impc = "checkStop" /\ typed = 0 /\ eof = FALSE
    /\ smpc = "waiting" /\ signaled = FALSE

-----------------------------------------------------------------------------
(***************************************************************************)
(* The server thread.  Every step of it starts or follows a call, so it    *)
(* clears `cancelled'.                                                     *)
(***************************************************************************)
Goto(point) == pc' = point /\ cancelled' = FALSE

\* A retryable or plain call in flight fails when it was cancelled, or when the
\* driver is gone.
Aborts == cancelled
Broken == ~connected
RetriesEnd == (Aborts /\ attempt >= MaxRetries) \/ Broken

\* Any dispatch or release error makes run_loop return at once; the destructors
\* then join both monitors.
Fatal ==
    /\ Goto("joinSignal")
    /\ exitReason' = "error"
    /\ UNCHANGED <<messageVars, attempt, exitRequested, clients, flagVars, queueVars, driverVars>>

LoopTop ==
    /\ pc = "loop"
    /\ IF stop /\ staged = None
         THEN Goto("shutdown") /\ UNCHANGED exitReason
         ELSE IF exitRequested /\ staged = None
           THEN Goto("shutdown") /\ exitReason' = "noClients"
           ELSE Goto("service") /\ UNCHANGED exitReason
    /\ UNCHANGED <<messageVars, attempt, exitRequested, clients, flagVars, queueVars, driverVars>>

UpdatePendingFlag == hasPending' = (pending' # <<>>)

\* service_pending_once: nothing is retried while a completion is staged.
ServiceBegin ==
    /\ pc = "service"
    /\ UNCHANGED pending
    /\ IF pending = <<>> \/ staged # None
         THEN Goto("guard") /\ UpdatePendingFlag /\ UNCHANGED scan
         ELSE Goto("retry") /\ scan' = Len(pending) /\ UNCHANGED hasPending
    /\ UNCHANGED <<current, staged, attempt, exitVars, clients,
                   inReadIo, stop, queueVars, driverVars>>

RetryNext ==
    /\ pc = "retry"
    /\ IF scan = 0
         THEN /\ Goto("guard")
              /\ UNCHANGED <<pending, current>>
              /\ UpdatePendingFlag
         ELSE /\ Goto("dispatch")
              /\ current' = Head(pending)
              /\ pending' = Tail(pending)
              /\ UNCHANGED hasPending
    /\ UNCHANGED <<scan, staged, attempt, exitVars, clients, inReadIo, stop, queueVars, driverVars>>

EnterGuard ==
    /\ pc = "guard"
    /\ Goto("issueRead")
    /\ inReadIo' = TRUE
    /\ UNCHANGED <<messageVars, attempt, exitVars, clients, hasPending, stop, queueVars, driverVars>>

\* The driver takes the completion in READ_IO's input buffer before it waits for
\* the next message.
Accept(r) == replies' = IF connected /\ r # None THEN [replies EXCEPT ![r] = @ + 1] ELSE replies

\* Variant: READ_IO is issued without the staged completion.
IssueReadBare ==
    /\ pc = "issueRead"
    /\ Goto("readIo")
    /\ UNCHANGED <<messageVars, attempt, exitVars, clients, flagVars, queueVars, driverVars>>

IssueRead ==
    /\ pc = "issueRead"
    /\ Goto("readIo")
    /\ Accept(staged)
    /\ UNCHANGED <<messageVars, attempt, exitVars, clients, flagVars, queueVars, sent, inbox, connected>>

ReadIoReturns ==
    /\ pc = "readIo"
    /\ \/ /\ connected
          /\ \E r \in inbox : current' = r /\ inbox' = inbox \ {r}
          /\ Goto("gotPacket")
       \/ Aborts /\ Goto("gotAborted") /\ UNCHANGED <<current, inbox>>
       \/ Broken /\ Goto("gotPipe") /\ UNCHANGED <<current, inbox>>
    /\ UNCHANGED <<scan, pending, staged, attempt, exitVars, clients, flagVars, queueVars,
                   sent, replies, connected>>

\* Variant: pending_completion is not reset.
GotPacketNoReset ==
    /\ pc = "gotPacket"
    /\ Goto("dispatch")
    /\ inReadIo' = FALSE
    /\ UNCHANGED <<messageVars, attempt, exitVars, clients, hasPending, stop, queueVars, driverVars>>

GotPacket ==
    /\ pc = "gotPacket"
    /\ Goto("dispatch")
    /\ inReadIo' = FALSE
    /\ staged' = None
    /\ UNCHANGED <<scan, pending, current, attempt, exitVars, clients, hasPending, stop,
                   queueVars, driverVars>>

GotAborted ==
    /\ pc = "gotAborted"
    /\ inReadIo' = FALSE
    /\ staged' = None
    /\ IF stop
         THEN Goto("shutdown") /\ exitReason' = "signal"
         ELSE Goto("loop") /\ UNCHANGED exitReason
    /\ UNCHANGED <<scan, pending, current, attempt, exitRequested, clients, hasPending, stop,
                   queueVars, driverVars>>

GotPipe ==
    /\ pc = "gotPipe"
    /\ Goto("shutdown")
    /\ inReadIo' = FALSE
    /\ exitReason' = "pipe"
    /\ UNCHANGED <<messageVars, attempt, exitRequested, clients, hasPending, stop, queueVars, driverVars>>

-----------------------------------------------------------------------------
(***************************************************************************)
(* dispatch_message, reduced to the calls it makes and to whether the      *)
(* reply is pending.  A read needs one unit of input and returns it with   *)
(* WRITE_OUTPUT when it is released; a write and a connect first fetch     *)
(* their payload with READ_INPUT; a write then goes to the host.           *)
(***************************************************************************)
DispatchRead ==
    /\ pc = "dispatch" /\ Kind[current] = "read"
    /\ IF avail > 0
         THEN Goto("writeOutput") /\ avail' = avail - 1
         ELSE Goto("checkDisconnected") /\ UNCHANGED avail
    /\ attempt' = 0
    /\ UNCHANGED <<messageVars, exitVars, clients, flagVars, disconnected, driverVars>>

\* Variant: the message that must wait is not put back.
CheckDisconnectedForgets ==
    /\ pc = "checkDisconnected"
    /\ current' = None
    /\ UNCHANGED pending
    /\ IF scan > 1
         THEN Goto("retry") /\ scan' = scan - 1 /\ UNCHANGED hasPending
         ELSE Goto("loop") /\ scan' = 0 /\ UpdatePendingFlag
    /\ UNCHANGED <<staged, attempt, exitVars, clients, inReadIo, stop, queueVars, driverVars>>

\* The queue was empty: the read fails if the host input is gone, else it pends.
\* A failed reply has no output to write.
CheckDisconnected ==
    /\ pc = "checkDisconnected"
    /\ \/ /\ disconnected
          /\ Goto("stage")
          /\ UNCHANGED <<scan, pending, current, hasPending>>
       \/ /\ ~disconnected
          /\ pending' = Append(pending, current)
          /\ current' = None
          /\ IF scan > 0
               THEN Goto("retry") /\ scan' = scan - 1 /\ UNCHANGED hasPending
               ELSE Goto("loop") /\ UpdatePendingFlag /\ UNCHANGED scan
    /\ UNCHANGED <<staged, attempt, exitVars, clients, inReadIo, stop, queueVars, driverVars>>

DispatchPayload ==
    /\ pc = "dispatch" /\ Kind[current] \in {"write", "connect"}
    /\ Goto("readInput")
    /\ UNCHANGED <<messageVars, attempt, exitVars, clients, flagVars, queueVars, driverVars>>

\* connect_client may fail for lack of memory; the reply then says so.
ReadInputReturns ==
    /\ pc = "readInput"
    /\ \/ /\ Kind[current] = "write"
          /\ Goto("hostWrite")
          /\ UNCHANGED <<messageVars, attempt, exitVars, clients, flagVars, queueVars, driverVars>>
       \/ /\ Kind[current] = "connect"
          /\ Goto("stage")
          /\ clients' \in {clients, clients + 1}
          /\ UNCHANGED <<messageVars, attempt, exitVars, flagVars, queueVars, driverVars>>
       \/ (Aborts \/ Broken) /\ Fatal

HostWriteReturns ==
    /\ pc = "hostWrite"
    /\ \/ /\ Goto("stage")
          /\ UNCHANGED <<messageVars, attempt, exitVars, clients, flagVars, queueVars, driverVars>>
       \/ (Aborts \/ eof) /\ Fatal

\* An unknown process leaves the table alone, yet the exit request depends only
\* on the table being empty.
DispatchDisconnect ==
    /\ pc = "dispatch" /\ Kind[current] = "disconnect"
    /\ Goto("stage")
    /\ clients' \in {clients, clients - 1} \cap Nat
    /\ exitRequested' = (exitRequested \/ clients' = 0)
    /\ UNCHANGED <<messageVars, attempt, exitReason, flagVars, queueVars, driverVars>>

\* release_message_buffers retries a cancelled WRITE_OUTPUT.
WriteOutputReturns ==
    /\ pc = "writeOutput"
    /\ \/ /\ Goto("stage")
          /\ UNCHANGED <<messageVars, attempt, exitVars, clients, flagVars, queueVars, driverVars>>
       \/ /\ Aborts /\ attempt < MaxRetries
          /\ Goto("writeOutput")
          /\ attempt' = attempt + 1
          /\ UNCHANGED <<messageVars, exitVars, clients, flagVars, queueVars, driverVars>>
       \/ RetriesEnd /\ Fatal

\* After a retried message is staged, service_pending_once runs once more and
\* only refreshes the flag.
Stage ==
    /\ pc = "stage"
    /\ staged' = current
    /\ current' = None
    /\ scan' = 0
    /\ UNCHANGED pending
    /\ IF scan > 0
         THEN Goto("guard") /\ UpdatePendingFlag
         ELSE Goto("loop") /\ UNCHANGED hasPending
    /\ UNCHANGED <<attempt, exitVars, clients, inReadIo, stop, queueVars, driverVars>>

-----------------------------------------------------------------------------
(***************************************************************************)
(* Leaving the loop: the staged completion and the pending replies are     *)
(* completed directly.  complete_io_direct retries a cancelled call.       *)
(***************************************************************************)
\* Variant: leaves without failing the pending replies.
ShutdownAtOnce ==
    /\ pc = "shutdown"
    /\ Goto(IF staged # None THEN "completeStaged" ELSE "joinSignal")
    /\ attempt' = 0
    /\ UNCHANGED <<messageVars, exitVars, clients, flagVars, queueVars, driverVars>>

Shutdown ==
    /\ pc = "shutdown"
    /\ Goto(IF staged # None THEN "completeStaged" ELSE "failPending")
    /\ attempt' = 0
    /\ UNCHANGED <<messageVars, exitVars, clients, flagVars, queueVars, driverVars>>

RetryDirect ==
    /\ Aborts /\ attempt < MaxRetries
    /\ Goto(pc)
    /\ attempt' = attempt + 1
    /\ UNCHANGED <<messageVars, exitVars, clients, flagVars, queueVars, driverVars>>

\* The result of this completion is ignored.
CompleteStagedReturns ==
    /\ pc = "completeStaged"
    /\ \/ RetryDirect
       \/ /\ connected \/ RetriesEnd
          /\ Accept(staged)
          /\ Goto("failPending")
          /\ staged' = None
          /\ attempt' = 0
          /\ UNCHANGED <<scan, pending, current, exitVars, clients, flagVars, queueVars,
                         sent, inbox, connected>>

\* fail_all_pending, one COMPLETE_IO after another; the first error ends it.
FailPendingReturns ==
    /\ pc = "failPending" /\ pending # <<>>
    /\ \/ RetryDirect
       \/ /\ connected
          /\ Accept(Head(pending))
          /\ pending' = Tail(pending)
          /\ Goto("failPending")
          /\ attempt' = 0
          /\ UNCHANGED <<scan, current, staged, exitVars, clients, flagVars, queueVars,
                         sent, inbox, connected>>
       \/ /\ RetriesEnd
          /\ Goto("joinSignal")
          /\ UNCHANGED <<messageVars, attempt, exitVars, clients, flagVars, queueVars, driverVars>>

FailPendingDone ==
    /\ pc = "failPending" /\ pending = <<>>
    /\ Goto("joinSignal")
    /\ UNCHANGED messageVars
    /\ UpdatePendingFlag
    /\ UNCHANGED <<attempt, exitVars, clients, inReadIo, stop, queueVars, driverVars>>

\* ~SignalMonitor, then ~InputMonitor, whose single CancelSynchronousIo reaches
\* the monitor only when its ReadFile is already in flight.
JoinMonitors ==
    /\ \/ pc = "joinSignal" /\ Goto("waitSignal") /\ UNCHANGED impc
       \/ pc = "waitSignal" /\ smpc = "exited" /\ Goto("joinInput") /\ UNCHANGED impc
       \/ /\ pc = "joinInput" /\ Goto("waitInput")
          /\ impc' = IF impc = "reading" THEN "markDisconnected" ELSE impc
       \/ pc = "waitInput" /\ impc = "exited" /\ Goto("returned") /\ UNCHANGED impc
    /\ UNCHANGED <<messageVars, attempt, exitVars, clients, flagVars, queueVars, driverVars,
                   typed, eof, signalVars>>

ServerStep ==
    \/ /\ \/ LoopTop \/ ServiceBegin \/ RetryNext \/ EnterGuard \/ IssueRead \/ ReadIoReturns
          \/ GotPacket \/ GotAborted \/ GotPipe
          \/ DispatchRead \/ CheckDisconnected \/ DispatchPayload \/ ReadInputReturns
          \/ HostWriteReturns \/ DispatchDisconnect \/ WriteOutputReturns \/ Stage
          \/ Shutdown \/ CompleteStagedReturns \/ FailPendingReturns \/ FailPendingDone
       /\ UNCHANGED <<inputVars, signalVars>>
    \/ JoinMonitors

-----------------------------------------------------------------------------
(***************************************************************************)
(* Cancellation.  CancelSynchronousIo reaches any synchronous call of the  *)
(* server thread, CancelIoEx only calls on the ConDrv handle.              *)
(***************************************************************************)
CancelSynchronousIo == cancelled' = (cancelled \/ pc \in DeviceIo \cup {"hostWrite"})
CancelIoEx == cancelled' = (cancelled \/ pc \in DeviceIo)

\* input_monitor_thread
ImCheckStop ==
    /\ impc = "checkStop"
    /\ impc' = IF InputStop THEN "markDisconnected" ELSE "issue"
    /\ UNCHANGED <<queueVars, cancelled, typed>>

ImIssue ==
    /\ impc = "issue"
    /\ impc' = "reading"
    /\ UNCHANGED <<queueVars, cancelled, typed>>

\* ReadFile returns EOF or an error.
ImReadEnds ==
    /\ impc = "reading" /\ eof
    /\ impc' = "markDisconnected"
    /\ UNCHANGED <<queueVars, cancelled, typed>>

ImMarkDisconnected ==
    /\ impc = "markDisconnected"
    /\ disconnected' = TRUE
    /\ impc' = "loadPending"
    /\ UNCHANGED <<avail, cancelled, typed>>

\* The end of maybe_wake_server: back to the loop, or out of the thread.
AfterWake == IF disconnected THEN "exited" ELSE "checkStop"

\* Variant: wakes the server whatever call it is in.
ImLoadFlagsUnguarded ==
    /\ \/ impc = "loadPending" /\ impc' = IF hasPending THEN "loadDriver" ELSE AfterWake
       \/ impc = "loadDriver" /\ impc' = "cancelSync"
    /\ UNCHANGED <<queueVars, cancelled, typed>>

ImLoadFlags ==
    /\ \/ impc = "loadPending" /\ impc' = IF hasPending THEN "loadDriver" ELSE AfterWake
       \/ impc = "loadDriver" /\ impc' = IF inReadIo THEN "cancelSync" ELSE AfterWake
    /\ UNCHANGED <<queueVars, cancelled, typed>>

ImCancel ==
    /\ \/ impc = "cancelSync" /\ CancelSynchronousIo /\ impc' = "cancelEx"
       \/ impc = "cancelEx" /\ CancelIoEx /\ impc' = AfterWake
    /\ UNCHANGED <<queueVars, typed>>

InputStep ==
    /\ ImCheckStop \/ ImIssue \/ ImReadEnds \/ ImMarkDisconnected \/ ImLoadFlags \/ ImCancel
    /\ UNCHANGED <<serverVars, flagVars, driverVars, eof, signalVars>>

\* Variant: waits for the signal handle only.
SmWaitSignalOnly ==
    /\ smpc = "waiting"
    /\ signaled /\ stop' = TRUE /\ smpc' = "cancelSync"
    /\ UNCHANGED cancelled

\* signal_monitor_thread: the signal handle is first in the wait, so it wins.
SmWaitReturns ==
    /\ smpc = "waiting"
    /\ \/ signaled /\ stop' = TRUE /\ smpc' = "cancelSync"
       \/ ~signaled /\ SignalStopEvent /\ smpc' = "exited" /\ UNCHANGED stop
    /\ UNCHANGED cancelled

SmCancel ==
    /\ \/ smpc = "cancelSync" /\ CancelSynchronousIo /\ smpc' = "cancelEx"
       \/ smpc = "cancelEx" /\ CancelIoEx /\ smpc' = "exited"
    /\ UNCHANGED stop

SignalStep ==
    /\ SmWaitReturns \/ SmCancel
    /\ UNCHANGED <<serverVars, hasPending, inReadIo, queueVars, driverVars, inputVars, signaled>>

-----------------------------------------------------------------------------
(***************************************************************************)
(* The environment: clients, the driver's connection, the host, the signal.*)
(***************************************************************************)
ClientSends ==
    /\ connected
    /\ \E r \in Requests \ sent : sent' = sent \cup {r} /\ inbox' = inbox \cup {r}
    /\ UNCHANGED <<serverVars, flagVars, queueVars, replies, connected, cancelled, inputVars, signalVars>>

PipeBreaks ==
    /\ connected
    /\ connected' = FALSE
    /\ UNCHANGED <<serverVars, flagVars, queueVars, sent, inbox, replies, cancelled, inputVars, signalVars>>

\* ReadFile returns what the host sent, and the monitor pushes it.
HostTypes ==
    /\ impc = "reading" /\ ~eof /\ typed < MaxInput
    /\ typed' = typed + 1
    /\ avail' = avail + 1
    /\ impc' = "loadPending"
    /\ UNCHANGED <<serverVars, flagVars, disconnected, driverVars, cancelled, eof, signalVars>>

HostCloses ==
    /\ ~eof
    /\ eof' = TRUE
    /\ UNCHANGED <<serverVars, flagVars, queueVars, driverVars, cancelled, impc, typed, signalVars>>

Signal ==
    /\ ~signaled
    /\ signaled' = TRUE
    /\ UNCHANGED <<serverVars, flagVars, queueVars, driverVars, cancelled, inputVars, smpc>>

Environment == ClientSends \/ PipeBreaks \/ HostTypes \/ HostCloses \/ Signal

\* Nothing more happens once run_loop has returned and joined its threads.
Finished ==
    /\ pc = "returned"
    /\ UNCHANGED vars

Next == ServerStep \/ InputStep \/ SignalStep \/ Environment \/ Finished

Spec == Init /\ [][Next]_vars

(***************************************************************************)
(* The operating system runs every thread that can run: a call that can    *)
(* return does, an aborted or answered READ_IO included.  Nothing is       *)
(* assumed of the clients, the host or the signal.                         *)
(***************************************************************************)
Fairness == WF_vars(ServerStep) /\ WF_vars(InputStep) /\ WF_vars(SignalStep)

LiveSpec == Spec /\ Fairness
-----------------------------------------------------------------------------
(***************************************************************************)
(* Properties.                                                             *)
(***************************************************************************)
DataTypes ==
    /\ pc \in ServerPoints /\ impc \in InputPoints /\ smpc \in SignalPoints
    /\ pending \in Seq(Requests) /\ scan \in Nat
    /\ current \in Requests \cup {None} /\ staged \in Requests \cup {None}
    /\ attempt \in Nat /\ clients \in Nat /\ avail \in Nat /\ typed \in Nat
    /\ exitReason \in {"none", "signal", "pipe", "noClients", "error"}
    /\ sent \subseteq Requests /\ inbox \subseteq sent
    /\ replies \in [Requests -> Nat]

FlagTypes ==
    /\ exitRequested \in BOOLEAN /\ hasPending \in BOOLEAN /\ inReadIo \in BOOLEAN
    /\ stop \in BOOLEAN /\ disconnected \in BOOLEAN /\ connected \in BOOLEAN
    /\ cancelled \in BOOLEAN /\ eof \in BOOLEAN /\ signaled \in BOOLEAN

TypeOK == DataTypes /\ FlagTypes

Elements(s) == {s[i] : i \in 1..Len(s)}
Distinct(s) == \A i, j \in 1..Len(s) : s[i] = s[j] => i = j

Waiting == Elements(pending)
Held == (Waiting \cup {current, staged}) \ {None}

\* A message taken from the driver is never lost: until the driver goes away it
\* is in the driver's inbox, held by the server in one place, or answered.  This
\* is about the moves of ConDrvApiMessage between pending_replies, the local
\* `message' and pending_completion, and about pending_completion.reset() after
\* a cancelled READ_IO.
NoRequestLost ==
    connected => \A r \in sent : r \in inbox \/ r \in Held \/ replies[r] > 0

\* A message is answered at most once, although it can be staged, submitted by
\* READ_IO, and submitted again by complete_io_direct when READ_IO reports that
\* the pipe is gone.
AnsweredOnce == \A r \in Requests : replies[r] <= 1

\* OC_ASSERT(!pending_completion.has_value()) of release_and_stage_completion:
\* no message is dispatched or released while another completion is staged.
StagingSlotFree ==
    pc \in {"dispatch", "checkDisconnected", "readInput", "hostWrite", "writeOutput", "stage"}
        => staged = None

\* The retry loops of release_message_buffers and complete_io_direct never run
\* out of attempts: at most four cancellations can reach one call, two of a wake
\* that had passed its guards and two of the signal monitor.
RetriesNeverExhausted ==
    pc \in {"writeOutput", "completeStaged", "failPending"} /\ cancelled => attempt < MaxRetries

\* While the server is inside READ_IO, the flag the input monitor tests says
\* whether there are pending replies (update_pending_flag is called wherever
\* pending_replies changes).
PendingFlagAccurate ==
    pc \in {"issueRead", "readIo"} => (hasPending <=> pending # <<>>)

\* When run_loop returns without an error and the driver is still there, every
\* message it took was answered: the staged completion and fail_all_pending
\* leave no client waiting.
NoClientHungOnCleanExit ==
    pc = "returned" /\ exitReason # "error" /\ connected
        => \A r \in sent \ inbox : replies[r] = 1

\* A staged completion reaches the driver: with the next READ_IO, or directly
\* when the loop ends.
StagedIsSubmitted ==
    \A r \in Requests : (staged = r) ~> (replies[r] = 1 \/ ~connected)

\* When the driver and the host are both gone, run_loop returns and both
\* monitors have been joined, whatever was pending and whoever was waiting.
ReturnsWhenPeersGone == (~connected /\ eof) ~> (pc = "returned")

(***************************************************************************)
(* The inductive invariant.                                                *)
(***************************************************************************)
\* The program points at which the server has no message in hand, at which it
\* has one, and at which READ_IO has submitted the staged completion.
EmptyHanded ==
    {"loop", "service", "retry", "guard", "issueRead", "readIo", "gotAborted", "gotPipe",
     "shutdown", "completeStaged", "failPending"}
Busy == {"dispatch", "checkDisconnected", "readInput", "hostWrite", "writeOutput", "stage"}
Submitted == {"readIo", "gotPacket", "gotAborted"}
InsideGuard == {"issueRead", "readIo", "gotPacket", "gotAborted", "gotPipe"}
Retried == {"writeOutput", "completeStaged", "failPending"}

\* Cancellations a monitor may still issue without testing in_driver_read_io again.
InputCancelsLeft == IF impc = "cancelSync" THEN 2 ELSE IF impc = "cancelEx" THEN 1 ELSE 0
SignalCancelsLeft == IF smpc = "exited" THEN 0 ELSE IF smpc = "cancelEx" THEN 1 ELSE 2

ControlInv ==
    /\ (inReadIo <=> pc \in InsideGuard)
    /\ pc \in Busy \cup {"retry"} => staged = None
    /\ pc \in Busy \cup {"gotPacket"} => current # None
    /\ pc \in EmptyHanded => current = None
    /\ pc \in (EmptyHanded \ {"retry"}) \cup {"gotPacket"} => scan = 0
    /\ pc = "retry" => scan <= Len(pending)
    /\ pc \in {"dispatch", "checkDisconnected"} => scan <= Len(pending) + 1
    /\ pc = "gotPipe" => ~connected
    /\ pc \in {"shutdown", "completeStaged"} /\ staged # None => ~connected
    /\ pc = "failPending" => staged = None
    /\ pc \in {"guard", "issueRead", "readIo"} => (hasPending <=> pending # <<>>)

\* A call that is being retried has been hit by cancellations of the two
\* monitors only, and their number is bounded.
BudgetInv ==
    pc \in Retried =>
        attempt + (IF cancelled THEN 1 ELSE 0) + InputCancelsLeft + SignalCancelsLeft <= 4

\* A message is in one place.
PlaceInv ==
    /\ Distinct(pending)
    /\ current \notin Waiting /\ staged \notin Waiting
    /\ current # None => current # staged
    /\ Held \subseteq sent \ inbox

\* A message is answered when, and only when, it has been submitted.
ReplyInv ==
    /\ \A r \in Requests : r \in Waiting \cup inbox \cup {current} \/ r \notin sent => replies[r] = 0
    /\ staged # None /\ connected => replies[staged] = IF pc \in Submitted THEN 1 ELSE 0
    /\ AnsweredOnce
    /\ NoRequestLost

\* Leaving without an error, the server holds nothing.
ExitInv ==
    pc \in {"joinSignal", "waitSignal", "joinInput", "waitInput", "returned"}
        /\ exitReason # "error" /\ connected => Held = {}

IInv == TypeOK /\ ControlInv /\ BudgetInv /\ PlaceInv /\ ReplyInv /\ ExitInv

(***************************************************************************)
(* Where a request is, in the terms of RequestLifecycle.                   *)
(***************************************************************************)
PhaseOf(r) ==
    IF replies[r] > 0 THEN "answered"
    ELSE IF r \notin sent THEN "idle"
    ELSE IF r \in inbox THEN "queued"
    ELSE IF r \in Held THEN "held" ELSE "dropped"

Lifecycle == INSTANCE RequestLifecycle
    WITH phase <- [r \in Requests |-> PhaseOf(r)], linked <- connected

\* The server loop implements the request lifecycle: every step of the three
\* threads moves at most one request, and only along idle, queued, held,
\* answered; a request is dropped only when the driver is gone.
ImplementsLifecycle == Lifecycle!Spec

(***************************************************************************)
(* What comments and documents say of the loop, and the code does not do.  *)
(***************************************************************************)
\* signal_monitor_thread: "the server loop will observe `stop_requested' and
\* exit".
StopIsObserved == stop ~> pc \in {"shutdown", "joinSignal"}

\* Reply-pending design: requests are queued and retried when input becomes
\* available.
PendingIsRetried ==
    \A r \in Requests : (r \in Waiting /\ avail > 0) ~> (r \notin Waiting \/ avail = 0)
=============================================================================
