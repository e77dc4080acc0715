-------------------------- MODULE ServerLoopProofs --------------------------
(***************************************************************************)
(* Proofs about ServerLoop, for any set of requests, any kinds of them and *)
(* any amount of input.  The inductive invariant IInv is the conjunction   *)
(* of the types, of what the program point says about what the server      *)
(* holds (ControlInv), of the bound on cancellations (BudgetInv), of where *)
(* messages are (PlaceInv) and of how often they were answered (ReplyInv,  *)
(* ExitInv).  Each conjunct has a step lemma; the safety properties and    *)
(* the refinement of RequestLifecycle follow.                              *)
(***************************************************************************)
EXTENDS ServerLoop, TLAPS

\* update_pending_flag stores a Boolean that says whether pending_replies is non-empty.
LEMMA PendingFlag == UpdatePendingFlag => hasPending' \in BOOLEAN /\ (hasPending' <=> pending' # <<>>)
BY Zenon DEF UpdatePendingFlag

\* Taking the head off a non-empty queue (pending_replies.erase of its first element).
LEMMA TailFacts ==
    ASSUME NEW S, NEW s \in Seq(S), s # <<>>
    PROVE  /\ Len(s) > 0 /\ Head(s) = s[1] /\ Head(s) \in S
           /\ Tail(s) \in Seq(S) /\ Len(Tail(s)) = Len(s) - 1
           /\ \A i \in 1..(Len(s) - 1) : Tail(s)[i] = s[i + 1]
BY SMT

\* Adding a message at the end of a queue (pending_replies.push_back).
LEMMA AppendFacts ==
    ASSUME NEW S, NEW s \in Seq(S), NEW x \in S
    PROVE  /\ Append(s, x) \in Seq(S) /\ Len(Append(s, x)) = Len(s) + 1 /\ Append(s, x) # <<>>
           /\ Append(s, x)[Len(s) + 1] = x
           /\ \A i \in 1..Len(s) : Append(s, x)[i] = s[i]
BY SMT

\* Taking the head off pending_replies removes that message and no other.
LEMMA TailElements ==
    ASSUME NEW S, NEW s \in Seq(S), s # <<>>
    PROVE  /\ Elements(s) = {Head(s)} \cup Elements(Tail(s))
           /\ Distinct(s) => Distinct(Tail(s)) /\ Head(s) \notin Elements(Tail(s))
<1>1. Elements(s) = {Head(s)} \cup Elements(Tail(s))
  <2>1. ASSUME NEW x \in Elements(s) PROVE x \in {Head(s)} \cup Elements(Tail(s))
    <3>1. PICK i \in 1..Len(s) : x = s[i]
      BY <2>1 DEF Elements
    <3>2. CASE i = 1
      BY <3>1, <3>2, TailFacts
    <3>3. CASE i # 1
      <4>1. i - 1 \in 1..Len(Tail(s)) /\ x = Tail(s)[i - 1]
        BY <3>1, <3>3, TailFacts, SMT
      <4> QED
        BY <4>1 DEF Elements
    <3> QED
      BY <3>2, <3>3
  <2>2. ASSUME NEW x \in {Head(s)} \cup Elements(Tail(s)) PROVE x \in Elements(s)
    <3>1. CASE x = Head(s)
      BY <3>1, TailFacts, SMT DEF Elements
    <3>2. CASE x \in Elements(Tail(s))
      <4>1. PICK i \in 1..Len(Tail(s)) : x = Tail(s)[i]
        BY <3>2 DEF Elements
      <4>2. i + 1 \in 1..Len(s) /\ x = s[i + 1]
        BY <4>1, TailFacts, SMT
      <4> QED
        BY <4>2 DEF Elements
    <3> QED
      BY <2>2, <3>1, <3>2
  <2> QED
    BY <2>1, <2>2
<1>2. ASSUME Distinct(s) PROVE Distinct(Tail(s))
  BY <1>2, TailFacts, SMT DEF Distinct
<1>3. ASSUME Distinct(s) PROVE Head(s) \notin Elements(Tail(s))
  <2>1. \A i \in 1..Len(Tail(s)) : Tail(s)[i] # Head(s)
    BY <1>3, TailFacts, SMT DEF Distinct
  <2> QED
    BY <2>1 DEF Elements
<1> QED
  BY <1>1, <1>2, <1>3

\* Only messages are in pending_replies.
LEMMA WaitingRequests == ASSUME DataTypes PROVE Waiting \subseteq Requests /\ None \notin Waiting
BY RequestAssumption, SMT DEF DataTypes, Waiting, Elements

\* Appending to pending_replies adds that message and keeps the queue free of duplicates.
LEMMA AppendElements ==
    ASSUME NEW S, NEW s \in Seq(S), NEW x \in S
    PROVE  /\ Elements(Append(s, x)) = Elements(s) \cup {x}
           /\ Distinct(s) /\ x \notin Elements(s) => Distinct(Append(s, x))
<1> DEFINE t == Append(s, x)
<1>1. /\ Len(t) = Len(s) + 1 /\ t[Len(s) + 1] = x
      /\ \A i \in 1..Len(s) : t[i] = s[i]
      /\ Len(s) \in Nat
  BY AppendFacts, SMT
<1> HIDE DEF t
<1>2. Elements(t) = Elements(s) \cup {x}
  BY <1>1, SMT DEF Elements
<1>3. ASSUME Distinct(s), x \notin Elements(s) PROVE Distinct(t)
  BY <1>1, <1>3, SMT DEF Elements, Distinct
<1> QED
  BY <1>2, <1>3 DEF t

\* Every step of the loop and of the monitors keeps the data well typed.
LEMMA DataTypesStep ==
    ASSUME DataTypes, ControlInv, [Next]_vars
    PROVE  DataTypes'
<1> USE RequestAssumption, BoundAssumption DEF DataTypes, ServerPoints, InputPoints, SignalPoints,
     ControlInv, Busy, messageVars, exitVars, flagVars, queueVars, driverVars, serverVars,
     inputVars, signalVars
<1>1. CASE LoopTop /\ UNCHANGED <<inputVars, signalVars>>
  BY <1>1, SMTT(30) DEF LoopTop, Goto
<1>2. CASE ServiceBegin /\ UNCHANGED <<inputVars, signalVars>>
  BY <1>2, SMT DEF ServiceBegin, Goto
<1>3. CASE RetryNext /\ UNCHANGED <<inputVars, signalVars>>
  <2>1. pending # <<>> => Head(pending) \in Requests /\ Tail(pending) \in Seq(Requests)
    BY TailFacts DEF DataTypes
  <2>2. scan # 0 => pending # <<>>
    BY <1>3, SMT DEF RetryNext
  <2>3. pending' \in Seq(Requests) /\ current' \in Requests \cup {None}
    BY <1>3, <2>1, <2>2, Zenon DEF RetryNext, DataTypes
  <2>4. pc' \in ServerPoints /\ replies' \in [Requests -> Nat] /\ inbox' \subseteq sent'
    BY <1>3, SMT DEF RetryNext, Goto
  <2> QED
    BY <1>3, <2>3, <2>4, Zenon DEF RetryNext
<1>4. CASE EnterGuard /\ UNCHANGED <<inputVars, signalVars>>
  BY <1>4, SMT DEF EnterGuard, Goto
<1>5. CASE IssueRead /\ UNCHANGED <<inputVars, signalVars>>
  BY <1>5, SMT DEF IssueRead, Goto, Accept
<1>6. CASE ReadIoReturns /\ UNCHANGED <<inputVars, signalVars>>
  BY <1>6, SMT DEF ReadIoReturns, Goto, Aborts, Broken
<1>7. CASE GotPacket /\ UNCHANGED <<inputVars, signalVars>>
  BY <1>7, SMT DEF GotPacket, Goto
<1>8. CASE GotAborted /\ UNCHANGED <<inputVars, signalVars>>
  BY <1>8, SMT DEF GotAborted, Goto
<1>9. CASE GotPipe /\ UNCHANGED <<inputVars, signalVars>>
  BY <1>9, SMT DEF GotPipe, Goto
<1>10. CASE DispatchRead /\ UNCHANGED <<inputVars, signalVars>>
  BY <1>10, SMT DEF DispatchRead, Goto
<1>11. CASE CheckDisconnected /\ UNCHANGED <<inputVars, signalVars>>
  <2>1. Append(pending, current) \in Seq(Requests)
    BY <1>11, AppendFacts DEF CheckDisconnected
  <2>2. pending' \in Seq(Requests) /\ current' \in Requests \cup {None}
    BY <1>11, <2>1, Zenon DEF CheckDisconnected
  <2>3. pc' \in ServerPoints /\ scan' \in Nat
    BY <1>11, SMT DEF CheckDisconnected, Goto
  <2> QED
    BY <1>11, <2>2, <2>3, Zenon DEF CheckDisconnected
<1>12. CASE DispatchPayload /\ UNCHANGED <<inputVars, signalVars>>
  BY <1>12, SMT DEF DispatchPayload, Goto
<1>13. CASE ReadInputReturns /\ UNCHANGED <<inputVars, signalVars>>
  BY <1>13, SMTT(30) DEF ReadInputReturns, Goto, Fatal, Aborts, Broken
<1>14. CASE HostWriteReturns /\ UNCHANGED <<inputVars, signalVars>>
  BY <1>14, SMT DEF HostWriteReturns, Goto, Fatal, Aborts
<1>15. CASE DispatchDisconnect /\ UNCHANGED <<inputVars, signalVars>>
  BY <1>15, SMT DEF DispatchDisconnect, Goto
<1>16. CASE WriteOutputReturns /\ UNCHANGED <<inputVars, signalVars>>
  BY <1>16, SMTT(30) DEF WriteOutputReturns, Goto, Fatal, Aborts, RetriesEnd, Broken
<1>17. CASE Stage /\ UNCHANGED <<inputVars, signalVars>>
  BY <1>17, SMT DEF Stage, Goto
<1>18. CASE Shutdown /\ UNCHANGED <<inputVars, signalVars>>
  BY <1>18, SMT DEF Shutdown, Goto
<1>19. CASE CompleteStagedReturns /\ UNCHANGED <<inputVars, signalVars>>
  BY <1>19, SMT DEF CompleteStagedReturns, Goto, Accept, RetryDirect, Aborts, RetriesEnd, Broken
<1>20. CASE FailPendingReturns /\ UNCHANGED <<inputVars, signalVars>>
  <2>1. Head(pending) \in Requests /\ Tail(pending) \in Seq(Requests)
    BY <1>20, TailFacts DEF FailPendingReturns
  <2>2. pending' \in Seq(Requests) /\ current' \in Requests \cup {None} /\ scan' \in Nat
    BY <1>20, <2>1, Zenon DEF FailPendingReturns, RetryDirect
  <2>3. pc' \in ServerPoints /\ attempt' \in Nat
    BY <1>20, SMTT(30) DEF FailPendingReturns, Goto, RetryDirect
  <2>4. replies' \in [Requests -> Nat]
    BY <1>20, <2>1, SMTT(30) DEF FailPendingReturns, Accept, RetryDirect
  <2> QED
    BY <1>20, <2>2, <2>3, <2>4, Zenon DEF FailPendingReturns, RetryDirect
<1>21. CASE FailPendingDone /\ UNCHANGED <<inputVars, signalVars>>
  BY <1>21, SMT DEF FailPendingDone, Goto
<1>22. CASE JoinMonitors
  BY <1>22, SMT DEF JoinMonitors, Goto
<1>23. CASE InputStep
  BY <1>23, SMT DEF InputStep, ImCheckStop, ImIssue, ImReadEnds, ImMarkDisconnected, ImLoadFlags,
     ImCancel, AfterWake
<1>24. CASE SignalStep
  BY <1>24, SMT DEF SignalStep, SmWaitReturns, SmCancel
<1>25. CASE ClientSends
  BY <1>25, SMT DEF ClientSends
<1>26. CASE PipeBreaks
  BY <1>26, SMT DEF PipeBreaks
<1>27. CASE HostTypes
  BY <1>27, SMT DEF HostTypes
<1>28. CASE HostCloses
  BY <1>28, SMT DEF HostCloses
<1>29. CASE Signal
  BY <1>29, SMT DEF Signal
<1>30. CASE UNCHANGED vars
  BY <1>30, SMT DEF vars
<1> QED
  BY <1>1, <1>2, <1>3, <1>4, <1>5, <1>6, <1>7, <1>8, <1>9, <1>10, <1>11, <1>12, <1>13, <1>14,
     <1>15, <1>16, <1>17, <1>18, <1>19, <1>20, <1>21, <1>22, <1>23, <1>24, <1>25, <1>26, <1>27,
     <1>28, <1>29, <1>30, Zenon DEF Next, ServerStep, Environment, Finished

\* The atomic flags, the queue's and the driver's stay Booleans.
LEMMA FlagTypesStep ==
    ASSUME FlagTypes, [Next]_vars
    PROVE  FlagTypes'
<1> USE DEF FlagTypes, UpdatePendingFlag, CancelSynchronousIo, CancelIoEx, messageVars, exitVars,
     flagVars, queueVars, driverVars, serverVars, inputVars, signalVars
<1>1. CASE LoopTop /\ UNCHANGED <<inputVars, signalVars>>
  BY <1>1, ZenonT(30) DEF LoopTop, Goto
<1>2. CASE ServiceBegin /\ UNCHANGED <<inputVars, signalVars>>
  BY <1>2, Zenon DEF ServiceBegin, Goto
<1>3. CASE RetryNext /\ UNCHANGED <<inputVars, signalVars>>
  BY <1>3, Zenon DEF RetryNext, Goto
<1>4. CASE EnterGuard /\ UNCHANGED <<inputVars, signalVars>>
  BY <1>4, Zenon DEF EnterGuard, Goto
<1>5. CASE IssueRead /\ UNCHANGED <<inputVars, signalVars>>
  BY <1>5, Zenon DEF IssueRead, Goto, Accept
<1>6. CASE ReadIoReturns /\ UNCHANGED <<inputVars, signalVars>>
  BY <1>6, Zenon DEF ReadIoReturns, Goto, Aborts, Broken
<1>7. CASE GotPacket /\ UNCHANGED <<inputVars, signalVars>>
  BY <1>7, Zenon DEF GotPacket, Goto
<1>8. CASE GotAborted /\ UNCHANGED <<inputVars, signalVars>>
  BY <1>8, Zenon DEF GotAborted, Goto
<1>9. CASE GotPipe /\ UNCHANGED <<inputVars, signalVars>>
  BY <1>9, Zenon DEF GotPipe, Goto
<1>10. CASE DispatchRead /\ UNCHANGED <<inputVars, signalVars>>
  BY <1>10, Zenon DEF DispatchRead, Goto
<1>11. CASE CheckDisconnected /\ UNCHANGED <<inputVars, signalVars>>
  BY <1>11, Zenon DEF CheckDisconnected, Goto
<1>12. CASE DispatchPayload /\ UNCHANGED <<inputVars, signalVars>>
  BY <1>12, Zenon DEF DispatchPayload, Goto
<1>13. CASE ReadInputReturns /\ UNCHANGED <<inputVars, signalVars>>
  BY <1>13, ZenonT(30) DEF ReadInputReturns, Goto, Fatal, Aborts, Broken
<1>14. CASE HostWriteReturns /\ UNCHANGED <<inputVars, signalVars>>
  BY <1>14, ZenonT(30) DEF HostWriteReturns, Goto, Fatal, Aborts
<1>15. CASE DispatchDisconnect /\ UNCHANGED <<inputVars, signalVars>>
  BY <1>15, Zenon DEF DispatchDisconnect, Goto
<1>16. CASE WriteOutputReturns /\ UNCHANGED <<inputVars, signalVars>>
  BY <1>16, ZenonT(30) DEF WriteOutputReturns, Goto, Fatal, Aborts, RetriesEnd, Broken
<1>17. CASE Stage /\ UNCHANGED <<inputVars, signalVars>>
  BY <1>17, Zenon DEF Stage, Goto
<1>18. CASE Shutdown /\ UNCHANGED <<inputVars, signalVars>>
  BY <1>18, Zenon DEF Shutdown, Goto
<1>19. CASE CompleteStagedReturns /\ UNCHANGED <<inputVars, signalVars>>
  BY <1>19, ZenonT(30) DEF CompleteStagedReturns, Goto, Accept, RetryDirect, Aborts, RetriesEnd, Broken
<1>20. CASE FailPendingReturns /\ UNCHANGED <<inputVars, signalVars>>
  BY <1>20, Zenon DEF FailPendingReturns, Goto, Accept, RetryDirect, Aborts, RetriesEnd, Broken
<1>21. CASE FailPendingDone /\ UNCHANGED <<inputVars, signalVars>>
  BY <1>21, Zenon DEF FailPendingDone, Goto
<1>22. CASE JoinMonitors
  BY <1>22, Zenon DEF JoinMonitors, Goto
<1>23. CASE InputStep
  BY <1>23, ZenonT(30) DEF InputStep, ImCheckStop, ImIssue, ImReadEnds, ImMarkDisconnected,
     ImLoadFlags, ImCancel, AfterWake
<1>24. CASE SignalStep
  BY <1>24, Zenon DEF SignalStep, SmWaitReturns, SmCancel
<1>25. CASE ClientSends
  BY <1>25, Zenon DEF ClientSends
<1>26. CASE PipeBreaks
  BY <1>26, Zenon DEF PipeBreaks
<1>27. CASE HostTypes
  BY <1>27, Zenon DEF HostTypes
<1>28. CASE HostCloses
  BY <1>28, Zenon DEF HostCloses
<1>29. CASE Signal
  BY <1>29, Zenon DEF Signal
<1>30. CASE UNCHANGED vars
  BY <1>30, Zenon DEF vars
<1> QED
  BY <1>1, <1>2, <1>3, <1>4, <1>5, <1>6, <1>7, <1>8, <1>9, <1>10, <1>11, <1>12, <1>13, <1>14,
     <1>15, <1>16, <1>17, <1>18, <1>19, <1>20, <1>21, <1>22, <1>23, <1>24, <1>25, <1>26, <1>27,
     <1>28, <1>29, <1>30, Zenon DEF Next, ServerStep, Environment, Finished

\* Where the server thread is determines what it holds: the staged completion,
\* the message in hand, the pass over pending_replies and the two flags.
LEMMA ControlStep ==
    ASSUME DataTypes, FlagTypes, BudgetInv, ControlInv, [Next]_vars
    PROVE  ControlInv'
<1> USE RequestAssumption, BoundAssumption, PendingFlag, TailFacts, AppendFacts DEF DataTypes,
     FlagTypes, ControlInv, ServerPoints, InputPoints, SignalPoints, Busy, EmptyHanded,
     InsideGuard, messageVars, exitVars, flagVars, queueVars, driverVars, serverVars, inputVars,
     signalVars
<1>1. CASE LoopTop /\ UNCHANGED <<inputVars, signalVars>>
  BY <1>1, SMTT(30) DEF LoopTop, Goto
<1>2. CASE ServiceBegin /\ UNCHANGED <<inputVars, signalVars>>
  BY <1>2, SMT DEF ServiceBegin, Goto
<1>3. CASE RetryNext /\ UNCHANGED <<inputVars, signalVars>>
  BY <1>3, SMT DEF RetryNext, Goto
<1>4. CASE EnterGuard /\ UNCHANGED <<inputVars, signalVars>>
  BY <1>4, SMT DEF EnterGuard, Goto
<1>5. CASE IssueRead /\ UNCHANGED <<inputVars, signalVars>>
  BY <1>5, SMT DEF IssueRead, Goto, Accept
<1>6. CASE ReadIoReturns /\ UNCHANGED <<inputVars, signalVars>>
  BY <1>6, SMT DEF ReadIoReturns, Goto, Aborts, Broken
<1>7. CASE GotPacket /\ UNCHANGED <<inputVars, signalVars>>
  BY <1>7, SMT DEF GotPacket, Goto
<1>8. CASE GotAborted /\ UNCHANGED <<inputVars, signalVars>>
  BY <1>8, SMT DEF GotAborted, Goto
<1>9. CASE GotPipe /\ UNCHANGED <<inputVars, signalVars>>
  BY <1>9, SMT DEF GotPipe, Goto
<1>10. CASE DispatchRead /\ UNCHANGED <<inputVars, signalVars>>
  BY <1>10, SMT DEF DispatchRead, Goto
<1>11. CASE CheckDisconnected /\ UNCHANGED <<inputVars, signalVars>>
  BY <1>11, SMT DEF CheckDisconnected, Goto
<1>12. CASE DispatchPayload /\ UNCHANGED <<inputVars, signalVars>>
  BY <1>12, SMT DEF DispatchPayload, Goto
<1>13. CASE ReadInputReturns /\ UNCHANGED <<inputVars, signalVars>>
  BY <1>13, SMTT(30) DEF ReadInputReturns, Goto, Fatal, Aborts, Broken
<1>14. CASE HostWriteReturns /\ UNCHANGED <<inputVars, signalVars>>
  BY <1>14, SMTT(30) DEF HostWriteReturns, Goto, Fatal, Aborts
<1>15. CASE DispatchDisconnect /\ UNCHANGED <<inputVars, signalVars>>
  BY <1>15, SMT DEF DispatchDisconnect, Goto
<1>16. CASE WriteOutputReturns /\ UNCHANGED <<inputVars, signalVars>>
  BY <1>16, SMTT(30) DEF WriteOutputReturns, Goto, Fatal, Aborts, RetriesEnd, Broken
<1>17. CASE Stage /\ UNCHANGED <<inputVars, signalVars>>
  BY <1>17, SMT DEF Stage, Goto
<1>18. CASE Shutdown /\ UNCHANGED <<inputVars, signalVars>>
  BY <1>18, SMT DEF Shutdown, Goto
<1>19. CASE CompleteStagedReturns /\ UNCHANGED <<inputVars, signalVars>>
  BY <1>19, SMT DEF CompleteStagedReturns, Goto, Accept, RetryDirect, Aborts, RetriesEnd, Broken
<1>20. CASE FailPendingReturns /\ UNCHANGED <<inputVars, signalVars>>
  BY <1>20, SMTT(30) DEF FailPendingReturns, Goto, Accept, RetryDirect, Aborts, RetriesEnd, Broken
<1>21. CASE FailPendingDone /\ UNCHANGED <<inputVars, signalVars>>
  BY <1>21, SMT DEF FailPendingDone, Goto
<1>22. CASE JoinMonitors
  BY <1>22, SMT DEF JoinMonitors, Goto
<1>23. CASE InputStep
  BY <1>23, SMT DEF InputStep, ImCheckStop, ImIssue, ImReadEnds, ImMarkDisconnected, ImLoadFlags,
     ImCancel, AfterWake
<1>24. CASE SignalStep
  BY <1>24, SMT DEF SignalStep, SmWaitReturns, SmCancel
<1>25. CASE ClientSends
  BY <1>25, SMT DEF ClientSends
<1>26. CASE PipeBreaks
  BY <1>26, SMT DEF PipeBreaks
<1>27. CASE HostTypes
  BY <1>27, SMT DEF HostTypes
<1>28. CASE HostCloses
  BY <1>28, SMT DEF HostCloses
<1>29. CASE Signal
  BY <1>29, SMT DEF Signal
<1>30. CASE UNCHANGED vars
  BY <1>30, SMT DEF vars
<1> QED
  BY <1>1, <1>2, <1>3, <1>4, <1>5, <1>6, <1>7, <1>8, <1>9, <1>10, <1>11, <1>12, <1>13, <1>14,
     <1>15, <1>16, <1>17, <1>18, <1>19, <1>20, <1>21, <1>22, <1>23, <1>24, <1>25, <1>26, <1>27,
     <1>28, <1>29, <1>30, Zenon DEF Next, ServerStep, Environment, Finished

\* No step lets a retried call be cancelled more than four times: a monitor that
\* has spent a cancellation has one fewer left, and the input monitor starts a
\* new wake only while READ_IO is in flight (in_driver_read_io).
LEMMA BudgetStep ==
    ASSUME DataTypes, ControlInv, BudgetInv, [Next]_vars
    PROVE  BudgetInv'
<1> USE RequestAssumption, BoundAssumption DEF DataTypes, ControlInv, BudgetInv, InsideGuard,
     Retried, InputCancelsLeft, SignalCancelsLeft, ServerPoints, InputPoints, SignalPoints,
     messageVars, exitVars, flagVars, queueVars, driverVars, serverVars, inputVars, signalVars
<1>1. CASE LoopTop /\ UNCHANGED <<inputVars, signalVars>>
  BY <1>1, SMTT(30) DEF LoopTop, Goto
<1>2. CASE ServiceBegin /\ UNCHANGED <<inputVars, signalVars>>
  BY <1>2, SMT DEF ServiceBegin, Goto
<1>3. CASE RetryNext /\ UNCHANGED <<inputVars, signalVars>>
  BY <1>3, SMT DEF RetryNext, Goto
<1>4. CASE EnterGuard /\ UNCHANGED <<inputVars, signalVars>>
  BY <1>4, SMT DEF EnterGuard, Goto
<1>5. CASE IssueRead /\ UNCHANGED <<inputVars, signalVars>>
  BY <1>5, SMT DEF IssueRead, Goto, Accept
<1>6. CASE ReadIoReturns /\ UNCHANGED <<inputVars, signalVars>>
  BY <1>6, SMT DEF ReadIoReturns, Goto, Aborts, Broken
<1>7. CASE GotPacket /\ UNCHANGED <<inputVars, signalVars>>
  BY <1>7, SMT DEF GotPacket, Goto
<1>8. CASE GotAborted /\ UNCHANGED <<inputVars, signalVars>>
  BY <1>8, SMT DEF GotAborted, Goto
<1>9. CASE GotPipe /\ UNCHANGED <<inputVars, signalVars>>
  BY <1>9, SMT DEF GotPipe, Goto
<1>10. CASE DispatchRead /\ UNCHANGED <<inputVars, signalVars>>
  BY <1>10, SMT DEF DispatchRead, Goto
<1>11. CASE CheckDisconnected /\ UNCHANGED <<inputVars, signalVars>>
  BY <1>11, SMT DEF CheckDisconnected, Goto
<1>12. CASE DispatchPayload /\ UNCHANGED <<inputVars, signalVars>>
  BY <1>12, SMT DEF DispatchPayload, Goto
<1>13. CASE ReadInputReturns /\ UNCHANGED <<inputVars, signalVars>>
  BY <1>13, SMT DEF ReadInputReturns, Goto, Fatal, Aborts, Broken
<1>14. CASE HostWriteReturns /\ UNCHANGED <<inputVars, signalVars>>
  BY <1>14, SMT DEF HostWriteReturns, Goto, Fatal, Aborts
<1>15. CASE DispatchDisconnect /\ UNCHANGED <<inputVars, signalVars>>
  BY <1>15, SMT DEF DispatchDisconnect, Goto
<1>16. CASE WriteOutputReturns /\ UNCHANGED <<inputVars, signalVars>>
  BY <1>16, SMTT(30) DEF WriteOutputReturns, Goto, Fatal, Aborts, RetriesEnd, Broken
<1>17. CASE Stage /\ UNCHANGED <<inputVars, signalVars>>
  BY <1>17, SMT DEF Stage, Goto
<1>18. CASE Shutdown /\ UNCHANGED <<inputVars, signalVars>>
  BY <1>18, SMT DEF Shutdown, Goto
<1>19. CASE CompleteStagedReturns /\ UNCHANGED <<inputVars, signalVars>>
  BY <1>19, SMTT(30) DEF CompleteStagedReturns, Goto, Accept, RetryDirect, Aborts, RetriesEnd, Broken
<1>20. CASE FailPendingReturns /\ UNCHANGED <<inputVars, signalVars>>
  BY <1>20, SMTT(30) DEF FailPendingReturns, Goto, Accept, RetryDirect, Aborts, RetriesEnd, Broken
<1>21. CASE FailPendingDone /\ UNCHANGED <<inputVars, signalVars>>
  BY <1>21, SMT DEF FailPendingDone, Goto
<1>22. CASE JoinMonitors
  BY <1>22, SMT DEF JoinMonitors, Goto
<1>23. CASE InputStep
  BY <1>23, SMT DEF InputStep, ImCheckStop, ImIssue, ImReadEnds, ImMarkDisconnected, ImLoadFlags,
     ImCancel, AfterWake
<1>24. CASE SignalStep
  BY <1>24, SMT DEF SignalStep, SmWaitReturns, SmCancel
<1>25. CASE ClientSends
  BY <1>25, SMT DEF ClientSends
<1>26. CASE PipeBreaks
  BY <1>26, SMT DEF PipeBreaks
<1>27. CASE HostTypes
  BY <1>27, SMT DEF HostTypes
<1>28. CASE HostCloses
  BY <1>28, SMT DEF HostCloses
<1>29. CASE Signal
  BY <1>29, SMT DEF Signal
<1>30. CASE UNCHANGED vars
  BY <1>30, SMT DEF vars
<1> QED
  BY <1>1, <1>2, <1>3, <1>4, <1>5, <1>6, <1>7, <1>8, <1>9, <1>10, <1>11, <1>12, <1>13, <1>14,
     <1>15, <1>16, <1>17, <1>18, <1>19, <1>20, <1>21, <1>22, <1>23, <1>24, <1>25, <1>26, <1>27,
     <1>28, <1>29, <1>30, Zenon DEF Next, ServerStep, Environment, Finished

\* A step that moves no message and submits no completion.
Quiet ==
    /\ UNCHANGED <<pending, current, staged, sent, inbox, replies>>
    /\ pc' \in Submitted <=> pc \in Submitted
    /\ connected' => connected

\* Ten actions move a message or submit a completion; all others are quiet.
LEMMA QuietSteps ==
    ASSUME [Next]_vars
    PROVE  \/ Quiet
           \/ RetryNext \/ IssueRead \/ ReadIoReturns \/ GotPacket \/ GotAborted \/ CheckDisconnected
           \/ Stage \/ CompleteStagedReturns \/ FailPendingReturns \/ ClientSends
<1> USE DEF Quiet, Submitted, messageVars, exitVars, flagVars, queueVars, driverVars, serverVars,
     inputVars, signalVars
<1>1. LoopTop \/ ServiceBegin \/ EnterGuard \/ GotPipe => Quiet
  BY SMT DEF LoopTop, ServiceBegin, EnterGuard, GotPipe, Fatal, Goto, RetryDirect
<1>2. DispatchRead \/ DispatchPayload \/ ReadInputReturns \/ HostWriteReturns => Quiet
  BY SMT DEF DispatchRead, DispatchPayload, ReadInputReturns, HostWriteReturns, Fatal, Goto,
     RetryDirect
<1>3. DispatchDisconnect \/ WriteOutputReturns \/ Shutdown \/ FailPendingDone => Quiet
  BY SMT DEF DispatchDisconnect, WriteOutputReturns, Shutdown, FailPendingDone, Fatal, Goto,
     RetryDirect
<1>4. JoinMonitors \/ InputStep \/ SignalStep \/ PipeBreaks \/ HostTypes \/ HostCloses \/ Signal => Quiet
  BY SMTT(90) DEF JoinMonitors, InputStep, SignalStep, PipeBreaks, HostTypes, HostCloses, Signal,
     Fatal, Goto, RetryDirect
<1>5. UNCHANGED vars => Quiet
  BY SMT DEF vars
<1> QED
  BY <1>1, <1>2, <1>3, <1>4, <1>5, Zenon DEF Next, ServerStep, Environment, Finished

\* service_pending_once takes one message out of pending_replies, or ends its pass.
LEMMA RetryMoves ==
    ASSUME DataTypes, ControlInv, PlaceInv, RetryNext
    PROVE  /\ UNCHANGED <<staged, sent, inbox, replies, connected>> /\ staged = None /\ current = None
           /\ pc' \notin Submitted
           /\ \/ UNCHANGED <<pending, current>>
              \/ /\ Waiting = {current'} \cup Waiting' /\ current' \notin Waiting'
                 /\ current' \in Requests /\ Distinct(pending')
<1>1. /\ UNCHANGED <<staged, sent, inbox, replies, connected>> /\ staged = None /\ current = None
      /\ pc' \notin Submitted
  BY SMT DEF RetryNext, Goto, ControlInv, EmptyHanded, Submitted, driverVars
<1>2. CASE scan = 0
  BY <1>1, <1>2, SMT DEF RetryNext
<1>3. CASE scan # 0
  <2>1. pending # <<>>
    BY <1>3, SMT DEF RetryNext, DataTypes, ControlInv
  <2>2. current' = Head(pending) /\ pending' = Tail(pending)
    BY <1>3, SMT DEF RetryNext
  <2>3. /\ Elements(pending) = {Head(pending)} \cup Elements(Tail(pending))
        /\ Distinct(Tail(pending)) /\ Head(pending) \notin Elements(Tail(pending))
        /\ Head(pending) \in Requests
    BY <2>1, TailElements, TailFacts DEF DataTypes, PlaceInv
  <2> QED
    BY <1>1, <2>2, <2>3, Zenon DEF Waiting
<1> QED
  BY <1>2, <1>3

\* A read that must wait goes from the server's hand to pending_replies.
LEMMA PendMoves ==
    ASSUME DataTypes, ControlInv, PlaceInv, CheckDisconnected
    PROVE  /\ UNCHANGED <<staged, sent, inbox, replies, connected>> /\ staged = None /\ current \in Requests
           /\ pc' \notin Submitted
           /\ \/ UNCHANGED <<pending, current>>
              \/ /\ Waiting' = Waiting \cup {current} /\ current' = None /\ Distinct(pending')
<1>1. /\ UNCHANGED <<staged, sent, inbox, replies, connected>> /\ staged = None /\ current \in Requests
      /\ pc' \notin Submitted
  BY SMT DEF CheckDisconnected, Goto, DataTypes, ControlInv, Busy, Submitted, driverVars
<1>2. CASE disconnected
  BY <1>1, <1>2, Zenon DEF CheckDisconnected
<1>3. CASE ~disconnected
  <2>1. pending' = Append(pending, current) /\ current' = None
    BY <1>3, Zenon DEF CheckDisconnected
  <2>2. /\ Elements(Append(pending, current)) = Elements(pending) \cup {current}
        /\ Distinct(Append(pending, current))
    BY <1>1, AppendElements DEF DataTypes, PlaceInv, Waiting
  <2> QED
    BY <1>1, <2>1, <2>2, Zenon DEF Waiting
<1> QED
  BY <1>2, <1>3

\* fail_all_pending answers the first of pending_replies, retries it, or gives up.
LEMMA FailMoves ==
    ASSUME DataTypes, ControlInv, PlaceInv, FailPendingReturns
    PROVE  /\ UNCHANGED <<current, staged, sent, inbox, connected>> /\ staged = None /\ current = None
           /\ pc' \notin Submitted
           /\ \/ UNCHANGED <<pending, replies>>
              \/ \E r \in Requests : /\ connected /\ replies' = [replies EXCEPT ![r] = @ + 1]
                                     /\ Waiting = {r} \cup Waiting' /\ r \notin Waiting' /\ Distinct(pending')
<1>1. /\ UNCHANGED <<current, staged, sent, inbox, connected>> /\ staged = None /\ current = None
      /\ pc' \notin Submitted
  BY SMT DEF FailPendingReturns, RetryDirect, Goto, ControlInv, EmptyHanded, Submitted,
     messageVars, driverVars
<1>2. CASE UNCHANGED <<pending, replies>>
  BY <1>1, <1>2
<1>3. CASE connected /\ Accept(Head(pending)) /\ pending' = Tail(pending)
  <2>1. /\ Elements(pending) = {Head(pending)} \cup Elements(Tail(pending))
        /\ Distinct(Tail(pending)) /\ Head(pending) \notin Elements(Tail(pending))
        /\ Head(pending) \in Requests
    BY TailElements, TailFacts, Zenon DEF FailPendingReturns, DataTypes, PlaceInv
  <2>2. replies' = [replies EXCEPT ![Head(pending)] = @ + 1]
    BY <1>3, <2>1, RequestAssumption, Zenon DEF Accept
  <2> QED
    BY <1>1, <1>3, <2>1, <2>2, Zenon DEF Waiting
<1> QED
  BY <1>2, <1>3, Zenon DEF FailPendingReturns, RetryDirect, messageVars, driverVars

\* Every step keeps each message in one place.
LEMMA PlaceStep ==
    ASSUME DataTypes, ControlInv, PlaceInv, [Next]_vars
    PROVE  PlaceInv'
<1> USE RequestAssumption
<1>0. Waiting \subseteq Requests /\ None \notin Waiting
  BY WaitingRequests
<1>1. CASE UNCHANGED <<pending, current, staged, sent, inbox>>
  BY <1>1, Zenon DEF PlaceInv, Held, Waiting
<1>2. CASE RetryNext
  BY <1>0, <1>1, <1>2, RetryMoves, SMT DEF PlaceInv, Held
<1>3. CASE CheckDisconnected
  BY <1>0, <1>1, <1>3, PendMoves, SMT DEF PlaceInv, Held
<1>4. CASE FailPendingReturns
  BY <1>0, <1>1, <1>4, FailMoves, SMT DEF PlaceInv, Held
<1>5. CASE ReadIoReturns
  <2>1. Waiting' = Waiting /\ Distinct(pending') /\ UNCHANGED <<staged, sent>> /\ current = None
    BY <1>5, SMT DEF ReadIoReturns, Waiting, PlaceInv, ControlInv, EmptyHanded
  <2>2. \/ UNCHANGED <<current, inbox>>
        \/ current' \in inbox /\ inbox' = inbox \ {current'}
    BY <1>5, Zenon DEF ReadIoReturns
  <2> QED
    BY <1>0, <2>1, <2>2, SMT DEF PlaceInv, Held, DataTypes
<1>6. CASE GotPacket \/ GotAborted \/ CompleteStagedReturns
  <2>1. Waiting' = Waiting /\ Distinct(pending') /\ UNCHANGED <<current, sent, inbox>>
    BY <1>6, Zenon DEF GotPacket, GotAborted, CompleteStagedReturns, RetryDirect, Waiting,
       PlaceInv, messageVars, driverVars
  <2>2. staged' \in {staged, None}
    BY <1>6, Zenon DEF GotPacket, GotAborted, CompleteStagedReturns, RetryDirect, messageVars
  <2> QED
    BY <1>0, <2>1, <2>2, SMT DEF PlaceInv, Held
<1>7. CASE Stage
  <2>1. Waiting' = Waiting /\ Distinct(pending') /\ UNCHANGED <<sent, inbox>> /\ staged' = current /\ current' = None
    BY <1>7, Zenon DEF Stage, Waiting, PlaceInv, driverVars
  <2> QED
    BY <1>0, <2>1, SMT DEF PlaceInv, Held
<1>8. CASE ClientSends
  <2>1. Waiting' = Waiting /\ Distinct(pending') /\ UNCHANGED <<current, staged>>
    BY <1>8, Zenon DEF ClientSends, Waiting, PlaceInv, serverVars, messageVars
  <2>2. PICK r \in Requests \ sent : sent' = sent \cup {r} /\ inbox' = inbox \cup {r}
    BY <1>8 DEF ClientSends
  <2> QED
    BY <2>1, <2>2, SMT DEF PlaceInv, Held
<1>9. CASE IssueRead
  BY <1>1, <1>9, Zenon DEF IssueRead, messageVars
<1> QED
  BY <1>1, <1>2, <1>3, <1>4, <1>5, <1>6, <1>7, <1>8, <1>9, QuietSteps DEF Quiet

\* Moving a message between the server's hands and pending_replies leaves the
\* count of completions in agreement.
LEMMA SameReplies ==
    ASSUME ReplyInv, UNCHANGED <<sent, inbox, replies, connected>>,
           connected => Held' = Held,
           Waiting' \cup {current'} \subseteq Waiting \cup {current, None},
           staged' = None \/ ~connected
    PROVE  ReplyInv'
<1>1. \A r \in Requests : r \in Waiting' \cup inbox' \cup {current'} \/ r \notin sent' => replies'[r] = 0
  BY RequestAssumption, Zenon DEF ReplyInv
<1>2. staged' # None /\ connected' => replies'[staged'] = IF pc' \in Submitted THEN 1 ELSE 0
  BY Zenon
<1>3. AnsweredOnce' /\ NoRequestLost'
  BY Zenon DEF ReplyInv, AnsweredOnce, NoRequestLost
<1> QED
  BY <1>1, <1>2, <1>3, Zenon DEF ReplyInv

\* Every step keeps the driver's count of completions in agreement with where
\* the message is.
LEMMA ReplyStep ==
    ASSUME DataTypes, ControlInv, PlaceInv, ReplyInv, PlaceInv', [Next]_vars
    PROVE  ReplyInv'
<1> USE RequestAssumption DEF AnsweredOnce, NoRequestLost
<1>0. Waiting \subseteq Requests /\ None \notin Waiting
  BY WaitingRequests
<1>1. CASE Quiet
  <2>1. Waiting' = Waiting /\ Held' = Held
    BY <1>1, Zenon DEF Quiet, Waiting, Held
  <2> QED
    BY <1>1, <2>1, SMT DEF Quiet, ReplyInv
<1>2. CASE RetryNext
  <2>1. UNCHANGED <<staged, sent, inbox, replies, connected>> /\ staged = None /\ current = None
    BY <1>2, RetryMoves
  <2>2. Held' = Held /\ Waiting' \cup {current'} \subseteq Waiting \cup {current, None}
    BY <1>0, <1>2, <2>1, RetryMoves, SMT DEF Held, Waiting
  <2> QED
    BY <2>1, <2>2, SameReplies
<1>3. CASE CheckDisconnected
  <2>1. UNCHANGED <<staged, sent, inbox, replies, connected>> /\ staged = None /\ current \in Requests
    BY <1>3, PendMoves
  <2>2. Held' = Held /\ Waiting' \cup {current'} \subseteq Waiting \cup {current, None}
    BY <1>0, <1>3, <2>1, PendMoves, SMT DEF Held, Waiting
  <2> QED
    BY <2>1, <2>2, SameReplies
<1>4. CASE FailPendingReturns
  <2>1. CASE UNCHANGED <<pending, replies>>
    <3>1. Waiting' = Waiting /\ Held' = Held
      BY <1>4, <2>1, FailMoves, Zenon DEF Waiting, Held
    <3> QED
      BY <1>4, <2>1, <3>1, FailMoves, SMT DEF ReplyInv
  <2>2. ASSUME NEW r \in Requests, connected, replies' = [replies EXCEPT ![r] = @ + 1],
               Waiting = {r} \cup Waiting', r \notin Waiting', Distinct(pending')
        PROVE  ReplyInv'
    <3>0. /\ UNCHANGED <<current, staged, sent, inbox, connected>> /\ staged = None /\ current = None
          /\ pc' \notin Submitted
      BY <1>4, FailMoves
    <3>1. r \in sent /\ r \notin inbox
      BY <2>2, Zenon DEF Held, PlaceInv
    <3>2. replies[r] = 0 /\ replies'[r] = 1 /\ \A q \in Requests \ {r} : replies'[q] = replies[q]
      BY <2>2, SMT DEF ReplyInv, DataTypes
    <3>3. \A q \in Requests : q \in Waiting' \cup inbox' \cup {current'} \/ q \notin sent' => replies'[q] = 0
      BY <2>2, <3>0, <3>1, <3>2, SMT DEF ReplyInv
    <3>4. AnsweredOnce'
      BY <3>2, SMT DEF ReplyInv
    <3>5. NoRequestLost'
      BY <2>2, <3>0, <3>1, <3>2, SMT DEF ReplyInv, Held, DataTypes
    <3> QED
      BY <3>0, <3>3, <3>4, <3>5, Zenon DEF ReplyInv
  <2> QED
    BY <1>4, <2>1, <2>2, FailMoves
<1>5. CASE IssueRead
  <2>1. /\ Waiting' = Waiting /\ Held' = Held /\ pc \notin Submitted /\ pc' \in Submitted
        /\ UNCHANGED <<staged, current, sent, inbox, connected>>
    BY <1>5, SMT DEF IssueRead, Goto, Submitted, Waiting, Held, messageVars
  <2>2. replies' = IF connected /\ staged # None THEN [replies EXCEPT ![staged] = @ + 1] ELSE replies
    BY <1>5 DEF IssueRead, Accept
  <2> QED
    BY <2>1, <2>2, SMTT(30) DEF ReplyInv, PlaceInv, Held, DataTypes
<1>6. CASE ReadIoReturns
  <2>1. /\ Waiting' = Waiting /\ UNCHANGED <<staged, sent, replies, connected>> /\ current = None
        /\ pc \in Submitted /\ (connected => pc' \in Submitted)
    BY <1>6, SMT DEF ReadIoReturns, Goto, Aborts, Broken, Submitted, Waiting, ControlInv,
       EmptyHanded
  <2>2. \/ UNCHANGED <<current, inbox>>
        \/ current' \in inbox /\ inbox' = inbox \ {current'}
    BY <1>6, Zenon DEF ReadIoReturns
  <2> QED
    BY <1>0, <2>1, <2>2, SMT DEF ReplyInv, Held, DataTypes
<1>7. CASE GotPacket \/ GotAborted
  <2>1. /\ Waiting' = Waiting /\ UNCHANGED <<current, sent, inbox, replies, connected>>
        /\ staged' = None /\ pc \in Submitted
    BY <1>7, SMT DEF GotPacket, GotAborted, Submitted, Waiting, messageVars, driverVars
  <2> QED
    BY <1>0, <2>1, SMT DEF ReplyInv, Held, DataTypes
<1>8. CASE CompleteStagedReturns
  <2>1. /\ Waiting' = Waiting /\ UNCHANGED <<current, sent, inbox, connected>> /\ staged' \in {staged, None}
        /\ (staged # None => ~connected) /\ pc \notin Submitted /\ pc' \notin Submitted
    BY <1>8, SMT DEF CompleteStagedReturns, Goto, RetryDirect, Submitted, Waiting, ControlInv,
       messageVars, driverVars
  <2>2. UNCHANGED replies
    BY <1>8, <2>1, SMT DEF CompleteStagedReturns, RetryDirect, Accept, driverVars
  <2>3. connected => Held' = Held
    BY <2>1, Zenon DEF Held
  <2>4. staged' = None \/ ~connected
    BY <2>1, Zenon
  <2> QED
    BY <2>1, <2>2, <2>3, <2>4, SameReplies
<1>9. CASE Stage
  <2>1. /\ Waiting' = Waiting /\ UNCHANGED <<sent, inbox, replies, connected>> /\ staged' = current
        /\ current' = None /\ current \in Requests /\ staged = None /\ pc' \notin Submitted
    BY <1>9, SMT DEF Stage, Goto, Submitted, Waiting, ControlInv, Busy, DataTypes, driverVars
  <2> QED
    BY <1>0, <2>1, SMT DEF ReplyInv, Held
<1>10. CASE ClientSends
  <2>1. Waiting' = Waiting /\ Held' = Held /\ UNCHANGED <<pc, current, staged, replies, connected>>
    BY <1>10, Zenon DEF ClientSends, Waiting, Held, serverVars, messageVars
  <2>2. PICK r \in Requests \ sent : sent' = sent \cup {r} /\ inbox' = inbox \cup {r}
    BY <1>10 DEF ClientSends
  <2> QED
    BY <1>0, <2>1, <2>2, SMTT(30) DEF ReplyInv
<1> QED
  BY <1>1, <1>2, <1>3, <1>4, <1>5, <1>6, <1>7, <1>8, <1>9, <1>10, QuietSteps

\* run_loop leaves without an error only when it holds no message, or when the
\* driver is gone.  The retry budget is what lets fail_all_pending reach the end.
LEMMA ExitStep ==
    ASSUME DataTypes, ControlInv, BudgetInv, PlaceInv, ExitInv, [Next]_vars
    PROVE  ExitInv'
<1> USE RequestAssumption, BoundAssumption
<1> DEFINE Leaving == {"joinSignal", "waitSignal", "joinInput", "waitInput", "returned"}
<1>1. CASE FailPendingReturns \/ FailPendingDone
  <2>1. current = None /\ staged = None /\ UNCHANGED <<current, staged>>
    BY <1>1, SMTT(30) DEF FailPendingReturns, FailPendingDone, RetryDirect, ControlInv, EmptyHanded,
       messageVars
  <2>2. pc = "failPending" /\ connected => ~RetriesEnd
    BY SMT DEF RetriesEnd, Aborts, Broken, BudgetInv, Retried, InputCancelsLeft,
       SignalCancelsLeft, DataTypes
  <2>3. pc' \in Leaving /\ connected' => pending' = <<>>
    <3>1. pc = "failPending" /\ connected' = connected
      BY <1>1, Zenon DEF FailPendingReturns, FailPendingDone, RetryDirect, driverVars
    <3>2. pc' \in Leaving => pending' = <<>> \/ RetriesEnd
      BY <1>1, SMT DEF FailPendingReturns, FailPendingDone, RetryDirect, Goto, messageVars
    <3> QED
      BY <2>2, <3>1, <3>2, Zenon
  <2>4. pending' = <<>> => Waiting' = {}
    BY SMT DEF Waiting, Elements
  <2> QED
    BY <2>1, <2>3, <2>4, Zenon DEF ExitInv, Held
<1>2. CASE pc' \notin Leaving \/ exitReason' = "error" \/ ~connected'
  BY <1>2, Zenon DEF ExitInv
<1>3. CASE /\ pc \in Leaving /\ UNCHANGED <<pending, current, staged, exitReason>> /\ (connected' => connected)
  <2>1. Held' = Held
    BY <1>3, Zenon DEF Held, Waiting
  <2> QED
    BY <1>3, <2>1, Zenon DEF ExitInv
<1> USE DEF Goto, Fatal, RetryDirect, messageVars, exitVars, flagVars, queueVars, driverVars,
     serverVars, inputVars, signalVars
<1>4. LoopTop \/ ServiceBegin \/ RetryNext \/ EnterGuard \/ IssueRead \/ ReadIoReturns \/ GotPacket
        => pc' \notin Leaving
  BY SMTT(90) DEF LoopTop, ServiceBegin, RetryNext, EnterGuard, IssueRead, ReadIoReturns, GotPacket
<1>5. /\ GotAborted \/ GotPipe \/ DispatchRead \/ CheckDisconnected => pc' \notin Leaving
      /\ DispatchPayload \/ DispatchDisconnect \/ Stage \/ Shutdown => pc' \notin Leaving
      /\ CompleteStagedReturns => pc' \notin Leaving
  <2>1. GotAborted \/ GotPipe \/ DispatchRead \/ CheckDisconnected => pc' \notin Leaving
    BY SMTT(90) DEF GotAborted, GotPipe, DispatchRead, CheckDisconnected
  <2>2. DispatchPayload \/ DispatchDisconnect \/ Stage \/ Shutdown => pc' \notin Leaving
    BY SMTT(90) DEF DispatchPayload, DispatchDisconnect, Stage, Shutdown
  <2>3. CompleteStagedReturns => pc' \notin Leaving
    BY SMT DEF CompleteStagedReturns
  <2> QED
    BY <2>1, <2>2, <2>3
<1>6. ReadInputReturns \/ HostWriteReturns \/ WriteOutputReturns => pc' \notin Leaving \/ exitReason' = "error"
  <2>1. ReadInputReturns => pc' \notin Leaving \/ exitReason' = "error"
    BY SMTT(30) DEF ReadInputReturns
  <2>2. HostWriteReturns => pc' \notin Leaving \/ exitReason' = "error"
    BY SMT DEF HostWriteReturns
  <2>3. WriteOutputReturns => pc' \notin Leaving \/ exitReason' = "error"
    BY SMT DEF WriteOutputReturns
  <2> QED
    BY <2>1, <2>2, <2>3, Zenon
<1>7. JoinMonitors => pc \in Leaving /\ UNCHANGED <<pending, current, staged, exitReason, connected>>
  BY SMT DEF JoinMonitors
<1>8. InputStep \/ SignalStep \/ Environment \/ UNCHANGED vars
        => UNCHANGED <<pc, pending, current, staged, exitReason>>
  BY Zenon DEF InputStep, SignalStep, vars, Environment, ClientSends, PipeBreaks, HostTypes, HostCloses, Signal
<1>9. InputStep \/ SignalStep \/ Environment \/ UNCHANGED vars => (connected' => connected)
  <2>1. InputStep \/ SignalStep \/ Environment \/ UNCHANGED vars => connected' = connected \/ connected' = FALSE
    BY Zenon DEF InputStep, SignalStep, vars, Environment, ClientSends, PipeBreaks, HostTypes, HostCloses, Signal
  <2> QED
    BY <2>1, Zenon
<1>10. CASE UNCHANGED <<pc, pending, current, staged, exitReason>> /\ (connected' => connected)
  BY <1>2, <1>3, <1>10, Zenon
<1>11. CASE ServerStep
  BY <1>1, <1>2, <1>3, <1>4, <1>5, <1>6, <1>7, <1>11, Zenon DEF ServerStep
<1> QED
  BY <1>8, <1>9, <1>10, <1>11, Zenon DEF Next, Finished

\* The state in which run_loop starts, with or without an inherited packet.
LEMMA InitIInv == Init => IInv
<1> SUFFICES ASSUME Init PROVE IInv
  OBVIOUS
<1> USE RequestAssumption, BoundAssumption DEF Init
<1>1. DataTypes
  BY SMT DEF DataTypes, ServerPoints, InputPoints, SignalPoints
<1>2. FlagTypes
  BY Zenon DEF FlagTypes
<1>3. ControlInv /\ BudgetInv
  BY SMT DEF ControlInv, BudgetInv, EmptyHanded, Busy, InsideGuard, Retried
<1>4. Waiting = {} /\ Distinct(pending)
  BY SMT DEF Waiting, Elements, Distinct
<1>5. PlaceInv
  BY <1>4, SMT DEF PlaceInv, Held
<1>6. ReplyInv
  BY <1>4, SMT DEF ReplyInv, AnsweredOnce, NoRequestLost, Held, Submitted
<1>7. ExitInv
  BY SMT DEF ExitInv
<1> QED
  BY <1>1, <1>2, <1>3, <1>5, <1>6, <1>7 DEF IInv, TypeOK

\* The inductive invariant holds of every behaviour of the server loop.
THEOREM Invariance == Spec => []IInv
<1>1. IInv /\ [Next]_vars => IInv'
  BY DataTypesStep, FlagTypesStep, ControlStep, BudgetStep, PlaceStep, ReplyStep,
     ExitStep DEF IInv, TypeOK
<1> QED
  BY InitIInv, <1>1, PTL DEF Spec

\* Every variable of the loop keeps its type.
THEOREM TypeCorrect == Spec => []TypeOK
<1>1. IInv => TypeOK
  BY DEF IInv
<1> QED
  BY <1>1, Invariance, PTL

\* No message taken from the driver is lost while the driver is there, for any
\* number of clients' messages and any cancellations.
THEOREM NothingLost == Spec => []NoRequestLost
<1>1. IInv => NoRequestLost
  BY DEF IInv, ReplyInv
<1> QED
  BY <1>1, Invariance, PTL

\* No message is completed twice, although a staged completion may be submitted
\* by READ_IO and again by complete_io_direct.
THEOREM AtMostOneAnswer == Spec => []AnsweredOnce
<1>1. IInv => AnsweredOnce
  BY DEF IInv, ReplyInv
<1> QED
  BY <1>1, Invariance, PTL

\* The assertion of release_and_stage_completion never fails.
THEOREM StagingAssertHolds == Spec => []StagingSlotFree
<1>1. IInv => StagingSlotFree
  BY Zenon DEF IInv, ControlInv, StagingSlotFree, Busy
<1> QED
  BY <1>1, Invariance, PTL

\* With max_retries at least four, neither release_message_buffers nor
\* complete_io_direct gives up because of cancellations.
THEOREM RetriesSuffice == Spec => []RetriesNeverExhausted
<1>1. IInv => RetriesNeverExhausted
  BY BoundAssumption, SMT DEF IInv, TypeOK, DataTypes, BudgetInv, Retried, InputCancelsLeft,
     SignalCancelsLeft,
     RetriesNeverExhausted
<1> QED
  BY <1>1, Invariance, PTL

\* has_pending_replies says the truth whenever READ_IO is in flight.
THEOREM FlagAccurate == Spec => []PendingFlagAccurate
<1>1. IInv => PendingFlagAccurate
  BY Zenon DEF IInv, ControlInv, PendingFlagAccurate
<1> QED
  BY <1>1, Invariance, PTL

\* When run_loop returns without an error and the driver is still there, every
\* message it took has been answered.
THEOREM CleanExitAnswersAll == Spec => []NoClientHungOnCleanExit
<1>1. IInv => NoClientHungOnCleanExit
  BY SMT DEF IInv, TypeOK, DataTypes, ReplyInv, ExitInv, AnsweredOnce, NoRequestLost,
     NoClientHungOnCleanExit
<1> QED
  BY <1>1, Invariance, PTL

\* If no message changes phase and the driver's link stays, the lifecycle stutters.
LEMMA SamePhases ==
    ASSUME \A r \in Requests : PhaseOf(r)' = PhaseOf(r), connected' = connected
    PROVE  UNCHANGED Lifecycle!vars
BY Zenon DEF Lifecycle!vars

\* If one message changes phase, the lifecycle makes one move.
LEMMA OneMove ==
    ASSUME NEW q \in Requests, NEW before, NEW after,
           PhaseOf(q) = before, PhaseOf(q)' = after,
           \A r \in Requests \ {q} : PhaseOf(r)' = PhaseOf(r), connected' = connected
    PROVE  Lifecycle!Move(q, before, after)
<1>1. [r \in Requests |-> PhaseOf(r)]' = [[r \in Requests |-> PhaseOf(r)] EXCEPT ![q] = after]
  BY Zenon
<1> QED
  BY <1>1, Zenon DEF Lifecycle!Move

\* Every step of the server loop is a step of the request lifecycle, or leaves
\* it unchanged.
LEMMA LifecycleStep ==
    ASSUME IInv, PlaceInv', ReplyInv', [Next]_vars
    PROVE  [Lifecycle!Next]_(Lifecycle!vars)
<1> USE RequestAssumption
<1>0. /\ DataTypes /\ FlagTypes /\ ControlInv /\ PlaceInv /\ ReplyInv
      /\ Waiting \subseteq Requests /\ None \notin Waiting
  BY WaitingRequests DEF IInv, TypeOK
<1>1. CASE UNCHANGED <<sent, inbox, replies, connected>> /\ Held' = Held
  BY <1>1, SamePhases, Zenon DEF PhaseOf
<1>2. CASE Quiet
  <2>1. Held' = Held /\ UNCHANGED <<sent, inbox, replies>> /\ (connected' => connected)
    BY <1>2, Zenon DEF Quiet, Held, Waiting
  <2>2. connected' = connected \/ (connected /\ connected' = FALSE)
    BY <1>0, <1>2, FlagTypesStep, Zenon DEF Quiet, FlagTypes
  <2>3. CASE connected' = connected
    BY <1>1, <2>1, <2>3
  <2>4. CASE connected /\ connected' = FALSE
    <3>1. Lifecycle!Unlink
      BY <2>1, <2>4, Zenon DEF Lifecycle!Unlink, PhaseOf
    <3> QED
      BY <3>1, Zenon DEF Lifecycle!Next
  <2> QED
    BY <2>2, <2>3, <2>4, Zenon
<1>3. CASE RetryNext
  <2>1. Held' = Held
    BY <1>0, <1>3, RetryMoves, SMT DEF Held, Waiting
  <2> QED
    BY <1>0, <1>1, <1>3, <2>1, RetryMoves
<1>4. CASE CheckDisconnected
  <2>1. Held' = Held
    BY <1>0, <1>4, PendMoves, SMT DEF Held, Waiting
  <2> QED
    BY <1>0, <1>1, <1>4, <2>1, PendMoves
<1>5. CASE Stage
  <2>1. /\ Waiting' = Waiting /\ UNCHANGED <<sent, inbox, replies, connected>> /\ staged' = current
        /\ current' = None /\ staged = None
    BY <1>0, <1>5, SMTT(30) DEF Stage, Waiting, ControlInv, Busy, driverVars
  <2>2. Held' = Held
    BY <1>0, <2>1, SMT DEF Held
  <2> QED
    BY <1>1, <2>1, <2>2
<1>6. CASE IssueRead
  <2>1. /\ Held' = Held /\ pc \notin Submitted
        /\ UNCHANGED <<staged, sent, inbox, connected>>
    BY <1>6, SMT DEF IssueRead, Goto, Submitted, Waiting, Held, messageVars
  <2>2. replies' = IF connected /\ staged # None THEN [replies EXCEPT ![staged] = @ + 1] ELSE replies
    BY <1>6 DEF IssueRead, Accept
  <2>3. CASE connected /\ staged # None
    <3>1. staged \in Requests /\ staged \in Held /\ staged \in sent \ inbox /\ replies[staged] = 0
      BY <1>0, <2>1, <2>3, SMTT(90) DEF DataTypes, PlaceInv, ReplyInv, Held
    <3>2. replies'[staged] = 1 /\ \A r \in Requests \ {staged} : replies'[r] = replies[r]
      BY <1>0, <2>2, <2>3, <3>1, SMT DEF DataTypes
    <3>3. PhaseOf(staged) = "held" /\ PhaseOf(staged)' = "answered"
      BY <2>1, <3>1, <3>2, SMTT(90) DEF PhaseOf
    <3>4. \A r \in Requests \ {staged} : PhaseOf(r)' = PhaseOf(r)
      BY <2>1, <3>2, Zenon DEF PhaseOf
    <3>5. Lifecycle!Answer(staged)
      BY <2>1, <2>3, <3>1, <3>3, <3>4, OneMove, Zenon DEF Lifecycle!Answer
    <3> QED
      BY <3>1, <3>5, Zenon DEF Lifecycle!Next
  <2>4. CASE ~(connected /\ staged # None)
    BY <1>1, <2>1, <2>2, <2>4, Zenon
  <2> QED
    BY <2>3, <2>4
<1>7. CASE ReadIoReturns
  <2>1. Waiting' = Waiting /\ UNCHANGED <<staged, sent, replies, connected>> /\ current = None
    BY <1>0, <1>7, SMTT(30) DEF ReadIoReturns, Waiting, ControlInv, EmptyHanded
  <2>2. CASE UNCHANGED <<current, inbox>>
    BY <1>1, <2>1, <2>2, Zenon DEF Held
  <2>3. CASE connected /\ current' \in inbox /\ inbox' = inbox \ {current'}
    <3>1. current' \in Requests /\ current' \in sent /\ replies[current'] = 0
      BY <1>0, <2>3, Zenon DEF DataTypes, ReplyInv
    <3>2. Held' = Held \cup {current'}
      BY <2>1, <3>1, SMT DEF Held
    <3>3. PhaseOf(current') = "queued"
      BY <2>3, <3>1, SMT DEF PhaseOf
    <3>4. \A r \in Requests : /\ r = current' => PhaseOf(r)' = "held"
                              /\ r # current' => PhaseOf(r)' = PhaseOf(r)
      BY <2>1, <2>3, <3>1, <3>2, SMTT(90) DEF PhaseOf
    <3>5. PICK q \in Requests : q = current'
      BY <3>1
    <3>6. Lifecycle!Take(q)
      BY <2>1, <2>3, <3>3, <3>4, <3>5, OneMove, Zenon DEF Lifecycle!Take
    <3> QED
      BY <3>6, Zenon DEF Lifecycle!Next
  <2> QED
    BY <1>7, <2>2, <2>3, Zenon DEF ReadIoReturns
<1>8. CASE GotPacket \/ GotAborted \/ CompleteStagedReturns
  <2>1. /\ Waiting' = Waiting /\ UNCHANGED <<current, sent, inbox, connected>> /\ staged' \in {staged, None}
    BY <1>8, SMTT(90) DEF GotPacket, GotAborted, CompleteStagedReturns, RetryDirect, Waiting,
       messageVars, driverVars
  <2>2. UNCHANGED replies
    BY <1>0, <1>8, SMTT(90) DEF GotPacket, GotAborted, CompleteStagedReturns, RetryDirect, Accept,
       ControlInv,
       messageVars, driverVars
  <2>3. CASE staged' = staged
    BY <1>1, <2>1, <2>2, <2>3, Zenon DEF Held
  <2>4. CASE staged # None /\ staged' = None
    <3>1. staged \in Requests /\ staged \in sent \ inbox /\ staged \in Held /\ Held' = Held \ {staged}
      BY <1>0, <2>1, <2>4, SMTT(30) DEF DataTypes, PlaceInv, Held
    <3>2. connected => replies[staged] > 0
      <4>1. pc \in {"gotPacket", "gotAborted", "completeStaged"}
        BY <1>8, Zenon DEF GotPacket, GotAborted, CompleteStagedReturns
      <4>2. connected => pc \in Submitted
        BY <1>0, <2>4, <4>1, SMT DEF ControlInv, Submitted
      <4>3. connected => replies[staged] = 1
        BY <1>0, <2>4, <4>2, Zenon DEF ReplyInv
      <4> QED
        BY <4>3, SMT
    <3>3. CASE replies[staged] > 0
      <4>1. \A r \in Requests : PhaseOf(r)' = PhaseOf(r)
        BY <2>1, <2>2, <3>1, <3>3, SMTT(90) DEF PhaseOf
      <4> QED
        BY <2>1, <4>1, SamePhases
    <3>4. CASE ~(replies[staged] > 0)
      <4>1. \A r \in Requests : /\ r = staged => PhaseOf(r) = "held" /\ PhaseOf(r)' = "dropped"
                                /\ r # staged => PhaseOf(r)' = PhaseOf(r)
        BY <2>1, <2>2, <3>1, <3>4, SMTT(30) DEF PhaseOf
      <4>2. Lifecycle!Drop(staged)
        BY <2>1, <3>1, <3>2, <3>4, <4>1, OneMove, Zenon DEF Lifecycle!Drop
      <4> QED
        BY <3>1, <4>2, Zenon DEF Lifecycle!Next
    <3> QED
      BY <3>3, <3>4
  <2> QED
    BY <2>1, <2>3, <2>4
<1>9. CASE FailPendingReturns
  <2>1. UNCHANGED <<current, staged, sent, inbox, connected>> /\ staged = None /\ current = None
    BY <1>0, <1>9, FailMoves
  <2>2. CASE UNCHANGED <<pending, replies>>
    BY <1>1, <2>1, <2>2, Zenon DEF Held, Waiting
  <2>3. ASSUME NEW q \in Requests, connected, replies' = [replies EXCEPT ![q] = @ + 1],
               Waiting = {q} \cup Waiting', q \notin Waiting'
        PROVE  [Lifecycle!Next]_(Lifecycle!vars)
    <3>1. q \in sent \ inbox /\ q \in Held /\ replies[q] = 0 /\ Held' = Held \ {q}
      BY <1>0, <2>1, <2>3, SMTT(30) DEF PlaceInv, ReplyInv, Held
    <3>2. replies'[q] = 1 /\ \A r \in Requests \ {q} : replies'[r] = replies[r]
      BY <1>0, <2>3, <3>1, SMTT(30) DEF DataTypes
    <3>3. PhaseOf(q) = "held" /\ PhaseOf(q)' = "answered" /\ \A r \in Requests \ {q} : PhaseOf(r)' = PhaseOf(r)
      BY <2>1, <3>1, <3>2, SMTT(90) DEF PhaseOf
    <3>4. Lifecycle!Answer(q)
      BY <2>1, <2>3, <3>3, OneMove, Zenon DEF Lifecycle!Answer
    <3> QED
      BY <3>4, Zenon DEF Lifecycle!Next
  <2> QED
    BY <1>0, <1>9, <2>2, <2>3, FailMoves
<1>10. CASE ClientSends
  <2>1. Held' = Held /\ UNCHANGED <<replies, connected>> /\ connected
    BY <1>10, Zenon DEF ClientSends, Waiting, Held, serverVars, messageVars
  <2>2. PICK q \in Requests \ sent : sent' = sent \cup {q} /\ inbox' = inbox \cup {q}
    BY <1>10 DEF ClientSends
  <2>3. replies[q] = 0
    BY <1>0, <2>2, Zenon DEF ReplyInv
  <2>4. PhaseOf(q) = "idle" /\ PhaseOf(q)' = "queued" /\ \A r \in Requests \ {q} : PhaseOf(r)' = PhaseOf(r)
    BY <2>1, <2>2, <2>3, SMTT(90) DEF PhaseOf
  <2>5. Lifecycle!Submit(q)
    BY <2>1, <2>4, OneMove, Zenon DEF Lifecycle!Submit
  <2> QED
    BY <2>5, Zenon DEF Lifecycle!Next
<1> QED
  BY <1>2, <1>3, <1>4, <1>5, <1>6, <1>7, <1>8, <1>9, <1>10, QuietSteps

\* The server loop implements the request lifecycle.
THEOREM Refinement == Spec => ImplementsLifecycle
<1>1. Init => Lifecycle!Init
  <2> SUFFICES ASSUME Init PROVE Lifecycle!Init
    OBVIOUS
  <2>1. Waiting = {}
    BY SMT DEF Init, Waiting, Elements
  <2>2. \A r \in Requests : PhaseOf(r) \in {"idle", "held"}
    BY <2>1, RequestAssumption, SMT DEF Init, PhaseOf, Held
  <2> QED
    BY <2>2, Zenon DEF Init, Lifecycle!Init
<1>2. IInv /\ IInv' /\ [Next]_vars => [Lifecycle!Next]_(Lifecycle!vars)
  BY LifecycleStep DEF IInv
<1> QED
  BY <1>1, <1>2, Invariance, PTL DEF Spec, ImplementsLifecycle, Lifecycle!Spec
=============================================================================
