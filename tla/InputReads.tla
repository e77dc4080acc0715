------------------------------ MODULE InputReads ------------------------------
(***************************************************************************)
(* Reading the console's input (condrv_server.hpp): ReadConsole, cooked    *)
(* and raw, GetConsoleInput, RAW_READ, and the calls that flush the input  *)
(* or add to it, on one input handle.  The input monitor appends to the    *)
(* queue whatever part of the terminal's writes has arrived, while the     *)
(* server takes tokens from it; a read that finds nothing to return is     *)
(* left reply-pending and dispatched again later (module ServerLoop has    *)
(* when).                                                                  *)
(*                                                                         *)
(* `typed' and `received' are what has been put into the queue and what    *)
(* the clients have got since the last flush, `entered' the lines that     *)
(* were completed; the program keeps none of them.                         *)
(***************************************************************************)
EXTENDS LineEditor

CONSTANTS
    None,        \* no call, or no request
    Workloads,   \* the input modes, what is typed and what is called
    Limit        \* the size of PendingInputBytes and of the windows (64)

VARIABLES
    work,          \* the workload: it never changes
    budget,        \* the writes that may still come
    wire,          \* bytes on their way from the terminal to the input monitor
    queue,         \* InputQueue
    disconnected,  \* the input has ended
    handle,        \* the ObjectHandle
    screen,        \* the echo: cells and column, since the line began
    call,          \* the request in dispatch_message with its locals
    waiting,       \* the request that is reply-pending
    status,        \* the status of the last reply
    signals,       \* how many CTRL_C_EVENTs were forwarded
    typed, received, entered

vars == <<work, budget, wire, queue, disconnected, handle, screen, call, waiting, status,
          signals, typed, received, entered>>

Request(api, unicode, size, ctrlZ, peek, wait) ==
    [api |-> api, unicode |-> unicode, size |-> size, ctrlZ |-> ctrlZ, peek |-> peek, wait |-> wait]

EmptyHandle ==
    [prefix |-> <<>>, unit |-> <<>>, pending |-> <<>>, line |-> <<>>, cursor |-> 0, insert |-> TRUE]

EmptyScreen == [cells |-> <<>>, col |-> 0]

Init ==
    /\ work \in Workloads
    /\ budget = work.budget
    /\ wire = <<>> /\ queue = <<>> /\ disconnected = FALSE
    /\ handle = EmptyHandle /\ screen = EmptyScreen
    /\ call = None /\ waiting = None /\ status = "none" /\ signals = 0
    /\ typed = <<>> /\ received = <<>> /\ entered = <<>>

-----------------------------------------------------------------------------
(* The terminal and the input monitor.                                     *)

Type ==
    /\ wire = <<>> /\ budget > 0 /\ ~disconnected
    /\ work.paced => queue = <<>>
    /\ wire' \in work.messages
    /\ budget' = budget - 1
    /\ UNCHANGED <<work, queue, disconnected, handle, screen, call, waiting, status, signals,
                   typed, received, entered>>

Push ==
    \E n \in IF work.whole THEN {Len(wire)} \ {0} ELSE 1 .. Len(wire) :
        /\ queue' = queue \o First(wire, n)
        /\ typed' = IF work.line THEN typed ELSE typed \o First(wire, n)
        /\ wire' = Skip(wire, n)
        /\ UNCHANGED <<work, budget, disconnected, handle, screen, call, waiting, status, signals,
                       received, entered>>

mark_disconnected ==
    /\ wire = <<>> /\ ~disconnected
    /\ disconnected' = TRUE
    /\ UNCHANGED <<work, budget, wire, queue, handle, screen, call, waiting, status, signals,
                   typed, received, entered>>

-----------------------------------------------------------------------------
(* Helpers of the handlers.                                                *)

Stream == handle.prefix \o queue

\* What a handler looks at: the prefix and as much of the queue as the window has room for.
Window == First(Stream, Limit)

\* The bytes of the window that are still in the queue.
Peeked == Len(Window) - Len(handle.prefix)

\* consume_from_stream: the prefix first, then the queue.
PrefixWithout(n) == Skip(handle.prefix, n)

QueueWithout(n) == Skip(queue, IF n < Len(handle.prefix) THEN 0 ELSE n - Len(handle.prefix))

Consumed(n) == [handle EXCEPT !.prefix = PrefixWithout(n)]

\* Variant: the bytes are kept in the prefix and in the queue.
DrainKeeps(n) ==
    /\ handle' = [handle EXCEPT !.prefix = @ \o First(queue, n)]
    /\ queue' = queue

\* Variant: the size of the prefix is not looked at.
DrainUnbounded(n) ==
    /\ handle' = [handle EXCEPT !.prefix = @ \o First(queue, n)]
    /\ queue' = Skip(queue, n)

\* The beginning of a token that is not complete moves to the prefix, if it fits.
Drain(n) ==
    IF n # 0 /\ Len(handle.prefix) + n <= Limit
      THEN /\ handle' = [handle EXCEPT !.prefix = @ \o First(queue, n)]
           /\ queue' = Skip(queue, n)
      ELSE UNCHANGED <<handle, queue>>

\* The Ctrl+C bytes at the front of the queue, in processed input.
CtrlCsInFront ==
    IF ~work.processed THEN 0
    ELSE CHOOSE n \in 0 .. Len(queue) :
            /\ \A i \in 1 .. n : queue[i] = "^C"
            /\ n = Len(queue) \/ queue[n + 1] # "^C"

IsCtrlBreak(key) == key.vk = "CANCEL" /\ key.ctrl

IsCtrlC(key) == key.vk = "C" /\ key.ctrl

Reply(s, data) ==
    /\ call' = None /\ status' = s
    /\ received' = received \o data
    /\ UNCHANGED waiting

Pend ==
    /\ call' = None /\ waiting' = call.request
    /\ UNCHANGED <<status, received>>

FailOrPend == IF disconnected THEN Reply("unsuccessful", <<>>) ELSE Pend

\* The handler goes on: `got' is what it has to return so far.
GoOn(got) ==
    /\ call' = [call EXCEPT !.got = got]
    /\ UNCHANGED <<waiting, status, received>>

\* Nothing that came before a flush is heard of again.
Forget == typed' = <<>> /\ received' = <<>> /\ entered' = <<>> /\ signals' = 0

\* The flush of a Ctrl+Break; the cursor and the insert mode stay.
Flushed == [handle EXCEPT !.prefix = <<>>, !.unit = <<>>, !.pending = <<>>, !.line = <<>>]

Alert(h) ==
    /\ handle' = h /\ queue' = <<>> /\ screen' = EmptyScreen
    /\ call' = None /\ status' = "alerted"
    /\ Forget
    /\ UNCHANGED waiting

Reading(api, at) == call # None /\ call.request.api = api /\ call.at = at

-----------------------------------------------------------------------------
(* Requests.                                                               *)

Dispatch(r) ==
    call' = [request |-> r, at |-> "begin", got |-> <<>>, batch |-> <<>>, used |-> 0, ctrlCs |-> 0,
             broke |-> FALSE]

\* One request waits at a time; calls that cannot wait are served meanwhile.
Start ==
    /\ call = None
    /\ \E r \in work.requests : (r.wait => waiting = None) /\ Dispatch(r)
    /\ UNCHANGED <<work, budget, wire, queue, disconnected, handle, screen, waiting, status, signals,
                   typed, received, entered>>

Retry ==
    /\ call = None /\ waiting # None
    /\ Dispatch(waiting) /\ waiting' = None
    /\ UNCHANGED <<work, budget, wire, queue, disconnected, handle, screen, status, signals, typed,
                   received, entered>>

\* FlushInputBuffer and RAW_FLUSH.
FlushInputBuffer ==
    /\ call = None /\ work.flush
    /\ queue' = <<>> /\ handle' = EmptyHandle /\ screen' = EmptyScreen
    /\ Forget
    /\ UNCHANGED <<work, budget, wire, disconnected, call, waiting, status>>

\* WriteConsoleInput encodes the units one by one: half a pair becomes a replacement.
Encoded(units) ==
    [i \in DOMAIN units |-> IF units[i] \in {"high", "low"} THEN Replacement ELSE units[i]]

WriteConsoleInput(units, append) ==
    /\ call = None /\ budget > 0
    /\ budget' = budget - 1
    /\ queue' = (IF append THEN queue ELSE <<>>) \o Encoded(units)
    /\ handle' = IF append THEN handle ELSE EmptyHandle
    /\ screen' = IF append THEN screen ELSE EmptyScreen
    /\ typed' = CASE work.line -> typed
                  [] ~work.line /\ append -> typed \o Encoded(units)
                  [] OTHER -> Encoded(units)
    /\ received' = IF append THEN received ELSE <<>>
    /\ entered' = IF append THEN entered ELSE <<>>
    /\ signals' = IF append THEN signals ELSE 0
    /\ UNCHANGED <<work, wire, disconnected, call, waiting, status>>

-----------------------------------------------------------------------------
(* Raw reads.                                                              *)

\* Variant: the unit that is held back is forgotten.
NothingToReadInQueue(r, q) == q = <<>> /\ handle.prefix = <<>>

\* The queue is q without the Ctrl+C bytes.
NothingToRead(r, q) ==
    q = <<>> /\ handle.prefix = <<>> /\ ~(r.unicode /\ handle.unit # <<>>)

ReadRaw ==
    /\ Reading("ReadConsole", "begin") /\ ~work.line
    /\ LET r == call.request
           q == Skip(queue, CtrlCsInFront)
           nothing == NothingToRead(r, q)
           eof == r.ctrlZ /\ First(q, 1) = <<"^Z">>
       IN  /\ signals' = signals + CtrlCsInFront
           /\ \/ /\ nothing
                 /\ queue' = q
                 /\ FailOrPend
                 /\ UNCHANGED handle
              \/ /\ eof
                 /\ queue' = Tail(q)
                 /\ Reply("success", <<>>)
                 /\ UNCHANGED handle
              \/ /\ ~nothing /\ ~eof
                 /\ queue' = q
                 /\ handle' = IF r.unicode THEN [handle EXCEPT !.unit = <<>>] ELSE handle
                 /\ call' = [call EXCEPT !.at = "loop", !.got = IF r.unicode THEN handle.unit ELSE <<>>]
                 /\ UNCHANGED <<waiting, status, received>>
    /\ UNCHANGED <<work, budget, wire, disconnected, screen, typed, entered>>

RawRead ==
    /\ Reading("RawRead", "begin")
    /\ call' = [call EXCEPT !.at = "loop"]
    /\ UNCHANGED <<work, budget, wire, queue, disconnected, handle, screen, waiting, status, signals,
                   typed, received, entered>>

Room == call.request.size - Len(call.got)

\* A key with a character goes down.
Typing(key) == key.down /\ key.char # Nul

Take(n) == handle' = Consumed(n) /\ queue' = QueueWithout(n)

\* What a raw Unicode read does with a token; a repeated key is cut at the end of the buffer.
TakeUnits(t) ==
    LET units == IF t.kind = "text" THEN t.value ELSE Times(Repeat(t.value), t.value.char)
    IN  /\ queue' = QueueWithout(t.size)
        /\ UNCHANGED signals
        /\ IF t.kind = "text" /\ Len(units) > Room
             THEN /\ handle' = [Consumed(t.size) EXCEPT !.unit = Skip(units, Room)]
                  /\ Reply("success", call.got \o First(units, Room))
             ELSE /\ handle' = Consumed(t.size)
                  /\ GoOn(call.got \o First(units, Room))

\* Ctrl+C, as a byte or as a key, is forwarded.
IsInterrupt(t) ==
    /\ work.processed
    /\ \/ t.kind = "text" /\ t.value = <<"^C">>
       \/ t.kind = "key" /\ t.value.down /\ IsCtrlC(t.value)

IsBreak(t) == work.processed /\ t.kind = "key" /\ t.value.down /\ IsCtrlBreak(t.value)

HasText(t) ==
    /\ ~IsInterrupt(t) /\ ~IsBreak(t)
    /\ t.kind = "text" \/ (t.kind = "key" /\ Typing(t.value))

ReadUnicode ==
    /\ Reading("ReadConsole", "loop") /\ ~work.line /\ call.request.unicode
    /\ \E t \in {decode_one_input_token(Window)} :
       LET ended == Room = 0 \/ Stream = <<>> \/ t.kind = "more"
       IN  \/ /\ ended /\ call.got # <<>>
              /\ Reply("success", call.got)
              /\ UNCHANGED <<queue, handle, screen, signals, typed, entered>>
           \/ /\ ended /\ call.got = <<>>
              /\ Drain(Peeked)
              /\ FailOrPend
              /\ UNCHANGED <<screen, signals, typed, entered>>
           \/ /\ ~ended /\ IsBreak(t)
              /\ Alert(Flushed)
           \/ /\ ~ended /\ HasText(t)
              /\ TakeUnits(t)
              /\ UNCHANGED <<screen, typed, entered>>
           \/ /\ ~ended /\ ~IsBreak(t) /\ ~HasText(t)
              /\ Take(t.size)
              /\ signals' = signals + IF IsInterrupt(t) THEN 1 ELSE 0
              /\ GoOn(call.got)
              /\ UNCHANGED <<screen, typed, entered>>
    /\ UNCHANGED <<work, budget, wire, disconnected>>

\* Raw reads of bytes: sequences are taken out, other bytes are passed on.  A sequence that
\* fills the window is not waited for.
AnsiToken(window) ==
    LET vt == try_decode_vt(window)
    IN  IF vt.kind = "none" \/ (vt.kind = "more" /\ Len(window) = Limit)
          THEN Text(1, First(window, 1))
          ELSE vt

\* The code page has two bytes for "wide".
Encode(char) == IF char = "wide" THEN <<"w1", "w2">> ELSE <<char>>

AnsiBytes(t) == IF t.kind = "text" THEN t.value ELSE Encode(t.value.char)

\* Ctrl+Z at the start of a RAW_READ is the end of the file.
IsEnd(t) ==
    call.request.api = "RawRead" /\ call.got = <<>> /\ HasText(t) /\ AnsiBytes(t) = <<"^Z">>

\* The call is over: the buffer is full, the key at the front does not fit, or there is nothing.
AnsiEnded(t) ==
    \/ Room = 0 \/ Stream = <<>> \/ t.kind = "more"
    \/ (HasText(t) /\ ~IsEnd(t) /\ Len(AnsiBytes(t)) > Room)

ReturnAnsi(t) ==
    /\ AnsiEnded(t) /\ (call.got # <<>> \/ (Stream # <<>> /\ t.kind # "more"))
    /\ Reply("success", call.got)
    /\ UNCHANGED <<queue, handle, screen, signals, typed, entered>>

WaitAnsi(t) ==
    /\ AnsiEnded(t) /\ call.got = <<>> /\ (Stream = <<>> \/ t.kind = "more")
    /\ Drain(Peeked)
    /\ FailOrPend
    /\ UNCHANGED <<screen, signals, typed, entered>>

EndAnsi(t) ==
    /\ ~AnsiEnded(t) /\ IsEnd(t)
    /\ Take(t.size)
    /\ Reply("success", <<>>)
    /\ UNCHANGED <<screen, signals, typed, entered>>

TakeAnsi(t) ==
    /\ ~AnsiEnded(t) /\ ~IsBreak(t) /\ ~IsEnd(t)
    /\ Take(t.size)
    /\ signals' = signals + IF IsInterrupt(t) THEN 1 ELSE 0
    /\ GoOn(call.got \o IF HasText(t) THEN AnsiBytes(t) ELSE <<>>)
    /\ UNCHANGED <<screen, typed, entered>>

ReadAnsi ==
    /\ Reading("ReadConsole", "loop") /\ ~work.line /\ ~call.request.unicode
    /\ \E t \in {AnsiToken(Window)} :
        \/ ReturnAnsi(t) \/ WaitAnsi(t) \/ TakeAnsi(t)
        \/ ~AnsiEnded(t) /\ IsBreak(t) /\ Alert(Flushed)
    /\ UNCHANGED <<work, budget, wire, disconnected>>

RawReadToken ==
    /\ Reading("RawRead", "loop")
    /\ \E t \in {AnsiToken(Window)} :
        \/ ReturnAnsi(t) \/ WaitAnsi(t) \/ TakeAnsi(t) \/ EndAnsi(t)
        \/ ~AnsiEnded(t) /\ IsBreak(t) /\ Alert(Flushed)
    /\ UNCHANGED <<work, budget, wire, disconnected>>

-----------------------------------------------------------------------------
(* GetConsoleInput: it decodes a copy of the stream and then removes what  *)
(* it has used.  A record is the unit it carries; one that carries none is *)
(* "key".                                                                  *)

Record(key) == IF Typing(key) THEN key.char ELSE "key"

GetConsoleInput ==
    /\ Reading("GetConsoleInput", "begin")
    /\ queue' = Skip(queue, CtrlCsInFront)
    /\ signals' = signals + CtrlCsInFront
    /\ call' = [call EXCEPT !.at = "peek"]
    /\ UNCHANGED <<work, budget, wire, disconnected, handle, screen, waiting, status, typed, received,
                   entered>>

\* Variant: a peek takes the unit, too.
ClaimedByPeek(r) == [handle EXCEPT !.unit = <<>>]

\* The unit that is held back becomes the first record.
Claimed(r) == IF r.peek THEN handle ELSE [handle EXCEPT !.unit = <<>>]

PeekBatch ==
    /\ Reading("GetConsoleInput", "peek")
    /\ LET r == call.request
       IN  IF r.wait /\ handle.unit = <<>> /\ Stream = <<>>
             THEN FailOrPend /\ UNCHANGED handle
             ELSE /\ call' = [call EXCEPT !.at = "scan", !.got = handle.unit, !.used = 0,
                                          !.ctrlCs = 0, !.broke = FALSE,
                                          !.batch = handle.prefix \o First(queue, r.size * Limit)]
                  /\ handle' = Claimed(r)
                  /\ UNCHANGED <<waiting, status, received>>
    /\ UNCHANGED <<work, budget, wire, queue, disconnected, screen, signals, typed, entered>>

\* What a token adds to the records.
Records(t) ==
    CASE t.kind = "text" -> t.value
      [] t.kind = "key" -> <<Record(t.value)>>
      [] OTHER -> <<>>

\* In processed input the control keys are no records, whether they go down or up.
IsControlKey(t) ==
    work.processed /\ t.kind = "key" /\ (IsCtrlBreak(t.value) \/ IsCtrlC(t.value))

ScanBatch ==
    /\ Reading("GetConsoleInput", "scan")
    /\ \E t \in {decode_one_input_token(Skip(call.batch, call.used))} :
       LET records == IF IsInterrupt(t) \/ IsControlKey(t) THEN <<>> ELSE Records(t)
           next == [call EXCEPT !.used = @ + t.size, !.got = @ \o First(records, Room)]
       IN  \/ /\ Room = 0 \/ call.used = Len(call.batch) \/ t.kind = "more"
              /\ call' = [call EXCEPT !.at = "settle"]
              /\ UNCHANGED handle
           \/ /\ Room # 0 /\ call.used # Len(call.batch) /\ t.kind # "more"
              /\ call' = CASE IsBreak(t) -> [next EXCEPT !.at = "settle", !.broke = TRUE, !.got = <<>>]
                           [] IsInterrupt(t) -> [next EXCEPT !.ctrlCs = @ + 1]
                           [] Len(records) > Room ->
                                [next EXCEPT !.at = "settle",
                                             !.used = IF call.request.peek THEN call.used ELSE @]
                           [] OTHER -> next
              /\ handle' = IF Len(records) > Room /\ ~call.request.peek
                             THEN [handle EXCEPT !.unit = Skip(records, Room)]
                             ELSE handle
    /\ UNCHANGED <<work, budget, wire, queue, disconnected, screen, waiting, status, signals, typed,
                   received, entered>>

Units(records) == SelectSeq(records, LAMBDA u : u # "key")

\* The call may wait, and has no record to return.
Hungry(r) == ~r.peek /\ r.wait /\ call.got = <<>>

\* Variant: a peek forwards what it leaves in the stream.
ForwardedByPeek(r) == call.ctrlCs

\* The Ctrl+C events of the batch.
Forwarded(r) == IF r.peek THEN 0 ELSE call.ctrlCs

SettleBatch ==
    /\ Reading("GetConsoleInput", "settle")
    /\ LET r == call.request
           hungry == Hungry(r)
           h == IF r.peek THEN handle ELSE Consumed(call.used)
           q == IF r.peek THEN queue ELSE QueueWithout(call.used)
       IN  \/ /\ hungry /\ call.used = 0
              /\ IF disconnected
                   THEN Reply("unsuccessful", <<>>) /\ UNCHANGED <<queue, handle>>
                   ELSE Drain(Len(call.batch) - Len(handle.prefix)) /\ Pend
              /\ UNCHANGED <<screen, signals, typed, entered>>
           \/ /\ call.broke
              /\ queue' = <<>> /\ handle' = Flushed /\ screen' = EmptyScreen
              /\ call' = None
              /\ Forget
              /\ IF hungry /\ ~disconnected
                   THEN waiting' = r /\ UNCHANGED status
                   ELSE status' = (IF hungry THEN "unsuccessful" ELSE "success") /\ UNCHANGED waiting
           \/ /\ ~call.broke /\ ~(hungry /\ call.used = 0)
              /\ handle' = h /\ queue' = q
              /\ signals' = signals + Forwarded(r)
              /\ CASE ~hungry -> Reply("success", IF r.peek THEN <<>> ELSE Units(call.got))
                   [] hungry /\ disconnected -> Reply("unsuccessful", <<>>)
                   [] hungry /\ ~disconnected /\ h.prefix \o q \o h.unit = <<>> -> Pend
                   [] OTHER -> /\ call' = [call EXCEPT !.at = "peek"]
                               /\ UNCHANGED <<waiting, status, received>>
              /\ UNCHANGED <<screen, typed, entered>>
    /\ UNCHANGED <<work, budget, wire, disconnected>>

-----------------------------------------------------------------------------
(* Cooked reads.                                                           *)

\* The bytes that WideCharToMultiByte has for the first n units.
Required(units, n) ==
    LET width(i) == CASE i < n /\ PairAt(units, i) -> 4
                      [] i > 1 /\ PairAt(units, i - 1) -> 0
                      [] units[i] \in {"high", "low", Replacement} -> 3
                      [] OTHER -> 1
    IN  FoldLeft(LAMBDA sum, i : sum + width(i), 0, [i \in 1 .. n |-> i])

\* The binary search for the number of units that fit; no units is not a valid conversion.
Fitting(units, capacity) ==
    LET n == Len(units)
        search[low \in 0 .. n + 1, high \in -1 .. n] ==
            LET mid == low + ((high - low) \div 2)
            IN  CASE low > high -> IF low = 0 THEN 0 ELSE low - 1
                  [] low <= high /\ Required(units, mid) \in 1 .. capacity -> search[mid + 1, high]
                  [] OTHER -> search[low, mid - 1]
        best == search[0, n]
    IN  IF best \in 1 .. n - 1 /\ units[best] = "high" THEN best - 1 ELSE best

Deliverable(units, r) ==
    IF r.unicode THEN IF r.size < Len(units) THEN r.size ELSE Len(units)
    ELSE Fitting(units, r.size)

\* Variant: what does not fit is lost.
deliver_pending_once(h) ==
    LET n == Deliverable(h.pending, call.request)
    IN  /\ handle' = [h EXCEPT !.pending = IF n = 0 THEN @ ELSE <<>>]
        /\ Reply(IF n = 0 THEN "too_small" ELSE "success", First(h.pending, n))

\* The handle `h' once deliver_pending has copied what fits, and the reply.
deliver_pending(h) ==
    LET n == Deliverable(h.pending, call.request)
    IN  /\ handle' = [h EXCEPT !.pending = Skip(@, n)]
        /\ Reply(IF n = 0 THEN "too_small" ELSE "success", First(h.pending, n))

ReadLine ==
    /\ Reading("ReadConsole", "begin") /\ work.line
    /\ LET h == [handle EXCEPT !.cursor = normalize_cursor(handle.line, @)]
       IN  IF h.pending # <<>>
             THEN deliver_pending(h)
             ELSE /\ handle' = h
                  /\ call' = [call EXCEPT !.at = "loop"]
                  /\ UNCHANGED <<waiting, status, received>>
    /\ UNCHANGED <<work, budget, wire, queue, disconnected, screen, signals, typed, entered>>

Edited == Editor(handle.line, handle.cursor, handle.insert, screen.cells, screen.col)

\* The editor goes on with `e', and the token of n bytes is gone.
Edit(n, e) ==
    /\ handle' = [Consumed(n) EXCEPT !.line = e.line, !.cursor = e.cursor, !.insert = e.insert]
    /\ queue' = QueueWithout(n)
    /\ screen' = [cells |-> e.cells, col |-> e.col]
    /\ GoOn(<<>>)
    /\ UNCHANGED <<signals, entered>>

\* A line feed that is there already belongs to the carriage return before it.
LineFeedBehind(n) ==
    LET t == decode_one_input_token(First(Skip(Stream, n), Limit))
    IN  IF \/ t.kind = "text" /\ t.value = <<"LF">>
           \/ t.kind = "key" /\ t.value.down /\ t.value.char = "LF"
          THEN t.size
          ELSE 0

Suffix == IF work.processed THEN <<"CR", "LF">> ELSE <<"CR">>

\* The line is echoed to its end, recorded in the command history and delivered.
Enter(unit, size) ==
    LET n == size + IF unit = "CR" THEN LineFeedBehind(size) ELSE 0
        whole == handle.line \o Suffix
    IN  /\ queue' = QueueWithout(n)
        /\ screen' = EmptyScreen
        /\ entered' = entered \o whole
        /\ deliver_pending([Consumed(n) EXCEPT !.pending = whole, !.line = <<>>, !.cursor = 0])
        /\ UNCHANGED signals

TypedUnits(t) ==
    IF t.kind = "text" THEN t.value ELSE Times(Repeat(t.value), t.value.char)

IsEditKey(t) == t.kind = "key" /\ t.value.down /\ t.value.vk \in EditKeys

ReadLineToken ==
    /\ Reading("ReadConsole", "loop") /\ work.line
    /\ \E t \in {decode_one_input_token(Window)} :
       LET ended == Stream = <<>> \/ t.kind = "more"
           units == TypedUnits(t)
           char == ~ended /\ HasText(t) /\ ~IsEditKey(t)
           eof == char /\ call.request.ctrlZ /\ handle.line = <<>> /\ units[1] = "^Z"
           enter == char /\ units[1] \in {"CR", "LF"}
       IN  \/ /\ ended /\ ~disconnected
              /\ Drain(Peeked)
              /\ Pend
              /\ UNCHANGED <<screen, signals, entered>>
           \/ /\ ended /\ disconnected
              /\ queue' = Skip(queue, Peeked)
              /\ handle' = [handle EXCEPT !.prefix = <<>>, !.line = <<>>, !.cursor = 0]
              /\ screen' = EmptyScreen
              /\ Reply("unsuccessful", <<>>)
              /\ UNCHANGED <<signals, entered>>
           \/ /\ ~ended /\ IsBreak(t)
              /\ Alert(EmptyHandle)
           \/ /\ ~ended /\ IsInterrupt(t)
              /\ Take(t.size)
              /\ signals' = signals + 1
              /\ Reply("alerted", <<>>)
              /\ UNCHANGED <<screen, entered>>
           \/ /\ eof
              /\ Take(t.size)
              /\ Reply("success", <<>>)
              /\ UNCHANGED <<screen, signals, entered>>
           \/ /\ enter
              /\ Enter(units[1], t.size)
           \/ /\ char /\ ~eof /\ ~enter
              /\ Edit(t.size, FoldLeft(TypeUnit, Edited, units))
           \/ /\ ~ended /\ IsEditKey(t)
              /\ Edit(t.size, EditKey(Edited, t.value))
           \/ /\ ~ended /\ ~HasText(t) /\ ~IsEditKey(t) /\ ~IsBreak(t) /\ ~IsInterrupt(t)
              /\ Edit(t.size, Edited)
    /\ UNCHANGED <<work, budget, wire, disconnected, typed>>

-----------------------------------------------------------------------------
Next ==
    \/ Type \/ Push \/ mark_disconnected
    \/ Start \/ Retry \/ FlushInputBuffer
    \/ \E units \in work.injections, append \in BOOLEAN : WriteConsoleInput(units, append)
    \/ ReadRaw \/ ReadUnicode \/ ReadAnsi \/ RawRead \/ RawReadToken
    \/ GetConsoleInput \/ PeekBatch \/ ScanBatch \/ SettleBatch
    \/ ReadLine \/ ReadLineToken

Spec == Init /\ [][Next]_vars

-----------------------------------------------------------------------------
(***************************************************************************)
(* The buffers stay within their sizes: the prefix, the unit that is held  *)
(* back, the client's buffer and the copy that GetConsoleInput decodes.    *)
(***************************************************************************)
TypeOK ==
    /\ Len(handle.prefix) <= Limit /\ Len(handle.unit) <= 1
    /\ handle.cursor \in Nat /\ handle.insert \in BOOLEAN
    /\ waiting # None => waiting \in work.requests
    /\ call # None => /\ call.request \in work.requests
                      /\ Len(call.got) <= call.request.size
                      /\ call.used <= Len(call.batch)

\* Ctrl+C bytes may be taken out of the middle in processed input.
Visible(bytes) == IF work.processed THEN SelectSeq(bytes, LAMBDA b : b # "^C") ELSE bytes

\* The tokens in the first k of `bytes', read from one end to the other in one go.
Tokens(bytes, k) ==
    LET token(rest) == IF work.ansi THEN AnsiToken(First(rest, Limit)) ELSE decode_one_input_token(rest)
        add(sum, i) ==
            LET t == token(Skip(bytes, i))
            IN  IF sum.next = i THEN [tokens |-> Append(sum.tokens, t), next |-> i + t.size] ELSE sum
    IN  FoldLeft(add, [tokens |-> <<>>, next |-> 0], [i \in 1 .. k |-> i - 1]).tokens

\* What a client is to be given for a token.
Meaning(t) ==
    IF ~HasText(t) THEN <<>> ELSE IF work.ansi THEN AnsiBytes(t) ELSE TypedUnits(t)

\* Whether Ctrl+Z is text depends on where a read begins, and how often a repeated key is
\* delivered on the room it finds: neither is compared.
Comparable(units) ==
    LET once(all, u) ==
            IF u = "^Z" \/ (Last(<<Nul>> \o all) = u /\ \E b \in DOMAIN Keys : Keys[b].repeat > 1 /\ Keys[b].char = u)
              THEN all
              ELSE Append(all, u)
    IN  FoldLeft(once, <<>>, units)

Taken == Len(Visible(typed)) - Len(Visible(Stream))

\* GetConsoleInput has decoded records of which the bytes are still in the stream.
Settled == call = None \/ call.request.api # "GetConsoleInput" \/ call.at = "begin"

(***************************************************************************)
(* Raw input reaches the clients as it was typed: however it arrives in    *)
(* pieces, however small the reads, and however often they are pended and  *)
(* retried, what has been received and what is held back in the handle is  *)
(* what one pass over the bytes that are gone gives, and the other bytes   *)
(* are still there in their order.  After a flush nothing older appears.   *)
(***************************************************************************)
ReceivedInOrder ==
    ~work.line /\ Settled =>
        \A bytes \in {Visible(typed)}, k \in {Taken} :
            /\ k >= 0 /\ Skip(bytes, k) = Visible(Stream)
            /\ \A tokens \in {Tokens(bytes, k)} :
                 LET got == IF call = None THEN <<>> ELSE call.got
                 IN  Comparable(received \o got \o handle.unit)
                       = Comparable(FlattenSeq([i \in DOMAIN tokens |-> Meaning(tokens[i])]))

(***************************************************************************)
(* In processed input every Ctrl+C that is taken from the stream is        *)
(* forwarded, once, whether it was a byte, also one that overtook an       *)
(* unfinished token, or a key.                                             *)
(***************************************************************************)
InterruptsForwarded ==
    work.processed /\ ~work.line =>
        LET interrupts(bytes) == Len(bytes) - Len(Visible(bytes))
        IN  \A tokens \in {Tokens(Visible(typed), Taken)} :
                signals = interrupts(typed) - interrupts(Stream)
                            + Cardinality({i \in DOMAIN tokens : IsInterrupt(tokens[i])})

\* What a call that pends has looked at and not used.
Unread ==
    IF call.at = "settle" THEN Skip(call.batch, call.used) ELSE Stream'

\* A step that leaves a read waiting has looked at no complete token and, in Unicode, holds
\* no half of a pair back.
WaitsForMore ==
    call # None /\ waiting = None /\ waiting' # None /\ ~call.broke =>
      LET head == First(Unread, IF call.at = "settle" THEN Len(Unread) ELSE Limit)
          token == IF work.ansi THEN AnsiToken(head) ELSE decode_one_input_token(head)
      IN  /\ head = <<>> \/ token.kind = "more"
          /\ ~work.line /\ ~work.ansi => handle'.unit = <<>>

\* A step that ends a read of Unicode text or of records that may wait does not answer with
\* success and nothing (condrv_input_decoding.md), a Ctrl+Z apart.
SuccessBringsInput ==
    call # None /\ call' = None /\ waiting' = waiting /\ status' = "success" =>
      \/ ~call.request.wait \/ call.request.peek \/ call.request.ctrlZ \/ work.ansi
      \/ received' # received \/ call.got # <<>>

(***************************************************************************)
(* A read is answered when, and only when, there is something to give: it  *)
(* is left waiting only without a complete token, and is not answered with *)
(* success and nothing (ReadConsole, RAW_READ and GetConsoleInput).        *)
(***************************************************************************)
AnsweredWithInput == [][WaitsForMore /\ SuccessBringsInput]_vars

(***************************************************************************)
(* Peeking changes nothing of the input but the Ctrl+C bytes in front of   *)
(* it, unless it meets a Ctrl+Break, which flushes.                        *)
(***************************************************************************)
PeeksKeepInput ==
    [][call # None /\ call.request.peek /\ ~call.broke /\ typed' = typed =>
         handle' = handle /\ Visible(Stream)' = Visible(Stream)]_vars

(***************************************************************************)
(* Every line that is entered is delivered, whole and in order, however    *)
(* small the buffers it is read into, and before the next line is read.    *)
(***************************************************************************)
LinesDelivered == work.line => received \o handle.pending = entered

\* The cursor of the line is never beyond its end nor inside a surrogate pair
\* (condrv_readconsole_line_editing.md).
CursorOnCharacter ==
    work.line => handle.cursor <= Len(handle.line) /\ ~PairAt(handle.line, handle.cursor)

(***************************************************************************)
(* The echo of every edit leaves the line on the screen, nothing of what   *)
(* it replaced behind it, and the screen's cursor at the line's cursor,    *)
(* which is on a character or at the end.                                  *)
(***************************************************************************)
EchoShowsLine ==
    /\ CursorOnCharacter
    /\ screen.col = handle.cursor
    /\ First(screen.cells, Len(handle.line)) = handle.line
    /\ \A i \in Len(handle.line) + 1 .. Len(screen.cells) : screen.cells[i] = " "

=============================================================================
