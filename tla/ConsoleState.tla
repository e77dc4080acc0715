---------------------------- MODULE ConsoleState ----------------------------
(***************************************************************************)
(* The tables of ServerState (condrv_server.cpp) and the messages that     *)
(* change them: processes and their handles, the active screen buffer, and *)
(* the command histories.                                                  *)
(*                                                                         *)
(* The handle of a process or object is the address of its record, so a    *)
(* handle that was given up may be given out again: an allocation returns  *)
(* any cell not in use.                                                    *)
(***************************************************************************)
EXTENDS CommandHistory

CONSTANTS
    ProcessCells,   \* addresses of ProcessState records
    ObjectCells,    \* addresses of ObjectHandle records
    Buffers,        \* screen buffers
    MainBuffer,     \* the screen buffer the server starts with
    NoBuffer,       \* the buffer of an input handle
    Apps,           \* application names; NoApp is one if clients may give none
    Texts,          \* lines a client may enter
    HistorySizes,   \* values of HistoryBufferSize, NumberOfHistoryBuffers, NumCommands
    InitialSize,    \* _history_buffer_size; the code starts with 50
    InitialCount,   \* _history_buffer_count; the code starts with 4
    MaxConnects     \* bound: how many clients connect

ASSUME CellAssumption ==
    /\ NoProcess \notin ProcessCells
    /\ MainBuffer \in Buffers /\ NoBuffer \notin Buffers
    /\ HistorySizes \subseteq Nat /\ InitialSize \in Nat /\ InitialCount \in Nat
    /\ MaxConnects \in Nat

VARIABLES
    processes,      \* _processes: connect_sequence of each connected process, and its app
    objects,        \* _objects
    active,         \* _active_screen_buffer
    histories,      \* _command_histories
    bufferSize,     \* _history_buffer_size
    bufferCount,    \* _history_buffer_count
    noDuplicates,   \* HISTORY_NO_DUP_FLAG of _history_flags
    nextSequence,   \* _next_connect_sequence
    reply,          \* status of the last message
    requestExit     \* the last message asked the loop to exit

tableVars == <<processes, objects>>
historyVars == <<histories, bufferSize, bufferCount, noDuplicates>>
vars == <<tableVars, active, historyVars, nextSequence, reply, requestExit>>

\* A command carries the executable it was typed into, for the properties only.
Commands == [by : Apps, text : Texts]
Objects ==
    [kind : {"input"}, owner : ProcessCells, buffer : {NoBuffer}]
      \cup [kind : {"output"}, owner : ProcessCells, buffer : Buffers]

Statuses == {"success", "invalidHandle", "invalidParameter", "noMemory"}

Init ==
    /\ processes = <<>> /\ objects = <<>>
    /\ active = MainBuffer
    /\ histories = <<>>
    /\ bufferSize = InitialSize /\ bufferCount = InitialCount /\ noDuplicates = FALSE
    /\ nextSequence = 1
    /\ reply = "success" /\ requestExit = FALSE

-----------------------------------------------------------------------------
Put(f, k, v) == [x \in DOMAIN f \cup {k} |-> IF x = k THEN v ELSE f[x]]
Without(f, K) == [x \in DOMAIN f \ K |-> f[x]]

FreeProcessCells == ProcessCells \ DOMAIN processes
FreeObjectCells == ObjectCells \ DOMAIN objects
LiveBuffers == {MainBuffer, active} \cup {objects[h].buffer : h \in DOMAIN objects}

Reply(status) == reply' = status /\ requestExit' = FALSE

InputObject(p) == [kind |-> "input", owner |-> p, buffer |-> NoBuffer]
OutputObject(p, b) == [kind |-> "output", owner |-> p, buffer |-> b]

\* connect_client when every allocation succeeds but possibly those of the history.
ConnectSucceeds(app) ==
    /\ \E p \in FreeProcessCells, in, out \in FreeObjectCells, failure \in Failures :
         /\ in # out
         /\ processes' = Put(processes, p, [sequence |-> nextSequence, app |-> app])
         /\ objects' = Put(Put(objects, in, InputObject(p)), out, OutputObject(p, active))
         /\ histories' = AllocateForProcess(histories, app, p, bufferCount, bufferSize, failure)
    /\ nextSequence' = nextSequence + 1
    /\ Reply("success")

\* Variant: the process stays in the table when its input handle cannot be created.
ConnectFailsDirty(app) ==
    /\ \E p \in FreeProcessCells :
         processes' = Put(processes, p, [sequence |-> nextSequence, app |-> app])
    /\ UNCHANGED <<objects, histories>>
    /\ nextSequence' = nextSequence + 1
    /\ Reply("noMemory")

\* connect_client when the process, its input or its output handle cannot be allocated: what
\* was created before is removed again.  The sequence number is spent unless the process
\* itself could not be allocated.
ConnectFails(app) ==
    /\ UNCHANGED <<processes, objects, histories>>
    /\ nextSequence' \in {nextSequence, nextSequence + 1}
    /\ Reply("noMemory")

Connect(app) ==
    /\ nextSequence <= MaxConnects
    /\ ConnectSucceeds(app) \/ ConnectFails(app)
    /\ UNCHANGED <<active, bufferSize, bufferCount, noDuplicates>>

\* Variant: only the standard handles of the process are closed.
OwnedByStandard(p) == {h \in DOMAIN objects : objects[h] \in {InputObject(p), OutputObject(p, MainBuffer)}}

OwnedBy(p) == {h \in DOMAIN objects : objects[h].owner = p}

Disconnect(p) ==
    /\ IF p \in DOMAIN processes
         THEN /\ histories' = FreeForProcess(histories, p)
              /\ objects' = Without(objects, OwnedBy(p))
              /\ processes' = Without(processes, {p})
              /\ reply' = "success"
         ELSE reply' = "invalidHandle" /\ UNCHANGED <<tableVars, histories>>
    /\ requestExit' = (DOMAIN processes' = {})
    /\ UNCHANGED <<active, bufferSize, bufferCount, noDuplicates, nextSequence>>

\* The object types current input, current output and new output; the generic type is one of
\* the first two.
NewObjects(p) ==
    {InputObject(p), OutputObject(p, active)}
      \cup {OutputObject(p, b) : b \in Buffers \ LiveBuffers}

\* A new buffer is dropped again when the caller turns out not to be connected or the handle
\* cannot be allocated.
CreateObject(p) ==
    /\ \/ /\ p \in DOMAIN processes
          /\ \E h \in FreeObjectCells, o \in NewObjects(p) : objects' = Put(objects, h, o)
          /\ Reply("success")
       \/ p \notin DOMAIN processes /\ UNCHANGED objects /\ Reply("invalidHandle")
       \/ UNCHANGED objects /\ Reply("noMemory")
       \/ UNCHANGED objects /\ Reply("invalidParameter")
    /\ UNCHANGED <<processes, active, historyVars, nextSequence>>

\* close_object does not ask who owns the handle.
CloseObject(h) ==
    /\ IF h \in DOMAIN objects
         THEN objects' = Without(objects, {h}) /\ Reply("success")
         ELSE UNCHANGED objects /\ Reply("invalidHandle")
    /\ UNCHANGED <<processes, active, historyVars, nextSequence>>

SetActiveScreenBuffer(h) ==
    /\ IF h \in DOMAIN objects /\ objects[h].kind = "output"
         THEN active' = objects[h].buffer /\ Reply("success")
         ELSE UNCHANGED active /\ Reply("invalidHandle")
    /\ UNCHANGED <<tableVars, historyVars, nextSequence>>

\* A cooked read on handle h completes a line; it is recorded for the owner of the handle.
RecordCommand(h, text) ==
    /\ h \in DOMAIN objects /\ objects[h].kind = "input"
    /\ \E outOfMemory \in BOOLEAN :
         LET p == objects[h].owner
             command == [by |-> processes[p].app, text |-> text]
         IN  histories' = AddForProcess(histories, p, command, noDuplicates, outOfMemory)
    /\ Reply("success")
    /\ UNCHANGED <<tableVars, active, bufferSize, bufferCount, noDuplicates, nextSequence>>

\* The name in the message cannot be decoded.
Undecodable == UNCHANGED histories /\ \E status \in {"invalidParameter", "noMemory"} : Reply(status)

ExpungeCommandHistory(app) ==
    /\ \/ histories' = ExpungeByExe(histories, app) /\ Reply("success")
       \/ Undecodable
    /\ UNCHANGED <<tableVars, active, bufferSize, bufferCount, noDuplicates, nextSequence>>

SetNumberOfCommands(app, n) ==
    /\ \/ histories' = SetNumberOfCommandsByExe(histories, app, n) /\ Reply("success")
       \/ Undecodable
    /\ UNCHANGED <<tableVars, active, bufferSize, bufferCount, noDuplicates, nextSequence>>

\* set_history_info; the new size applies to every entry, the new count to later ones.
SetHistory(size, count, noDup) ==
    /\ bufferSize' = size /\ bufferCount' = count /\ noDuplicates' = noDup
    /\ histories' = ResizeAll(histories, size)
    /\ Reply("success")
    /\ UNCHANGED <<tableVars, active, nextSequence>>

Next ==
    \/ \E app \in Apps : Connect(app) \/ ExpungeCommandHistory(app)
    \/ \E p \in ProcessCells : Disconnect(p) \/ CreateObject(p)
    \/ \E h \in ObjectCells : CloseObject(h) \/ SetActiveScreenBuffer(h)
    \/ \E h \in ObjectCells, text \in Texts : RecordCommand(h, text)
    \/ \E app \in Apps, n \in HistorySizes : SetNumberOfCommands(app, n)
    \/ \E size, count \in HistorySizes, noDup \in BOOLEAN : SetHistory(size, count, noDup)

Spec == Init /\ [][Next]_vars

-----------------------------------------------------------------------------
\* Every table entry has the shape of its record, and an output handle has a buffer.
TypeOK ==
    /\ DOMAIN processes \subseteq ProcessCells
    /\ processes \in [DOMAIN processes -> [sequence : Nat, app : Apps]]
    /\ DOMAIN objects \subseteq ObjectCells
    /\ objects \in [DOMAIN objects -> Objects]
    /\ active \in Buffers
    /\ histories \in Seq(Histories(Apps, ProcessCells, Commands))
    /\ bufferSize \in Nat /\ bufferCount \in Nat /\ noDuplicates \in BOOLEAN
    /\ nextSequence \in Nat
    /\ reply \in Statuses /\ requestExit \in BOOLEAN

\* A handle belongs to a connected process.  Otherwise it would pass to whichever process is
\* given the address of its owner next.
ObjectsOwned == \A h \in DOMAIN objects : objects[h].owner \in DOMAIN processes

\* An allocated history belongs to a connected process and is named after its executable, or
\* after none when the name could not be copied; a process has at most one.
HistoryOwners ==
    /\ \A i \in 1..Len(histories) : Allocated(histories[i]) =>
         /\ histories[i].process \in DOMAIN processes
         /\ histories[i].app \in {processes[histories[i].process].app, NoApp}
    /\ \A i, j \in 1..Len(histories) :
         Allocated(histories[i]) /\ histories[i].process = histories[j].process => i = j

\* No process finds in a history named after its executable what was typed into another one,
\* however often entries and addresses have changed hands.
HistoryPrivate ==
    \A i \in 1..Len(histories) : \A k \in 1..Len(histories[i].commands) :
        histories[i].commands[k].by = histories[i].app \/ histories[i].app = NoApp

\* A history never holds more commands than its limit; add relies on this when it makes room
\* for one command only if the list is exactly full.
CommandsWithinLimit ==
    \A i \in 1..Len(histories) : Len(histories[i].commands) <= histories[i].max

\* A message that is refused leaves every table as it was; a connect that runs out of memory
\* after it has created the process and its input handle takes both back.
RefusalsChangeNothing ==
    [][reply' # "success" => UNCHANGED <<tableVars, active, historyVars>>]_vars
=============================================================================
