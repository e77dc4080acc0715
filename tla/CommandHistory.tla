--------------------------- MODULE CommandHistory ---------------------------
(***************************************************************************)
(* The pool of command histories (command_history.cpp): one entry per      *)
(* executable that has connected, most recently allocated first.  An entry *)
(* outlives its process, so that the next process of the same executable   *)
(* finds the commands of the last one.                                     *)
(***************************************************************************)
EXTENDS SequencesExt

CONSTANTS
    NoProcess,   \* the process handle of an entry that is not allocated
    NoApp        \* the empty name: the client gave none, or it could not be copied

\* CommandHistory: `process' # NoProcess is the flag _allocated.
Histories(apps, processes, commands) ==
    [app : apps \cup {NoApp}, process : processes \cup {NoProcess}, commands : Seq(commands), max : Nat]

Allocated(entry) == entry.process # NoProcess

AssignProcess(entry, p) == [entry EXCEPT !.process = p]
ReleaseProcess(entry) == [entry EXCEPT !.process = NoProcess]

\* Variant: a shorter limit leaves the commands that no longer fit.
ReallocKeeps(entry, max) == [entry EXCEPT !.max = max]

\* Reducing the limit drops the newest commands.
Realloc(entry, max) ==
    [entry EXCEPT !.max = max,
                  !.commands = IF Len(@) > max THEN SubSeq(@, 1, max) ELSE @]

\* What an accepted command does to the list; the copy of it may fail (outOfMemory), but
\* by then the commands it displaces are gone.
Insert(commands, max, command, suppressDuplicates, outOfMemory) ==
    LET kept == IF suppressDuplicates THEN RemoveFirst(commands, command) ELSE commands
        room == IF Len(kept) = max THEN Tail(kept) ELSE kept
    IN  IF outOfMemory THEN room ELSE Append(room, command)

\* CommandHistory::add of a line that is not empty; an empty one is never recorded.
Add(entry, command, suppressDuplicates, outOfMemory) ==
    IF \/ entry.max = 0
       \/ entry.commands # <<>> /\ Last(entry.commands) = command
      THEN entry
      ELSE [entry EXCEPT !.commands = Insert(@, entry.max, command, suppressDuplicates, outOfMemory)]

-----------------------------------------------------------------------------
(***************************************************************************)
(* CommandHistoryPool.  A pool is a sequence of entries.                   *)
(***************************************************************************)
ToFront(pool, i, entry) == <<entry>> \o RemoveAt(pool, i)

\* Variant: the entry of another executable keeps its commands.
RenamedKeeps(entry, app) == [entry EXCEPT !.app = app]

\* An entry of another executable is emptied before it changes hands.
Renamed(entry, app) == [entry EXCEPT !.app = app, !.commands = <<>>]

\* What allocate_for_process may find no memory for.
Failures == {"none", "name", "entry"}

\* allocate_for_process: a free entry of the same executable; else a new entry while the
\* pool is below its limit; else a free entry, an empty one if there is one; else nothing.
\* A new entry whose name cannot be copied is used without a name; an entry to reuse is then
\* left free, nameless and empty.
AllocateForProcess(pool, app, p, maxHistories, defaultMax, failure) ==
    LET same == SelectInSeq(pool, LAMBDA e : ~Allocated(e) /\ e.app = app)
        empty == SelectLastInSeq(pool, LAMBDA e : ~Allocated(e) /\ e.commands = <<>>)
        free == SelectLastInSeq(pool, LAMBDA e : ~Allocated(e))
        reused == IF empty # 0 THEN empty ELSE free
        name == IF failure = "name" THEN NoApp ELSE app
        new == [app |-> name, process |-> p, commands |-> <<>>, max |-> defaultMax]
    IN  IF same # 0
          THEN ToFront(pool, same, AssignProcess(pool[same], p))
        ELSE IF Len(pool) < maxHistories
          THEN IF failure = "entry" THEN pool ELSE <<new>> \o pool
        ELSE IF reused # 0
          THEN IF failure = "name"
                 THEN [pool EXCEPT ![reused] = Renamed(@, NoApp)]
                 ELSE ToFront(pool, reused, AssignProcess(Renamed(pool[reused], app), p))
        ELSE pool

\* find_by_process and find_by_exe: the position of the first allocated match, or 0.
OfProcess(pool, p) == SelectInSeq(pool, LAMBDA e : Allocated(e) /\ e.process = p)
OfExe(pool, app) == SelectInSeq(pool, LAMBDA e : Allocated(e) /\ e.app = app)

\* Variant: the entry stays with the process that has left.
FreeForProcessForgets(pool, p) == pool

FreeForProcess(pool, p) ==
    LET i == OfProcess(pool, p)
    IN  IF i = 0 THEN pool ELSE [pool EXCEPT ![i] = ReleaseProcess(@)]

AddForProcess(pool, p, command, suppressDuplicates, outOfMemory) ==
    LET i == OfProcess(pool, p)
    IN  IF i = 0 THEN pool
        ELSE [pool EXCEPT ![i] = Add(@, command, suppressDuplicates, outOfMemory)]

ExpungeByExe(pool, app) ==
    LET i == OfExe(pool, app)
    IN  IF i = 0 THEN pool ELSE [pool EXCEPT ![i].commands = <<>>]

SetNumberOfCommandsByExe(pool, app, max) ==
    LET i == OfExe(pool, app)
    IN  IF i = 0 THEN pool ELSE ToFront(pool, i, Realloc(pool[i], max))

ResizeAll(pool, max) == [i \in 1..Len(pool) |-> Realloc(pool[i], max)]
=============================================================================
