------------------------- MODULE ConsoleStateProofs -------------------------
(***************************************************************************)
(* Proofs about ConsoleState for any number of cells, buffers and limits.  *)
(*                                                                         *)
(* The inductive invariant says that every table entry is well formed,     *)
(* that every history keeps to its limit, and that every handle belongs to *)
(* a connected process.                                                    *)
(***************************************************************************)
EXTENDS ConsoleState, SequenceTheorems, WellFoundedInduction, TLAPS

Entries == Histories(Apps, ProcessCells, Commands)

\* Entries that keep to their limit.
Bounded == {e \in Entries : Len(e.commands) <= e.max}

TablesOK ==
    /\ DOMAIN processes \subseteq ProcessCells
    /\ processes \in [DOMAIN processes -> [sequence : Nat, app : Apps]]
    /\ DOMAIN objects \subseteq ObjectCells
    /\ objects \in [DOMAIN objects -> Objects]
    /\ active \in Buffers
    /\ nextSequence \in Nat

HistoriesOK ==
    /\ histories \in Seq(Bounded)
    /\ bufferSize \in Nat /\ bufferCount \in Nat

FlagsOK == noDuplicates \in BOOLEAN /\ reply \in Statuses /\ requestExit \in BOOLEAN

IInv == TablesOK /\ HistoriesOK /\ FlagsOK /\ ObjectsOwned

-----------------------------------------------------------------------------
(***************************************************************************)
(* Lemmas on sequences.                                                    *)
(***************************************************************************)

\* A set of numbers that is not empty has a least element: what SelectInSeq relies on when
\* it stands for a search from the front.
LEMMA LeastExists ==
    ASSUME NEW T, T \subseteq Nat, T # {}
    PROVE  \E x \in T : \A y \in T : x <= y
  <1> DEFINE R == {ss \in Nat \X Nat : ss[1] < ss[2]}
  <1>1. IsWellFoundedOn(R, Nat)
    BY NatLessThanWellFounded DEF OpToRel
  <1>2. \E x \in T : \A y \in T : ~(<<y, x>> \in R)
    <2> HIDE DEF R
    <2> QED BY <1>1, WFMin, Zenon
  <1>3. PICK x \in T : \A y \in T : ~(<<y, x>> \in R)
    BY <1>2
  <1>4. \A a, b \in Nat : <<a, b>> \in R <=> a < b
    OBVIOUS
  <1>5. \A y \in T : x <= y
    <2>1. SUFFICES ASSUME NEW y \in T, ~(x <= y) PROVE FALSE
      OBVIOUS
    <2>2. x \in Nat /\ y \in Nat /\ y < x
      BY <2>1
    <2>3. <<y, x>> \in R
      BY <1>4, <2>2, Zenon
    <2> QED BY <1>3, <2>3, Zenon
  <1> QED BY <1>5

\* The same for Min, the operator the search is defined with.
LEMMA MinInSet ==
    ASSUME NEW T, T \subseteq Nat, T # {}
    PROVE  Min(T) \in T
  BY LeastExists, Zenon DEF Min

\* A bounded set of numbers that is not empty has a greatest element, by reflection.
LEMMA MaxInSet ==
    ASSUME NEW n \in Nat, NEW T, T \subseteq 1..n, T # {}
    PROVE  Max(T) \in T
  <1> DEFINE U == {u \in 0..n : n - u \in T}
  <1>1. U \subseteq Nat
    OBVIOUS
  <1>2. \A t \in T : n - t \in U
    OBVIOUS
  <1>3. PICK u \in U : \A v \in U : u <= v
    BY <1>1, <1>2, LeastExists, Zenon
  <1>4. n - u \in T /\ u \in 0..n
    OBVIOUS
  <1>5. \A y \in T : n - u >= y
    <2> TAKE y \in T
    <2>1. u <= n - y
      BY <1>2, <1>3, Zenon
    <2> QED BY <1>4, <2>1
  <1> QED BY <1>4, <1>5, Zenon DEF Max

\* A search from the front, or from the back, returns a position or 0.
LEMMA Found ==
    ASSUME NEW n \in Nat, NEW I, I \subseteq 1..n
    PROVE  /\ (IF I # {} THEN Min(I) ELSE 0) \in 0..n
           /\ (IF I # {} THEN Max(I) ELSE 0) \in 0..n
  <1>1. CASE I = {}
    BY <1>1
  <1>2. CASE I # {}
    <2>1. I \subseteq Nat /\ I \subseteq 0..n
      OBVIOUS
    <2>2. Min(I) \in I
      BY <1>2, <2>1, MinInSet, Zenon
    <2>3. Max(I) \in I
      BY <1>2, MaxInSet, Zenon
    <2> QED BY <1>2, <2>1, <2>2, <2>3, Zenon
  <1> QED BY <1>1, <1>2

\* Removing one position leaves a sequence over the same set.
LEMMA RemoveAtSeq ==
    ASSUME NEW S, NEW s \in Seq(S), NEW i \in 1..Len(s)
    PROVE  RemoveAt(s, i) \in Seq(S) /\ Len(RemoveAt(s, i)) = Len(s) - 1
  <1> DEFINE a == SubSeq(s, 1, i - 1)
             b == SubSeq(s, i + 1, Len(s))
  <1>1. a \in Seq(S) /\ Len(a) = i - 1
    OBVIOUS
  <1>2. b \in Seq(S) /\ Len(b) = Len(s) - i
    OBVIOUS
  <1>3. RemoveAt(s, i) = a \o b
    BY DEF RemoveAt
  <1> HIDE DEF a, b
  <1>4. a \o b \in Seq(S) /\ Len(a \o b) = Len(a) + Len(b)
    BY <1>1, <1>2, ConcatProperties, Zenon
  <1> QED BY <1>1, <1>2, <1>3, <1>4

\* Moving an entry to the front leaves a pool over the same set.
LEMMA ToFrontSeq ==
    ASSUME NEW S, NEW s \in Seq(S), NEW i \in 1..Len(s), NEW e \in S
    PROVE  ToFront(s, i, e) \in Seq(S)
  <1>1. <<e>> \in Seq(S)
    OBVIOUS
  <1> QED BY <1>1, RemoveAtSeq, ConcatProperties DEF ToFront

\* RemoveFirst takes out at most one command.
LEMMA RemoveFirstSeq ==
    ASSUME NEW S, NEW s \in Seq(S), NEW c
    PROVE  RemoveFirst(s, c) \in Seq(S) /\ Len(RemoveFirst(s, c)) <= Len(s)
  <1> DEFINE I == {i \in 1..Len(s) : s[i] = c}
  <1>1. CASE I = {}
    BY <1>1 DEF RemoveFirst
  <1>2. CASE I # {}
    <2>1. Min(I) \in I
      <3>1. I \subseteq Nat
        OBVIOUS
      <3> HIDE DEF I
      <3> QED BY <1>2, <3>1, MinInSet, Zenon
    <2>2. RemoveFirst(s, c) = RemoveAt(s, Min(I))
      BY <1>2 DEF RemoveFirst, SelectInSeq
    <2> QED BY <2>1, <2>2, RemoveAtSeq
  <1> QED BY <1>1, <1>2

-----------------------------------------------------------------------------
(***************************************************************************)
(* Lemmas on entries and pools.                                            *)
(***************************************************************************)

\* Whatever the limit is set to, the entry keeps to it (CommandHistory::realloc).
LEMMA ReallocBounded ==
    ASSUME NEW e \in Entries, NEW max \in Nat
    PROVE  Realloc(e, max) \in Bounded
  <1> DEFINE new == IF Len(e.commands) > max THEN SubSeq(e.commands, 1, max) ELSE e.commands
  <1>1. e.commands \in Seq(Commands)
    BY DEF Entries, Histories
  <1>2. new \in Seq(Commands) /\ Len(new) <= max
    BY <1>1
  <1>3. Realloc(e, max) = [e EXCEPT !.max = max, !.commands = new]
    BY DEF Realloc
  <1> HIDE DEF new
  <1> QED BY <1>2, <1>3, Zenon DEF Bounded, Entries, Histories

\* The list never outgrows the limit, though room is made only when it is exactly full.
LEMMA InsertBounded ==
    ASSUME NEW S, NEW s \in Seq(S), NEW max \in Nat \ {0}, Len(s) <= max, NEW c \in S,
           NEW suppress \in BOOLEAN, NEW outOfMemory \in BOOLEAN
    PROVE  /\ Insert(s, max, c, suppress, outOfMemory) \in Seq(S)
           /\ Len(Insert(s, max, c, suppress, outOfMemory)) <= max
  <1> DEFINE kept == IF suppress THEN RemoveFirst(s, c) ELSE s
             room == IF Len(kept) = max THEN Tail(kept) ELSE kept
  <1>1. kept \in Seq(S) /\ Len(kept) <= max
    BY RemoveFirstSeq
  <1>2. room \in Seq(S) /\ Len(room) < max
    <2> HIDE DEF kept
    <2> QED BY <1>1
  <1>3. Insert(s, max, c, suppress, outOfMemory) = IF outOfMemory THEN room ELSE Append(room, c)
    BY DEF Insert
  <1> HIDE DEF room
  <1>4. Append(room, c) \in Seq(S) /\ Len(Append(room, c)) = Len(room) + 1
    BY <1>2
  <1> QED BY <1>2, <1>3, <1>4

\* CommandHistory::add keeps a bounded entry bounded.
LEMMA AddBounded ==
    ASSUME NEW e \in Bounded, NEW c \in Commands,
           NEW suppress \in BOOLEAN, NEW outOfMemory \in BOOLEAN
    PROVE  Add(e, c, suppress, outOfMemory) \in Bounded
  <1>1. /\ e.commands \in Seq(Commands) /\ e.max \in Nat /\ Len(e.commands) <= e.max
        /\ e \in Entries
    BY DEF Bounded, Entries, Histories
  <1>2. CASE e.max = 0
    BY <1>2 DEF Add
  <1>3. CASE e.max # 0
    <2> DEFINE new == Insert(e.commands, e.max, c, suppress, outOfMemory)
    <2>1. new \in Seq(Commands) /\ Len(new) <= e.max
      BY <1>1, <1>3, InsertBounded
    <2>2. Add(e, c, suppress, outOfMemory) \in {e, [e EXCEPT !.commands = new]}
      BY DEF Add
    <2> HIDE DEF new
    <2> QED BY <1>1, <2>1, <2>2 DEF Bounded, Entries, Histories
  <1> QED BY <1>2, <1>3

\* The positions find_by_process and find_by_exe return are positions of the pool.
LEMMA FoundInPool ==
    ASSUME NEW S, NEW pool \in Seq(S), NEW p, NEW app
    PROVE  OfProcess(pool, p) \in 0..Len(pool) /\ OfExe(pool, app) \in 0..Len(pool)
  <1> DEFINE I == {i \in 1..Len(pool) : Allocated(pool[i]) /\ pool[i].process = p}
             J == {i \in 1..Len(pool) : Allocated(pool[i]) /\ pool[i].app = app}
  <1>1. OfProcess(pool, p) = IF I # {} THEN Min(I) ELSE 0
    BY SMTT(30) DEF OfProcess, SelectInSeq
  <1>2. OfExe(pool, app) = IF J # {} THEN Min(J) ELSE 0
    BY DEF OfExe, SelectInSeq
  <1>3. I \subseteq 1..Len(pool) /\ J \subseteq 1..Len(pool) /\ Len(pool) \in Nat
    OBVIOUS
  <1> HIDE DEF I, J
  <1> QED BY <1>1, <1>2, <1>3, Found, Zenon

\* Changing hands keeps an entry bounded.
LEMMA HandsBounded ==
    ASSUME NEW e \in Bounded
    PROVE  /\ ReleaseProcess(e) \in Bounded
           /\ [e EXCEPT !.commands = <<>>] \in Bounded
           /\ \A p \in ProcessCells : AssignProcess(e, p) \in Bounded
           /\ \A app \in Apps \cup {NoApp} : Renamed(e, app) \in Bounded
  <1>1. ASSUME NEW none \in Seq(Commands), Len(none) = 0, NEW app \in Apps \cup {NoApp}
        PROVE  /\ [e EXCEPT !.commands = none] \in Bounded
               /\ [e EXCEPT !.app = app, !.commands = none] \in Bounded
    <2>1. e \in Entries /\ e.max \in Nat
      BY SMTT(30) DEF Bounded, Entries, Histories
    <2>2. [e EXCEPT !.commands = none] \in Entries
      BY <2>1 DEF Entries, Histories
    <2>3. [e EXCEPT !.app = app, !.commands = none] \in Entries
      BY <2>1, Zenon DEF Entries, Histories
    <2>4. /\ [e EXCEPT !.commands = none].commands = none
          /\ [e EXCEPT !.commands = none].max = e.max
          /\ [e EXCEPT !.app = app, !.commands = none].commands = none
          /\ [e EXCEPT !.app = app, !.commands = none].max = e.max
      BY <2>1 DEF Entries, Histories
    <2>5. Len(none) <= e.max
      BY <1>1, <2>1
    <2> QED BY <2>2, <2>3, <2>4, <2>5, ZenonT(30) DEF Bounded
  <1>2. <<>> \in Seq(Commands) /\ Len(<<>>) = 0 /\ NoApp \in Apps \cup {NoApp}
    OBVIOUS
  <1>3. [e EXCEPT !.commands = <<>>] \in Bounded
    BY <1>1, <1>2, Zenon
  <1>4. \A app \in Apps \cup {NoApp} : Renamed(e, app) \in Bounded
    BY <1>1, <1>2, ZenonT(30) DEF Renamed
  <1>5. \A p \in ProcessCells : AssignProcess(e, p) \in Bounded
    BY DEF AssignProcess, Bounded, Entries, Histories
  <1>6. ReleaseProcess(e) \in Bounded
    BY DEF ReleaseProcess, Bounded, Entries, Histories
  <1> QED BY <1>3, <1>4, <1>5, <1>6

\* allocate_for_process, in each of its outcomes, leaves a pool of bounded entries.
LEMMA AllocateBounded ==
    ASSUME NEW pool \in Seq(Bounded), NEW app \in Apps, NEW p \in ProcessCells,
           NEW count \in Nat, NEW size \in Nat, NEW failure
    PROVE  AllocateForProcess(pool, app, p, count, size, failure) \in Seq(Bounded)
  <1> DEFINE Same == {i \in 1..Len(pool) : ~Allocated(pool[i]) /\ pool[i].app = app}
             Empty == {i \in 1..Len(pool) : ~Allocated(pool[i]) /\ pool[i].commands = <<>>}
             Free == {i \in 1..Len(pool) : ~Allocated(pool[i])}
             same == IF Same # {} THEN Min(Same) ELSE 0
             empty == IF Empty # {} THEN Max(Empty) ELSE 0
             free == IF Free # {} THEN Max(Free) ELSE 0
             reused == IF empty # 0 THEN empty ELSE free
             name == IF failure = "name" THEN NoApp ELSE app
             new == [app |-> name, process |-> p, commands |-> <<>>, max |-> size]
             result == AllocateForProcess(pool, app, p, count, size, failure)
  <1>1. same \in 0..Len(pool)
    <2>1. Same \subseteq 1..Len(pool) /\ Len(pool) \in Nat
      OBVIOUS
    <2> HIDE DEF Same
    <2> QED BY <2>1, Found, Zenon
  <1>2. reused \in 0..Len(pool)
    <2>1. Empty \subseteq 1..Len(pool) /\ Free \subseteq 1..Len(pool) /\ Len(pool) \in Nat
      OBVIOUS
    <2> HIDE DEF Empty, Free
    <2>2. empty \in 0..Len(pool) /\ free \in 0..Len(pool)
      BY <2>1, Found, Zenon
    <2> QED BY <2>2
  <1>3. new \in Bounded
    <2>1. <<>> \in Seq(Commands) /\ Len(<<>>) = 0
      OBVIOUS
    <2>2. name \in Apps \cup {NoApp}
      OBVIOUS
    <2> HIDE DEF name
    <2> QED BY <2>1, <2>2 DEF Bounded, Entries, Histories
  <1>4. result =
          IF same # 0 THEN ToFront(pool, same, AssignProcess(pool[same], p))
          ELSE IF Len(pool) < count THEN IF failure = "entry" THEN pool ELSE <<new>> \o pool
          ELSE IF reused # 0
            THEN IF failure = "name"
                   THEN [pool EXCEPT ![reused] = Renamed(@, NoApp)]
                   ELSE ToFront(pool, reused, AssignProcess(Renamed(pool[reused], app), p))
          ELSE pool
    BY SMTT(90) DEF AllocateForProcess, SelectInSeq, SelectLastInSeq
  <1> HIDE DEF same, reused, new, result
  <1>5. \A i \in 1..Len(pool) : pool[i] \in Bounded
    OBVIOUS
  <1>6. ASSUME same # 0
        PROVE  ToFront(pool, same, AssignProcess(pool[same], p)) \in Seq(Bounded)
    <2>1. same \in 1..Len(pool)
      BY <1>1, <1>6, SMTT(30)
    <2>2. AssignProcess(pool[same], p) \in Bounded
      BY <2>1, <1>5, HandsBounded, Zenon
    <2> QED BY <2>1, <2>2, ToFrontSeq
  <1>7. <<new>> \o pool \in Seq(Bounded)
    BY <1>3, ConcatProperties, SMTT(30)
  <1>8. ASSUME reused # 0
        PROVE  /\ [pool EXCEPT ![reused] = Renamed(@, NoApp)] \in Seq(Bounded)
               /\ ToFront(pool, reused, AssignProcess(Renamed(pool[reused], app), p)) \in Seq(Bounded)
    <2>1. reused \in 1..Len(pool)
      BY <1>2, <1>8, SMTT(30)
    <2>2. Renamed(pool[reused], NoApp) \in Bounded /\ Renamed(pool[reused], app) \in Bounded
      BY <2>1, <1>5, HandsBounded, Zenon
    <2>3. AssignProcess(Renamed(pool[reused], app), p) \in Bounded
      BY <2>2, HandsBounded, Zenon
    <2>4. [pool EXCEPT ![reused] = Renamed(@, NoApp)] \in Seq(Bounded)
      BY <2>1, <2>2
    <2> QED BY <2>1, <2>3, <2>4, ToFrontSeq
  <1>9. result \in Seq(Bounded)
    BY <1>4, <1>6, <1>7, <1>8, Zenon
  <1> QED BY <1>9 DEF result

\* Replacing one bounded entry by another.
LEMMA ReplaceBounded ==
    ASSUME NEW pool \in Seq(Bounded), NEW k \in 0..Len(pool), k # 0, NEW e \in Bounded
    PROVE  /\ k \in 1..Len(pool) /\ pool[k] \in Bounded
           /\ [pool EXCEPT ![k] = e] \in Seq(Bounded)
           /\ ToFront(pool, k, e) \in Seq(Bounded)
  BY ToFrontSeq, SMTT(30)

\* The operations on the entry of a process.
LEMMA OfProcessBounded ==
    ASSUME NEW pool \in Seq(Bounded), NEW p
    PROVE  /\ FreeForProcess(pool, p) \in Seq(Bounded)
           /\ \A c \in Commands, suppress, outOfMemory \in BOOLEAN :
                AddForProcess(pool, p, c, suppress, outOfMemory) \in Seq(Bounded)
  <1> DEFINE i == OfProcess(pool, p)
  <1>1. i \in 0..Len(pool)
    BY FoundInPool, Zenon
  <1>2. i # 0 => pool[i] \in Bounded
    BY <1>1
  <1> HIDE DEF i
  <1>3. FreeForProcess(pool, p) \in Seq(Bounded)
    <2>1. i # 0 => [pool EXCEPT ![i] = ReleaseProcess(@)] \in Seq(Bounded)
      BY <1>1, <1>2, HandsBounded, ReplaceBounded, Zenon
    <2> QED BY <2>1 DEF FreeForProcess, i
  <1>4. ASSUME NEW c \in Commands, NEW suppress \in BOOLEAN, NEW outOfMemory \in BOOLEAN
        PROVE  AddForProcess(pool, p, c, suppress, outOfMemory) \in Seq(Bounded)
    <2>1. i # 0 => [pool EXCEPT ![i] = Add(@, c, suppress, outOfMemory)] \in Seq(Bounded)
      BY <1>1, <1>2, AddBounded, ReplaceBounded, Zenon
    <2> QED BY <2>1, SMTT(30) DEF AddForProcess, i
  <1> QED BY <1>3, <1>4

\* The operations on the entry of an executable.
LEMMA OfExeBounded ==
    ASSUME NEW pool \in Seq(Bounded), NEW app, NEW max \in Nat
    PROVE  /\ ExpungeByExe(pool, app) \in Seq(Bounded)
           /\ SetNumberOfCommandsByExe(pool, app, max) \in Seq(Bounded)
  <1> DEFINE j == OfExe(pool, app)
  <1>1. j \in 0..Len(pool)
    BY FoundInPool, Zenon
  <1>2. j # 0 => pool[j] \in Bounded /\ pool[j] \in Entries
    BY <1>1, SMTT(30) DEF Bounded
  <1> HIDE DEF j
  <1>3. ExpungeByExe(pool, app) \in Seq(Bounded)
    <2>1. j # 0 => [pool EXCEPT ![j].commands = <<>>] \in Seq(Bounded)
      BY <1>1, <1>2, HandsBounded, ReplaceBounded, Zenon
    <2> QED BY <2>1 DEF ExpungeByExe, j
  <1>4. SetNumberOfCommandsByExe(pool, app, max) \in Seq(Bounded)
    <2>1. j # 0 => ToFront(pool, j, Realloc(pool[j], max)) \in Seq(Bounded)
      BY <1>1, <1>2, ReallocBounded, ReplaceBounded, Zenon
    <2> QED BY <2>1, SMTT(30) DEF SetNumberOfCommandsByExe, j
  <1> QED BY <1>3, <1>4, SMTT(30)

\* The new limit of every entry.
LEMMA ResizeAllBounded ==
    ASSUME NEW pool \in Seq(Bounded), NEW max \in Nat
    PROVE  ResizeAll(pool, max) \in Seq(Bounded)
  <1>1. \A k \in 1..Len(pool) : pool[k] \in Entries
    BY DEF Bounded
  <1>2. \A k \in 1..Len(pool) : Realloc(pool[k], max) \in Bounded
    BY <1>1, ReallocBounded, Zenon
  <1>3. Len(pool) \in Nat
    BY SMTT(30)
  <1> QED BY <1>2, <1>3, SMTT(30) DEF ResizeAll

-----------------------------------------------------------------------------
(***************************************************************************)
(* The inductive invariant.                                                *)
(***************************************************************************)
\* The server starts without clients and with its own screen buffer active.
LEMMA InitOK == Init => IInv
  <1> SUFFICES ASSUME Init PROVE IInv
    BY SMTT(30)
  <1> USE CellAssumption
  <1>1. TablesOK
    BY DEF Init, TablesOK
  <1>2. HistoriesOK
    BY DEF Init, HistoriesOK
  <1>3. FlagsOK
    BY Zenon DEF Init, FlagsOK, Statuses
  <1>4. ObjectsOwned
    BY DEF Init, ObjectsOwned
  <1> QED BY <1>1, <1>2, <1>3, <1>4 DEF IInv

\* A reply is one of the statuses, and none of the messages but a disconnect asks to exit.
LEMMA ReplyFlags ==
    ASSUME FlagsOK, NEW status \in Statuses, Reply(status), noDuplicates' = noDuplicates
    PROVE  FlagsOK'
  BY Zenon DEF FlagsOK, Reply

\* What a client may ask to be created is a well-formed object.
LEMMA NewObjectsOK ==
    ASSUME TablesOK, NEW p \in ProcessCells
    PROVE  /\ InputObject(p) \in Objects /\ InputObject(p).owner = p
           /\ \A b \in Buffers : OutputObject(p, b) \in Objects /\ OutputObject(p, b).owner = p
           /\ \A o \in NewObjects(p) : o \in Objects /\ o.owner = p
  <1>1. InputObject(p) \in Objects /\ InputObject(p).owner = p
    BY SMTT(30) DEF InputObject, Objects
  <1>2. \A b \in Buffers : OutputObject(p, b) \in Objects /\ OutputObject(p, b).owner = p
    BY DEF OutputObject, Objects
  <1>3. \A o \in NewObjects(p) : o \in Objects /\ o.owner = p
    BY <1>1, <1>2, Zenon DEF NewObjects, TablesOK
  <1> QED BY <1>1, <1>2, <1>3

\* connect_client adds a process together with its two handles, or nothing.
LEMMA ConnectOK ==
    ASSUME IInv, NEW app \in Apps, Connect(app)
    PROVE  IInv'
  <1> USE DEF IInv
  <1>1. FlagsOK'
    <2>1. Reply("success") \/ Reply("noMemory")
      BY ZenonT(30) DEF Connect, ConnectSucceeds, ConnectFails
    <2>2. noDuplicates' = noDuplicates
      BY Zenon DEF Connect
    <2> QED BY <2>1, <2>2, ReplyFlags, Zenon DEF Statuses
  <1>2. CASE ConnectFails(app)
    <2>1. TablesOK' /\ ObjectsOwned'
      BY <1>2, SMTT(30) DEF ConnectFails, Connect, TablesOK, ObjectsOwned
    <2>2. HistoriesOK'
      BY <1>2 DEF ConnectFails, Connect, HistoriesOK
    <2> QED BY <1>1, <2>1, <2>2
  <1>3. CASE ConnectSucceeds(app)
    <2>1. PICK p \in FreeProcessCells, in \in FreeObjectCells, out \in FreeObjectCells, failure \in Failures :
            /\ in # out
            /\ processes' = Put(processes, p, [sequence |-> nextSequence, app |-> app])
            /\ objects' = Put(Put(objects, in, InputObject(p)), out, OutputObject(p, active))
            /\ histories' = AllocateForProcess(histories, app, p, bufferCount, bufferSize, failure)
      BY <1>3, ZenonT(30) DEF ConnectSucceeds
    <2>2. /\ p \in ProcessCells /\ p \notin DOMAIN processes
          /\ in \in ObjectCells /\ out \in ObjectCells
      BY DEF FreeProcessCells, FreeObjectCells
    <2>3. [sequence |-> nextSequence, app |-> app] \in [sequence : Nat, app : Apps]
      BY DEF TablesOK
    <2>4. /\ processes' \in [DOMAIN processes' -> [sequence : Nat, app : Apps]]
          /\ DOMAIN processes' = DOMAIN processes \cup {p}
      <3> DEFINE R == [sequence : Nat, app : Apps]
                 v == [sequence |-> nextSequence, app |-> app]
      <3>1. processes \in [DOMAIN processes -> R] /\ v \in R
        BY <2>3 DEF TablesOK
      <3>2. processes' = Put(processes, p, v)
        BY <2>1
      <3> HIDE DEF R, v
      <3>3. processes' \in [DOMAIN processes' -> R] /\ DOMAIN processes' = DOMAIN processes \cup {p}
        BY <3>1, <3>2, SMT DEF Put
      <3> QED BY <3>3 DEF R
    <2> DEFINE half == Put(objects, in, InputObject(p))
    <2>5. /\ half \in [DOMAIN half -> Objects]
          /\ DOMAIN half = DOMAIN objects \cup {in}
          /\ half[in] = InputObject(p)
          /\ \A h \in DOMAIN objects : h # in => half[h] = objects[h]
      <3>1. InputObject(p) \in Objects
        BY <2>2, NewObjectsOK, SMTT(30)
      <3>2. objects \in [DOMAIN objects -> Objects]
        BY DEF TablesOK
      <3> QED BY <3>1, <3>2, SMTT(30) DEF Put
    <2> HIDE DEF half
    <2>6. OutputObject(p, active) \in Objects /\ OutputObject(p, active).owner = p
      BY <2>2, NewObjectsOK DEF TablesOK
    <2>7. objects' = Put(half, out, OutputObject(p, active))
      BY <2>1 DEF half
    <2>8. /\ objects' \in [DOMAIN objects' -> Objects]
          /\ DOMAIN objects' = DOMAIN objects \cup {in, out}
          /\ objects'[out] = OutputObject(p, active)
          /\ \A h \in DOMAIN half : h # out => objects'[h] = half[h]
      <3>1. DOMAIN half \cup {out} = DOMAIN objects \cup {in, out}
        BY <2>5, SMTT(30)
      <3>2. /\ objects' \in [DOMAIN objects' -> Objects]
            /\ DOMAIN objects' = DOMAIN half \cup {out}
            /\ objects'[out] = OutputObject(p, active)
            /\ \A h \in DOMAIN half : h # out => objects'[h] = half[h]
        BY <2>5, <2>6, <2>7, SMT DEF Put
      <3> QED BY <3>1, <3>2, Zenon
    <2>9. TablesOK'
      <3>1. active' = active /\ nextSequence' = nextSequence + 1
        BY <1>3, SMTT(30) DEF Connect, ConnectSucceeds
      <3> QED BY <2>2, <2>4, <2>8, <3>1, SMTT(30) DEF TablesOK
    <2>10. ObjectsOwned'
      <3> SUFFICES ASSUME NEW h \in DOMAIN objects' PROVE objects'[h].owner \in DOMAIN processes'
        BY SMTT(30) DEF ObjectsOwned
      <3>1. CASE h = out
        BY <3>1, <2>4, <2>6, <2>8
      <3>2. CASE h # out /\ h = in
        BY <3>2, <2>2, <2>4, <2>5, <2>8, NewObjectsOK, SMTT(30)
      <3>3. CASE h # out /\ h # in
        <4>1. h \in DOMAIN objects /\ objects'[h] = objects[h]
          BY <3>3, <2>5, <2>8
        <4> QED BY <4>1, <2>4, SMTT(30) DEF ObjectsOwned
      <3> QED BY <3>1, <3>2, <3>3
    <2>11. HistoriesOK'
      <3>1. bufferSize' = bufferSize /\ bufferCount' = bufferCount
        BY SMTT(30) DEF Connect
      <3> QED BY <2>1, <2>2, <3>1, AllocateBounded, SMTT(30) DEF HistoriesOK
    <2> QED BY <1>1, <2>9, <2>10, <2>11
  <1> QED BY <1>2, <1>3, ZenonT(30) DEF Connect

\* disconnect_client takes the handles of the process with it.
LEMMA DisconnectOK ==
    ASSUME IInv, NEW p \in ProcessCells, Disconnect(p)
    PROVE  IInv'
  <1> USE DEF IInv
  <1>1. FlagsOK'
    <2>1. reply' \in Statuses
      BY SMTT(30) DEF Disconnect, Statuses
    <2>2. requestExit' \in BOOLEAN
      BY Zenon DEF Disconnect
    <2>3. noDuplicates' = noDuplicates
      BY Zenon DEF Disconnect
    <2> QED BY <2>1, <2>2, <2>3, Zenon DEF FlagsOK
  <1>2. HistoriesOK'
    <2>1. histories' = FreeForProcess(histories, p) \/ histories' = histories
      BY SMTT(30) DEF Disconnect
    <2>2. FreeForProcess(histories, p) \in Seq(Bounded)
      BY OfProcessBounded DEF HistoriesOK
    <2>3. bufferSize' = bufferSize /\ bufferCount' = bufferCount
      BY DEF Disconnect
    <2> QED BY <2>1, <2>2, <2>3, Zenon DEF HistoriesOK
  <1>3. active' = active /\ nextSequence' = nextSequence
    BY DEF Disconnect
  <1>4. CASE p \notin DOMAIN processes
    <2>1. processes' = processes /\ objects' = objects
      BY <1>4, ZenonT(30) DEF Disconnect, tableVars
    <2> QED BY <1>1, <1>2, <1>3, <2>1 DEF TablesOK, ObjectsOwned
  <1>5. CASE p \in DOMAIN processes
    <2>1. objects' = Without(objects, OwnedBy(p)) /\ processes' = Without(processes, {p})
      BY <1>5, ZenonT(30) DEF Disconnect
    <2>2. /\ objects' \in [DOMAIN objects' -> Objects]
          /\ DOMAIN objects' = DOMAIN objects \ OwnedBy(p)
          /\ \A h \in DOMAIN objects' : objects'[h] = objects[h]
      <3>1. objects \in [DOMAIN objects -> Objects]
        BY SMTT(30) DEF TablesOK
      <3> QED BY <2>1, <3>1, SMT DEF Without
    <2>3. /\ processes' \in [DOMAIN processes' -> [sequence : Nat, app : Apps]]
          /\ DOMAIN processes' = DOMAIN processes \ {p}
      <3> DEFINE R == [sequence : Nat, app : Apps]
      <3>1. processes \in [DOMAIN processes -> R]
        BY DEF TablesOK
      <3> HIDE DEF R
      <3>2. processes' \in [DOMAIN processes' -> R] /\ DOMAIN processes' = DOMAIN processes \ {p}
        BY <2>1, <3>1, SMT DEF Without
      <3> QED BY <3>2 DEF R
    <2>4. TablesOK'
      BY <1>3, <2>2, <2>3, SMTT(30) DEF TablesOK
    <2>5. ObjectsOwned'
      BY <2>2, <2>3, SMTT(30) DEF ObjectsOwned, OwnedBy
    <2> QED BY <1>1, <1>2, <2>4, <2>5
  <1> QED BY <1>4, <1>5

\* A new handle belongs to the connected process that asked for it.
LEMMA CreateObjectOK ==
    ASSUME IInv, NEW p \in ProcessCells, CreateObject(p)
    PROVE  IInv'
  <1> USE DEF IInv
  <1>1. /\ processes' = processes /\ active' = active /\ nextSequence' = nextSequence
        /\ histories' = histories /\ bufferSize' = bufferSize /\ bufferCount' = bufferCount
    BY SMTT(30) DEF CreateObject, historyVars
  <1>2. HistoriesOK'
    BY <1>1 DEF HistoriesOK
  <1>3. FlagsOK'
    <2>1. \E status \in Statuses : Reply(status)
      BY ZenonT(30) DEF CreateObject, Statuses
    <2>2. noDuplicates' = noDuplicates
      BY Zenon DEF CreateObject, historyVars
    <2> QED BY <2>1, <2>2, ReplyFlags, Zenon
  <1>4. CASE objects' = objects
    BY <1>1, <1>2, <1>3, <1>4 DEF TablesOK, ObjectsOwned
  <1>5. CASE p \in DOMAIN processes /\ \E h \in FreeObjectCells, o \in NewObjects(p) : objects' = Put(objects, h, o)
    <2>1. PICK h \in FreeObjectCells, o \in NewObjects(p) : objects' = Put(objects, h, o)
      BY <1>5, SMTT(30)
    <2>2. h \in ObjectCells /\ o \in Objects /\ o.owner = p
      BY NewObjectsOK DEF FreeObjectCells
    <2>3. /\ objects' \in [DOMAIN objects' -> Objects]
          /\ DOMAIN objects' = DOMAIN objects \cup {h}
          /\ objects'[h] = o
          /\ \A x \in DOMAIN objects : x # h => objects'[x] = objects[x]
      <3>1. objects \in [DOMAIN objects -> Objects]
        BY SMTT(30) DEF TablesOK
      <3> QED BY <2>1, <2>2, <3>1, SMT DEF Put
    <2>4. TablesOK'
      BY <1>1, <2>2, <2>3 DEF TablesOK
    <2>5. ObjectsOwned'
      BY <1>1, <1>5, <2>2, <2>3, SMTT(30) DEF ObjectsOwned
    <2> QED BY <1>2, <1>3, <2>4, <2>5, SMTT(30)
  <1> QED BY <1>4, <1>5, Zenon DEF CreateObject

\* Closing a handle leaves the others as they are.
LEMMA CloseObjectOK ==
    ASSUME IInv, NEW h \in ObjectCells, CloseObject(h)
    PROVE  IInv'
  <1> USE DEF IInv
  <1>1. /\ processes' = processes /\ active' = active /\ nextSequence' = nextSequence
        /\ histories' = histories /\ bufferSize' = bufferSize /\ bufferCount' = bufferCount
    BY SMTT(30) DEF CloseObject, historyVars
  <1>2. HistoriesOK'
    BY <1>1 DEF HistoriesOK
  <1>3. FlagsOK'
    <2>1. \E status \in Statuses : Reply(status)
      BY ZenonT(30) DEF CloseObject, Statuses
    <2>2. noDuplicates' = noDuplicates
      BY Zenon DEF CloseObject, historyVars
    <2> QED BY <2>1, <2>2, ReplyFlags, Zenon
  <1>4. objects' = objects \/ objects' = Without(objects, {h})
    BY Zenon DEF CloseObject
  <1>5. /\ objects' \in [DOMAIN objects' -> Objects]
        /\ DOMAIN objects' \subseteq DOMAIN objects
        /\ \A x \in DOMAIN objects' : objects'[x] = objects[x]
    <2>1. objects \in [DOMAIN objects -> Objects]
      BY SMTT(30) DEF TablesOK
    <2> QED BY <1>4, <2>1, SMT DEF Without
  <1>6. TablesOK'
    BY <1>1, <1>5 DEF TablesOK
  <1>7. ObjectsOwned'
    BY <1>1, <1>5 DEF ObjectsOwned
  <1> QED BY <1>2, <1>3, <1>6, <1>7, SMTT(30)

\* Only the active buffer changes, and it becomes the buffer of an output handle.
LEMMA SetActiveOK ==
    ASSUME IInv, NEW h \in ObjectCells, SetActiveScreenBuffer(h)
    PROVE  IInv'
  <1> USE DEF IInv
  <1>1. /\ processes' = processes /\ objects' = objects /\ nextSequence' = nextSequence
        /\ histories' = histories /\ bufferSize' = bufferSize /\ bufferCount' = bufferCount
    BY SMTT(30) DEF SetActiveScreenBuffer, tableVars, historyVars
  <1>2. HistoriesOK'
    BY <1>1 DEF HistoriesOK
  <1>3. FlagsOK'
    <2>1. \E status \in Statuses : Reply(status)
      BY ZenonT(30) DEF SetActiveScreenBuffer, Statuses
    <2>2. noDuplicates' = noDuplicates
      BY Zenon DEF SetActiveScreenBuffer, historyVars
    <2> QED BY <2>1, <2>2, ReplyFlags, Zenon
  <1>4. active' \in Buffers
    <2>1. CASE h \in DOMAIN objects /\ objects[h].kind = "output"
      <3>1. objects[h] \in Objects /\ active' = objects[h].buffer
        BY <2>1 DEF SetActiveScreenBuffer, TablesOK
      <3> QED BY <2>1, <3>1 DEF Objects
    <2>2. CASE ~(h \in DOMAIN objects /\ objects[h].kind = "output")
      BY <2>2 DEF SetActiveScreenBuffer, TablesOK
    <2> QED BY <2>1, <2>2
  <1>5. TablesOK' /\ ObjectsOwned'
    BY <1>1, <1>4 DEF TablesOK, ObjectsOwned
  <1> QED BY <1>2, <1>3, <1>5

\* A step that changes the histories alone keeps the invariant if they stay bounded.
LEMMA HistoryStepOK ==
    ASSUME IInv, UNCHANGED <<tableVars, active, nextSequence>>,
           histories' \in Seq(Bounded), bufferSize' \in Nat, bufferCount' \in Nat, FlagsOK'
    PROVE  IInv'
  <1>1. /\ processes' = processes /\ objects' = objects
        /\ active' = active /\ nextSequence' = nextSequence
    BY DEF tableVars
  <1>2. TablesOK' /\ ObjectsOwned'
    BY <1>1 DEF IInv, TablesOK, ObjectsOwned
  <1> QED BY <1>2 DEF IInv, HistoriesOK

\* The messages that change histories.
LEMMA HistoriesStepsOK ==
    ASSUME IInv,
           \/ \E h \in ObjectCells, text \in Texts : RecordCommand(h, text)
           \/ \E app \in Apps : ExpungeCommandHistory(app)
           \/ \E app \in Apps, n \in HistorySizes : SetNumberOfCommands(app, n)
           \/ \E size, count \in HistorySizes, noDup \in BOOLEAN : SetHistory(size, count, noDup)
    PROVE  IInv'
  <1>1. histories \in Seq(Bounded) /\ bufferSize \in Nat /\ bufferCount \in Nat
    BY SMTT(30) DEF IInv, HistoriesOK
  <1>2. FlagsOK
    BY DEF IInv
  <1>3. ASSUME NEW h \in ObjectCells, NEW text \in Texts, RecordCommand(h, text)
        PROVE  IInv'
    <2>1. UNCHANGED <<tableVars, active, nextSequence, bufferSize, bufferCount>>
      BY <1>3, SMTT(90) DEF RecordCommand
    <2>2. FlagsOK'
      <3>1. Reply("success") /\ noDuplicates' = noDuplicates
        BY <1>3, ZenonT(30) DEF RecordCommand
      <3> QED BY <1>2, <3>1, ReplyFlags, Zenon DEF Statuses
    <2>3. objects[h].owner \in DOMAIN processes
      BY <1>3, SMTT(30) DEF RecordCommand, IInv, ObjectsOwned
    <2>4. [by |-> processes[objects[h].owner].app, text |-> text] \in Commands
      BY <2>3 DEF IInv, TablesOK, Commands
    <2>5. noDuplicates \in BOOLEAN
      BY <1>2, Zenon DEF FlagsOK
    <2>6. histories' \in Seq(Bounded)
      BY <1>1, <1>3, <2>4, <2>5, OfProcessBounded, ZenonT(30) DEF RecordCommand
    <2> QED BY <1>1, <2>1, <2>2, <2>6, HistoryStepOK
  <1>4. ASSUME NEW app \in Apps, ExpungeCommandHistory(app)
        PROVE  IInv'
    <2>1. UNCHANGED <<tableVars, active, nextSequence, bufferSize, bufferCount>>
      BY <1>4, SMTT(30) DEF ExpungeCommandHistory
    <2>2. FlagsOK'
      <3>1. \E status \in Statuses : Reply(status)
        BY <1>4, ZenonT(30) DEF ExpungeCommandHistory, Undecodable, Statuses
      <3>2. noDuplicates' = noDuplicates
        BY <1>4, Zenon DEF ExpungeCommandHistory
      <3> QED BY <1>2, <3>1, <3>2, ReplyFlags, Zenon
    <2>3. histories' = ExpungeByExe(histories, app) \/ histories' = histories
      BY <1>4, Zenon DEF ExpungeCommandHistory, Undecodable
    <2>4. ExpungeByExe(histories, app) \in Seq(Bounded)
      BY <1>1, OfExeBounded
    <2>5. histories' \in Seq(Bounded)
      BY <1>1, <2>3, <2>4, Zenon
    <2> QED BY <1>1, <2>1, <2>2, <2>5, HistoryStepOK, SMTT(30)
  <1>5. ASSUME NEW app \in Apps, NEW n \in HistorySizes, SetNumberOfCommands(app, n)
        PROVE  IInv'
    <2>1. UNCHANGED <<tableVars, active, nextSequence, bufferSize, bufferCount>>
      BY <1>5, SMTT(30) DEF SetNumberOfCommands
    <2>2. FlagsOK'
      <3>1. \E status \in Statuses : Reply(status)
        BY <1>5, ZenonT(30) DEF SetNumberOfCommands, Undecodable, Statuses
      <3>2. noDuplicates' = noDuplicates
        BY <1>5, Zenon DEF SetNumberOfCommands
      <3> QED BY <1>2, <3>1, <3>2, ReplyFlags, Zenon
    <2>3. histories' = SetNumberOfCommandsByExe(histories, app, n) \/ histories' = histories
      BY <1>5, Zenon DEF SetNumberOfCommands, Undecodable
    <2>4. SetNumberOfCommandsByExe(histories, app, n) \in Seq(Bounded)
      BY <1>1, CellAssumption, OfExeBounded
    <2>5. histories' \in Seq(Bounded)
      BY <1>1, <2>3, <2>4, ZenonT(30)
    <2> QED BY <1>1, <2>1, <2>2, <2>5, HistoryStepOK, SMTT(30)
  <1>6. ASSUME NEW size \in HistorySizes, NEW count \in HistorySizes, NEW noDup \in BOOLEAN,
               SetHistory(size, count, noDup)
        PROVE  IInv'
    <2>1. /\ UNCHANGED <<tableVars, active, nextSequence>>
          /\ bufferSize' = size /\ bufferCount' = count /\ size \in Nat /\ count \in Nat
      BY <1>6, CellAssumption, SMTT(30) DEF SetHistory
    <2>2. FlagsOK'
      <3>1. Reply("success") /\ noDuplicates' \in BOOLEAN
        BY <1>6, Zenon DEF SetHistory
      <3> QED BY <3>1, Zenon DEF FlagsOK, Reply, Statuses
    <2>3. histories' \in Seq(Bounded)
      BY <1>1, <1>6, <2>1, ResizeAllBounded DEF SetHistory
    <2> QED BY <2>1, <2>2, <2>3, HistoryStepOK, SMTT(30)
  <1> QED BY <1>3, <1>4, <1>5, <1>6, Zenon

\* Every step of the server keeps the tables consistent.
LEMMA NextOK == IInv /\ [Next]_vars => IInv'
  <1>1. ASSUME IInv, Next PROVE IInv'
    BY <1>1, ConnectOK, DisconnectOK, CreateObjectOK, CloseObjectOK, SetActiveOK, HistoriesStepsOK, Zenon
       DEF Next
  <1>2. ASSUME IInv, UNCHANGED vars PROVE IInv'
    <2>1. FlagsOK'
      BY <1>2, ZenonT(30) DEF vars, historyVars, IInv, FlagsOK
    <2>2. /\ UNCHANGED <<tableVars, active, nextSequence>>
          /\ histories' = histories /\ bufferSize' = bufferSize /\ bufferCount' = bufferCount
      BY <1>2 DEF vars, historyVars
    <2>3. histories' \in Seq(Bounded) /\ bufferSize' \in Nat /\ bufferCount' \in Nat
      BY <1>2, <2>2 DEF IInv, HistoriesOK
    <2> QED BY <1>2, <2>1, <2>2, <2>3, HistoryStepOK, SMTT(30)
  <1> QED BY <1>1, <1>2, SMTT(30)

-----------------------------------------------------------------------------
\* The inductive invariant holds throughout.
THEOREM TablesInvariant == Spec => []IInv
  BY InitOK, NextOK, PTL DEF Spec

\* A handle always belongs to a connected process, for any number of clients and handles and
\* however addresses are reused.
THEOREM HandlesOwned == Spec => []ObjectsOwned
  <1>1. IInv => ObjectsOwned
    BY DEF IInv
  <1> QED BY TablesInvariant, <1>1, PTL

\* The tables are well formed for any number of clients, handles and histories.
THEOREM TablesTyped == Spec => []TypeOK
  <1>1. IInv => TypeOK
    <2> SUFFICES ASSUME IInv PROVE TypeOK
      OBVIOUS
    <2>1. histories \in Seq(Histories(Apps, ProcessCells, Commands))
      BY DEF IInv, HistoriesOK, Bounded, Entries
    <2> QED BY <2>1, Zenon DEF TypeOK, IInv, TablesOK, HistoriesOK, FlagsOK
  <1> QED BY TablesInvariant, <1>1, PTL

\* A history never outgrows its limit, for any limit and any sequence of changes to it.
THEOREM HistoriesBounded == Spec => []CommandsWithinLimit
  <1>1. IInv => CommandsWithinLimit
    BY DEF IInv, HistoriesOK, CommandsWithinLimit, Bounded
  <1> QED BY TablesInvariant, <1>1, PTL

\* No refused message changes a table.
THEOREM RefusalsHarmless == Spec => RefusalsChangeNothing
  <1>1. ASSUME Next, reply' # "success"
        PROVE  UNCHANGED <<tableVars, active, historyVars>>
    <2>1. ASSUME NEW app \in Apps, Connect(app)
          PROVE  UNCHANGED <<tableVars, active, historyVars>>
      BY <1>1, <2>1, ZenonT(30) DEF Connect, ConnectSucceeds, ConnectFails, Reply, tableVars, historyVars
    <2>2. ASSUME NEW p \in ProcessCells, Disconnect(p) \/ CreateObject(p)
          PROVE  UNCHANGED <<tableVars, active, historyVars>>
      BY <1>1, <2>2, Zenon DEF Disconnect, CreateObject, Reply, tableVars, historyVars
    <2>3. ASSUME NEW h \in ObjectCells, CloseObject(h) \/ SetActiveScreenBuffer(h)
          PROVE  UNCHANGED <<tableVars, active, historyVars>>
      BY <1>1, <2>3, ZenonT(30) DEF CloseObject, SetActiveScreenBuffer, Reply, tableVars, historyVars
    <2>4. ASSUME NEW h \in ObjectCells, NEW text \in Texts, RecordCommand(h, text)
          PROVE  FALSE
      BY <1>1, <2>4, ZenonT(30) DEF RecordCommand, Reply
    <2>5. ASSUME NEW app \in Apps, NEW n, ExpungeCommandHistory(app) \/ SetNumberOfCommands(app, n)
          PROVE  UNCHANGED <<tableVars, active, historyVars>>
      BY <1>1, <2>5, ZenonT(30)
         DEF ExpungeCommandHistory, SetNumberOfCommands, Undecodable, Reply, tableVars, historyVars
    <2>6. ASSUME NEW size, NEW count, NEW noDup, SetHistory(size, count, noDup)
          PROVE  FALSE
      BY <1>1, <2>6, Zenon DEF SetHistory, Reply
    <2> QED BY <1>1, <2>1, <2>2, <2>3, <2>4, <2>5, <2>6, Zenon DEF Next
  <1>2. [Next]_vars => [reply' # "success" => UNCHANGED <<tableVars, active, historyVars>>]_vars
    BY <1>1
  <1> QED BY <1>2, PTL DEF Spec, RefusalsChangeNothing
=============================================================================
