------------------------- MODULE DeckRegistryProofs -------------------------
(***************************************************************************)
(* Proofs about DeckRegistry, for every set of updates, every limit and    *)
(* every number of sockets and leases.                                     *)
(***************************************************************************)
EXTENDS DeckRegistry, TLAPS

-----------------------------------------------------------------------------
\* The files keep their type whatever an append or a rename leaves.

LEMMA OneMoreType ==
  ASSUME NEW lines \in 0 .. CompactAfter
  PROVE  OneMore(lines) \in 0 .. CompactAfter
BY CompactAfterAssumption DEF OneMore

LEMMA LineWrittenType ==
  ASSUME NEW log \in LogType, NEW batch \in SUBSET Updates
  PROVE  LineWritten(log, batch) \in LogType
BY OneMoreType DEF LineWritten, LogType

LEMMA LineCutType ==
  ASSUME NEW log \in LogType
  PROVE  LineCut(log) \in LogType
BY OneMoreType DEF LineCut, LogType

LEMMA AfterFailedAppendType ==
  ASSUME NEW log \in LogType, NEW batch \in SUBSET Updates,
         NEW left \in {"nothing", "part", "line"}
  PROVE  AfterFailedAppend(log, batch, left) \in LogType
BY LineWrittenType, LineCutType DEF AfterFailedAppend

LEMMA NoFilesType == NoFiles \in FilesType
BY CompactAfterAssumption DEF NoFiles, NoSnapshot, EmptyLog, FilesType, SnapshotType, LogType

LEMMA EmptyLogType == EmptyLog \in LogType
BY CompactAfterAssumption DEF EmptyLog, LogType

LEMMA ReplaceLog ==
  ASSUME NEW log \in LogType, files \in FilesType
  PROVE  [files EXCEPT !.log = log] \in FilesType
BY DEF FilesType

LEMMA ReplaceSnapshot ==
  ASSUME NEW snapshot \in SnapshotType, files \in FilesType
  PROVE  [files EXCEPT !.snapshot = snapshot] \in FilesType
BY DEF FilesType

LEMMA AfterFailureType ==
  ASSUME TypeOK
  PROVE  AfterFailure \subseteq FilesType
<1>1. SUFFICES ASSUME NEW result \in AfterFailure PROVE result \in FilesType
  OBVIOUS
<1>2. files \in FilesType /\ files.log \in LogType /\ flush.batch \in SUBSET Updates /\ flush.state \in SUBSET Updates
  BY DEF TypeOK, FilesType
<1>3. SnapshotOf(flush.state) \in SnapshotType
  BY <1>2 DEF SnapshotOf, SnapshotType
<1>4. \A left \in FailedAppendLeaves :
         [files EXCEPT !.log = AfterFailedAppend(files.log, flush.batch, left)] \in FilesType
  BY <1>2, AfterFailedAppendType, ReplaceLog, FaultsAssumption
<1>5. [files EXCEPT !.snapshot = SnapshotOf(flush.state)] \in FilesType
  BY <1>2, <1>3, ReplaceSnapshot
<1>6. [files EXCEPT !.log = EmptyLog] \in FilesType
  BY <1>2, EmptyLogType, ReplaceLog
<1>7. QED
  BY <1>1, <1>2, <1>4, <1>5, <1>6 DEF AfterFailure

-----------------------------------------------------------------------------
\* Type correctness.

FlushType == [phase: {"idle", "append", "snapshot", "truncate", "touch"},
              batch: SUBSET Updates, state: SUBSET Updates]

LEMMA FlushOfType ==
  ASSUME NEW batch \in SUBSET Updates
  PROVE  FlushOf(batch) \in FlushType
BY DEF FlushOf, IdleFlush, FlushType

LEMMA DisposeType ==
  ASSUME TypeOK, Dispose
  PROVE  /\ room' \in {"absent", "seeding", "loading", "loaded", "forgotten"}
         /\ doc' \in SUBSET Updates /\ pending' \in SUBSET Updates
         /\ flush' \in FlushType /\ flushTimer' \in BOOLEAN
         /\ logLines' \in 0 .. CompactAfter
         /\ failures' \in 0 .. CloseAfter
<1>1. flush' \in FlushType
  BY DEF Dispose, IdleFlush, FlushType
<1>2. 0 \in 0 .. CompactAfter /\ 0 \in 0 .. CloseAfter
  BY CompactAfterAssumption, LimitsAssumption
<1>3. QED
  BY <1>1, <1>2 DEF Dispose

\* Sockets, leases and orphans, as TypeOK has them.
UsersCounted ==
  /\ connections \in 0 .. MaxConnections
  /\ leases \in 0 .. MaxLeases
  /\ orphans \in 0 .. MaxLeases
  /\ leases + orphans <= MaxLeases

UsersType == UsersCounted /\ unloadTimer \in BOOLEAN

LEMMA ZeroUsers == 0 \in 0 .. MaxConnections /\ 0 \in 0 .. MaxLeases /\ 0 + 0 <= MaxLeases
BY LimitsAssumption

\* A room that goes makes orphans of its leases.
LEMMA LeaveUsersType ==
  ASSUME TypeOK, LeaveUsers
  PROVE  UsersType'
<1>1. connections' = 0 /\ leases' = 0 /\ orphans' = orphans + leases /\ unloadTimer' = FALSE
  BY DEF LeaveUsers
<1>2. MaxLeases \in Nat /\ MaxConnections \in Nat
  BY LimitsAssumption
<1>3. leases \in 0 .. MaxLeases /\ orphans \in 0 .. MaxLeases /\ leases + orphans <= MaxLeases
  BY DEF TypeOK
<1>4. orphans' \in 0 .. MaxLeases /\ leases' + orphans' <= MaxLeases
  BY <1>1, <1>2, <1>3
<1>5. UsersCounted'
  BY <1>1, <1>4, ZeroUsers DEF UsersCounted
<1>6. QED
  BY <1>1, <1>5 DEF UsersType

\* Whatever a step does to a room, its sockets and leases keep their type.
LEMMA UsersAfterType ==
  ASSUME TypeOK, NEW sockets \in 0 .. MaxConnections, NEW armed \in BOOLEAN,
         UsersAfter(sockets, armed) \/ LeaveUsers
  PROVE  UsersType'
<1>1. CASE LeaveUsers
  BY <1>1, LeaveUsersType
<1>2. CASE connections' = sockets /\ unloadTimer' = armed /\ UNCHANGED <<leases, orphans>>
  BY <1>2 DEF UsersType, UsersCounted, TypeOK
<1>3. QED
  BY <1>1, <1>2 DEF UsersAfter

LEMMA CloseAllType ==
  ASSUME TypeOK
  PROVE  0 \in 0 .. MaxConnections /\ connections \in 0 .. MaxConnections
         /\ CheckedByCloseAll \in BOOLEAN /\ unloadTimer \in BOOLEAN
<1>1. (leases = 0) \in BOOLEAN /\ unloadTimer \in BOOLEAN /\ connections \in 0 .. MaxConnections
  BY DEF TypeOK
<1>2. CheckedByCloseAll \in BOOLEAN
  BY <1>1, Zenon DEF CheckedByCloseAll
<1>3. QED
  BY <1>1, <1>2, ZeroUsers

LEMMA StopType ==
  ASSUME Stop
  PROVE  UsersType'
<1>1. connections' = 0 /\ leases' = 0 /\ orphans' = 0 /\ unloadTimer' = FALSE
  BY DEF Stop
<1>2. UsersCounted'
  BY <1>1, ZeroUsers DEF UsersCounted
<1>3. QED
  BY <1>1, <1>2 DEF UsersType

\* One socket or lease more, or one less, and the check that follows.
LEMMA UsersStepType ==
  ASSUME TypeOK,
         \/ connections < MaxConnections /\ connections' = connections + 1 /\ leases' = leases /\ orphans' = orphans
         \/ connections > 0 /\ connections' = connections - 1 /\ leases' = leases /\ orphans' = orphans
         \/ leases + orphans < MaxLeases /\ leases' = leases + 1 /\ connections' = connections /\ orphans' = orphans
         \/ leases > 0 /\ leases' = leases - 1 /\ connections' = connections /\ orphans' = orphans
         \/ orphans > 0 /\ orphans' = orphans - 1 /\ connections' = connections /\ leases' = leases
         \/ orphans < MaxLeases /\ leases' = 1 /\ connections' = connections /\ orphans' = orphans,
         ScheduleUnloadCheck \/ CheckBeforeCounted \/ unloadTimer' = unloadTimer
  PROVE  UsersType'
<1>1. MaxLeases \in Nat /\ MaxConnections \in Nat
  BY LimitsAssumption
<1>2. /\ connections \in 0 .. MaxConnections /\ leases \in 0 .. MaxLeases
      /\ orphans \in 0 .. MaxLeases /\ leases + orphans <= MaxLeases
  BY DEF TypeOK
<1>3. UsersCounted'
  BY <1>1, <1>2 DEF UsersCounted
<1>4. unloadTimer' \in BOOLEAN
  <2>1. CASE ScheduleUnloadCheck
    BY <2>1, Zenon DEF ScheduleUnloadCheck
  <2>2. CASE CheckBeforeCounted
    BY <2>2, Zenon DEF CheckBeforeCounted, Idle
  <2>3. CASE unloadTimer' = unloadTimer
    BY <2>3 DEF TypeOK
  <2>4. QED
    BY <2>1, <2>2, <2>3
<1>5. QED
  BY <1>3, <1>4 DEF UsersType

LEMMA TypeInit == Init => TypeOK
<1>1. IdleFlush \in FlushType
  BY DEF IdleFlush, FlushType
<1>2. 0 \in 0 .. CompactAfter /\ 0 \in 0 .. CloseAfter
  BY CompactAfterAssumption, LimitsAssumption
<1>3. ASSUME Init PROVE UsersType
  <2>1. connections = 0 /\ leases = 0 /\ orphans = 0 /\ unloadTimer = FALSE
    BY <1>3 DEF Init, NoEntry
  <2>2. QED
    BY <2>1, ZeroUsers DEF UsersType, UsersCounted
<1>4. QED
  BY <1>1, <1>2, <1>3, NoFilesType DEF Init, NoEntry, TypeOK, UsersType, UsersCounted, FlushType

\* Whatever becomes of the entry when a flush is over, it keeps its type.
LEMMA SettleType ==
  ASSUME TypeOK, NEW rest \in SUBSET Updates, NEW failed \in 0 .. CloseAfter,
         Settle(rest, failed)
  PROVE  /\ room' \in {"absent", "seeding", "loading", "loaded", "forgotten"}
         /\ doc' \in SUBSET Updates /\ pending' \in SUBSET Updates
         /\ flush' \in FlushType /\ flushTimer' \in BOOLEAN
         /\ logLines' \in 0 .. CompactAfter
         /\ failures' \in 0 .. CloseAfter
         /\ unload' \in {"no", "first", "second"}
         /\ drained' \in BOOLEAN
<1>1. IdleFlush \in FlushType /\ FlushOf(rest) \in FlushType
  BY FlushOfType DEF IdleFlush, FlushType
<1>2. CASE unload = "no" /\ ~Dispose
  BY <1>1, <1>2 DEF Settle, Rearmed, TypeOK
<1>3. CASE unload = "first" /\ ~Dispose
  BY <1>1, <1>3 DEF Settle, TypeOK
<1>4. CASE Dispose
  <2>1. drained' \in BOOLEAN /\ unload' \in {"no", "first", "second"}
    BY DEF Settle, TypeOK
  <2>2. QED
    BY <1>4, <2>1, DisposeType
<1>5. QED
  BY <1>2, <1>3, <1>4 DEF Settle

LEMMA BeginUnloadType ==
  ASSUME TypeOK, BeginUnload
  PROVE  /\ room' \in {"absent", "seeding", "loading", "loaded", "forgotten"}
         /\ doc' \in SUBSET Updates /\ pending' \in SUBSET Updates
         /\ flush' \in FlushType /\ flushTimer' \in BOOLEAN
         /\ logLines' \in 0 .. CompactAfter
         /\ failures' \in 0 .. CloseAfter
         /\ unload' \in {"no", "first", "second"}
<1>1. CASE flush.phase # "idle"
  BY <1>1 DEF BeginUnload, entryVars, TypeOK, FlushType
<1>2. CASE flush.phase = "idle" /\ pending # {}
  <2>1. FlushOf(pending) \in FlushType
    BY FlushOfType DEF TypeOK
  <2>2. QED
    BY <1>2, <2>1 DEF BeginUnload, TypeOK
<1>3. CASE flush.phase = "idle" /\ pending = {}
  BY <1>3, DisposeType DEF BeginUnload
<1>4. QED
  BY <1>1, <1>2, <1>3

LEMMA TypeStep == TypeOK /\ [Next]_vars => TypeOK'
<1> SUFFICES ASSUME TypeOK, [Next]_vars PROVE TypeOK'
  OBVIOUS
<1> USE DEF processVars, entryVars, userVars
<1>1. flush \in FlushType /\ files \in FilesType /\ files.log \in LogType /\ files.snapshot \in SnapshotType
  BY DEF TypeOK, FlushType, FilesType
<1>2. CASE CreateDeck
  BY <1>2 DEF CreateDeck, TypeOK
<1>3. CASE SeedRoom
  <2>1. UsersType'
    BY <1>3, UsersStepType DEF SeedRoom
  <2>2. QED
    BY <1>3, <2>1, SeedAssumption DEF SeedRoom, UsersType, UsersCounted, TypeOK
<1>4. CASE StartLoad
  BY <1>4 DEF StartLoad, TypeOK
<1>5. CASE FinishLoad
  <2>1. doc' \in SUBSET Updates /\ logLines' \in 0 .. CompactAfter
    BY <1>1, <1>5 DEF FinishLoad, LoadDocument, Held, LogType, SnapshotType
  <2>2. UsersType'
    BY <1>5, UsersStepType DEF FinishLoad
  <2>3. QED
    BY <1>5, <2>1, <2>2 DEF FinishLoad, UsersType, UsersCounted, TypeOK
<1>6. CASE RefuseLoad
  BY <1>6 DEF RefuseLoad, TypeOK
<1>7. CASE Connect \/ Disconnect
  <2>1. UsersType'
    BY <1>7, UsersStepType DEF Connect, Disconnect
  <2>2. QED
    BY <1>7, <2>1 DEF Connect, Disconnect, UsersType, UsersCounted, TypeOK
<1>8. CASE Acquire \/ Release \/ ReleaseOrphan
  <2>1. UsersType'
    BY <1>8, UsersStepType DEF Acquire, Release, ReleaseOrphan
  <2>2. QED
    BY <1>8, <2>1 DEF Acquire, Release, ReleaseOrphan, UsersType, UsersCounted, TypeOK
<1>9. CASE \E update \in Updates : PersistUpdate(update)
  BY <1>9 DEF PersistUpdate, TypeOK
<1>10. CASE FlushTimerFires
  <2>1. flush' \in FlushType
    BY <1>10, FlushOfType DEF FlushTimerFires, TypeOK
  <2>2. QED
    BY <1>10, <2>1 DEF FlushTimerFires, TypeOK, FlushType
<1>11. CASE AppendResolves
  <2>1. files' \in FilesType
    BY <1>1, <1>11, LineWrittenType, ReplaceLog DEF AppendResolves, FlushType
  <2>2. flush' \in FlushType
    BY <1>1, <1>11 DEF AppendResolves, EncodeState, TypeOK, FlushType
  <2>3. logLines' \in 0 .. CompactAfter /\ failures' \in 0 .. CloseAfter
    BY <1>11, OneMoreType, LimitsAssumption DEF AppendResolves, TypeOK
  <2>4. acked' \in SUBSET Updates
    BY <1>1, <1>11 DEF AppendResolves, TypeOK, FlushType
  <2>5. QED
    BY <1>11, <2>1, <2>2, <2>3, <2>4 DEF AppendResolves, TypeOK, FlushType
<1>12. CASE SnapshotRenamed
  <2>1. SnapshotOf(flush.state) \in SnapshotType
    BY <1>1 DEF SnapshotOf, SnapshotType, FlushType
  <2>2. files' \in FilesType
    BY <1>1, <1>12, <2>1, ReplaceSnapshot DEF SnapshotRenamed
  <2>3. flush' \in FlushType
    BY <1>1, <1>12 DEF SnapshotRenamed, FlushType
  <2>4. QED
    BY <1>12, <2>2, <2>3 DEF SnapshotRenamed, TypeOK, FlushType
<1>13. CASE LogReplaced
  <2>1. files' \in FilesType
    BY <1>1, <1>13, EmptyLogType, ReplaceLog DEF LogReplaced
  <2>2. flush' \in FlushType
    BY <1>1, <1>13 DEF LogReplaced, FlushType
  <2>3. QED
    BY <1>13, <2>1, <2>2, CompactAfterAssumption DEF LogReplaced, TypeOK, FlushType
<1>14. CASE FlushResolves
  <2>1. Settle(pending, failures) /\ pending \in SUBSET Updates /\ failures \in 0 .. CloseAfter
    BY <1>14 DEF FlushResolves, TypeOK
  <2>2. UsersType'
    BY <1>14, CloseAllType, UsersAfterType DEF FlushResolves
  <2>3. QED
    BY <1>14, <2>1, <2>2, SettleType, LimitsAssumption DEF FlushResolves, UsersType, UsersCounted, TypeOK, FlushType
<1>15. CASE FlushFails
  <2>1. files' \in FilesType
    BY <1>15, AfterFailureType DEF FlushFails
  <2>2. PutBack \in SUBSET Updates
    BY <1>1 DEF PutBack, TypeOK, FlushType
  <2>3. OneMoreFailure(failures, CloseAfter) \in 0 .. CloseAfter
    BY LimitsAssumption DEF OneMoreFailure, TypeOK
  <2>4. UsersType'
    BY <1>15, CloseAllType, UsersAfterType DEF FlushFails
  <2>5. Settle(PutBack, OneMoreFailure(failures, CloseAfter))
    BY <1>15 DEF FlushFails
  <2>6. QED
    BY <1>15, <2>1, <2>2, <2>3, <2>4, <2>5, SettleType DEF FlushFails, UsersType, UsersCounted, TypeOK, FlushType
<1>16. CASE UnloadTimerFires
  <2>1. UsersType'
    BY <1>16, CloseAllType, UsersAfterType DEF UnloadTimerFires
  <2>2. CASE BeginUnload
    BY <1>16, <2>1, <2>2, BeginUnloadType DEF UnloadTimerFires, UsersType, UsersCounted, TypeOK, FlushType
  <2>3. CASE UNCHANGED <<room, entryVars, unload>>
    BY <1>16, <2>1, <2>3 DEF UnloadTimerFires, UsersType, UsersCounted, TypeOK
  <2>4. QED
    BY <1>16, <2>2, <2>3 DEF UnloadTimerFires
<1>17. CASE Shutdown
  <2>1. CASE room = "loaded"
    <3>1. UsersType'
      BY <1>17, <2>1, CloseAllType, UsersAfterType DEF Shutdown
    <3>2. QED
      BY <1>17, <2>1, <3>1, BeginUnloadType DEF Shutdown, UsersType, UsersCounted, TypeOK, FlushType
  <2>2. CASE room # "loaded"
    BY <1>17, <2>2, LimitsAssumption DEF Shutdown, TypeOK
  <2>3. QED
    BY <2>1, <2>2
<1>18. CASE DeleteDeck
  <2>1. CASE room = "loaded" /\ flush.phase = "idle"
    <3>1. UsersType'
      BY <1>18, <2>1, CloseAllType, UsersAfterType DEF DeleteDeck
    <3>2. QED
      BY <1>18, <2>1, <3>1, DisposeType DEF DeleteDeck, UsersType, UsersCounted, TypeOK, FlushType
  <2>2. CASE room = "loaded" /\ flush.phase # "idle"
    <3>1. /\ room' = "forgotten" /\ pending' = {} /\ flushTimer' = FALSE
          /\ doc' = doc /\ flush' = flush /\ logLines' = logLines /\ failures' = failures
      BY <1>18, <2>2 DEF DeleteDeck
    <3>2. /\ record' = "deleting" /\ acked' = {}
          /\ process' = process /\ drained' = drained /\ files' = files /\ unload' = unload
      BY <1>18, <2>2 DEF DeleteDeck
    <3>3. UsersType'
      BY <1>18, <2>2, CloseAllType, UsersAfterType DEF DeleteDeck
    <3>4. flush' \in FlushType /\ files' \in FilesType
      BY <1>1, <3>1, <3>2
    <3>5. QED
      BY <3>1, <3>2, <3>3, <3>4 DEF UsersType, UsersCounted, TypeOK, FlushType
  <2>3. CASE room # "loaded"
    BY <1>18, <2>3, LimitsAssumption DEF DeleteDeck, TypeOK
  <2>4. QED
    BY <2>1, <2>2, <2>3
<1>19. CASE FilesRemoved
  BY <1>19, NoFilesType DEF FilesRemoved, TypeOK
<1>20. CASE SnapshotDamaged \/ SnapshotRecovered
  <2>1. \A value \in BOOLEAN : [files EXCEPT !.snapshot.readable = value] \in FilesType
    BY <1>1 DEF FilesType, SnapshotType
  <2>2. files' \in FilesType
    BY <1>20, <2>1 DEF SnapshotDamaged, SnapshotRecovered
  <2>3. QED
    BY <1>20, <2>2 DEF SnapshotDamaged, SnapshotRecovered, TypeOK
<1>21. CASE Exit \/ Crash
  <2>1. files' \in FilesType
    BY <1>1, <1>21, AfterFailureType DEF Exit, Crash, Stop
  <2>2. QED
    BY <1>21, <2>1, DisposeType, StopType DEF Exit, Crash, Stop, UsersType, UsersCounted, TypeOK, FlushType
<1>22. CASE Restart
  BY <1>22 DEF Restart, TypeOK
<1>23. CASE UNCHANGED vars
  BY <1>23 DEF vars, TypeOK
<1>24. QED
  BY <1>2, <1>3, <1>4, <1>5, <1>6, <1>7, <1>8, <1>9, <1>10, <1>11, <1>12, <1>13, <1>14,
     <1>15, <1>16, <1>17, <1>18, <1>19, <1>20, <1>21, <1>22, <1>23 DEF Next

\* Every variable of the registry keeps its type, on any disk.
THEOREM TypeCorrect == Spec => []TypeOK
BY TypeInit, TypeStep, PTL DEF Spec

-----------------------------------------------------------------------------
\* The inductive invariant of the durability properties.

\* Only an entry has updates to write.
QueueHasRoom == room \notin {"loaded", "forgotten"} => pending = {} /\ flush = IdleFlush

BatchInFlight == flush.phase = "idle" => flush.batch = {}

\* A deck that was never stored has no files and no room; a new one is still empty.
NothingBeforeSeed ==
  /\ record = "none" => files = NoFiles /\ room = "absent"
  /\ record = "stored" /\ room = "seeding" => Held(files) = {}

ForgottenIsDeleted == room = "forgotten" => record \in {"deleting", "deleted"}

AckedIsStored == record # "stored" => acked = {}

LinesWhole == files.log.cut = FALSE

\* What compaction has captured covers the files; what is appended is on disk.
Compacting ==
  record = "stored" =>
    /\ flush.phase = "snapshot" => Held(files) \subseteq flush.state /\ flush.state \subseteq doc
    /\ flush.phase = "truncate" => Held(files) \subseteq files.snapshot.updates
    /\ flush.phase \in {"snapshot", "truncate", "touch"} => flush.batch \subseteq Held(files)

RoomInv == QueueHasRoom /\ BatchInFlight /\ NothingBeforeSeed /\ ForgottenIsDeleted

ContentInv == RoomAccounted /\ AckedSurvives /\ AckedIsStored /\ Compacting

DurableInv == TypeOK /\ RoomInv /\ ContentInv /\ LinesWhole

\* What the files hold after an append and after either rename.

LEMMA HeldAppended ==
  ASSUME files \in FilesType, files.log.cut = FALSE, NEW batch \in SUBSET Updates
  PROVE  LET after == [files EXCEPT !.log = LineWritten(files.log, batch)]
         IN  /\ Held(after) = Held(files) \cup batch
             /\ after.log.cut = FALSE
             /\ after.snapshot = files.snapshot
BY DEF FilesType, LogType, LineWritten, Held

LEMMA HeldSnapshot ==
  ASSUME files \in FilesType, NEW state \in SUBSET Updates
  PROVE  LET after == [files EXCEPT !.snapshot = SnapshotOf(state)]
         IN  /\ Held(after) = state \cup files.log.updates
             /\ after.log = files.log
             /\ after.snapshot.updates = state
BY DEF FilesType, SnapshotOf, Held

LEMMA HeldEmptied ==
  ASSUME files \in FilesType
  PROVE  LET after == [files EXCEPT !.log = EmptyLog]
         IN  /\ Held(after) = files.snapshot.updates
             /\ after.log.cut = FALSE
BY DEF FilesType, EmptyLog, Held

\* A step that fails on a disk without cut writes leaves the files at least as
\* full, with nothing in them the room does not know of.
LEMMA FailureKeeps ==
  ASSUME WholeWrites, DurableInv, NEW result \in AfterFailure
  PROVE  /\ result.log.cut = FALSE
         /\ record = "stored" => Held(files) \subseteq Held(result)
         /\ record = "stored" /\ room = "loaded" => Held(result) \subseteq doc
<1>1. files \in FilesType /\ flush.batch \in SUBSET Updates /\ flush.state \in SUBSET Updates
      /\ files.log.cut = FALSE
  BY DEF DurableInv, TypeOK, LinesWhole
<1>2. record = "stored" /\ room = "loaded" => Held(files) \cup flush.batch \subseteq doc
  BY DEF DurableInv, ContentInv, RoomAccounted
<1>3. CASE flush.phase = "append"
  <2>1. PICK left \in FailedAppendLeaves :
          result = [files EXCEPT !.log = AfterFailedAppend(files.log, flush.batch, left)]
    BY <1>3 DEF AfterFailure
  <2>2. left \in {"nothing", "line"}
    BY FaultsAssumption DEF WholeWrites
  <2>3. CASE left = "nothing"
    BY <1>1, <1>2, <2>1, <2>3 DEF AfterFailedAppend, FilesType, Held
  <2>4. CASE left = "line"
    <3>1. result = [files EXCEPT !.log = LineWritten(files.log, flush.batch)]
      BY <2>1, <2>4 DEF AfterFailedAppend
    <3>2. QED
      BY <1>1, <1>2, <3>1, HeldAppended
  <2>5. QED
    BY <2>2, <2>3, <2>4
<1>4. CASE flush.phase = "snapshot" /\ files # NoFiles /\ result # files
  <2>1. result = [files EXCEPT !.snapshot = SnapshotOf(flush.state)]
    BY <1>4 DEF AfterFailure
  <2>2. /\ Held(result) = flush.state \cup files.log.updates
        /\ result.log = files.log
    BY <1>1, <2>1, HeldSnapshot
  <2>3. record = "stored" => Held(files) \subseteq flush.state /\ flush.state \subseteq doc
    BY <1>4 DEF DurableInv, ContentInv, Compacting
  <2>4. QED
    BY <1>1, <2>2, <2>3 DEF Held
<1>5. CASE flush.phase = "truncate" /\ files # NoFiles /\ result # files
  <2>1. result = [files EXCEPT !.log = EmptyLog]
    BY <1>5 DEF AfterFailure
  <2>2. Held(result) = files.snapshot.updates /\ result.log.cut = FALSE
    BY <1>1, <2>1, HeldEmptied
  <2>3. record = "stored" => Held(files) \subseteq files.snapshot.updates
    BY <1>5 DEF DurableInv, ContentInv, Compacting
  <2>4. QED
    BY <1>1, <1>2, <2>2, <2>3 DEF Held
<1>6. CASE result = files
  BY <1>1, <1>2, <1>6
<1>7. QED
  BY <1>3, <1>4, <1>5, <1>6 DEF AfterFailure

\* When a flush is over, what was left to write is queued, in flight, or gone
\* with the room; a batch that is in flight has not been appended yet.
LEMMA SettleKeeps ==
  ASSUME DurableInv, NEW rest \in SUBSET Updates, NEW failed, Settle(rest, failed),
         flush.phase # "idle"
  PROVE  /\ room' = room \/ room' = "absent"
         /\ room' # "absent" => doc' = doc /\ rest = pending' \cup flush'.batch
         /\ flush'.phase \in {"idle", "append"}
         /\ flush'.phase = "idle" => flush'.batch = {}
         /\ room' = "absent" => pending' = {} /\ flush' = IdleFlush
<1>1. room \in {"loaded", "forgotten"}
  BY DEF DurableInv, RoomInv, QueueHasRoom, IdleFlush
<1>2. QED
  BY <1>1 DEF Settle, Dispose, IdleFlush, FlushOf

LEMMA DurableInit == Init => DurableInv
BY TypeInit DEF Init, NoEntry, DurableInv, RoomInv, ContentInv, LinesWhole,
   QueueHasRoom, BatchInFlight, NothingBeforeSeed, ForgottenIsDeleted,
   RoomAccounted, AckedSurvives, AckedIsStored, Compacting,
   IdleFlush, NoFiles, NoSnapshot, EmptyLog, Held

\* Steps that neither write a file nor touch the queue of a room.
LEMMA DurableQuiet ==
  ASSUME DurableInv,
         record' = record, files' = files, acked' = acked,
         doc' = doc, pending' = pending, flush' = flush,
         \/ room' = room
         \/ room = "absent" /\ room' = "loading" /\ record \in {"stored", "deleting"}
         \/ room = "loading" /\ room' = "absent"
  PROVE  RoomInv' /\ ContentInv' /\ LinesWhole'
BY DEF DurableInv, RoomInv, ContentInv, LinesWhole,
   QueueHasRoom, BatchInFlight, NothingBeforeSeed, ForgottenIsDeleted,
   RoomAccounted, AckedSurvives, AckedIsStored, Compacting, Held, IdleFlush

\* The end of a flush, and the room it may take with it.
LEMMA DurableSettle ==
  ASSUME DurableInv, NEW rest \in SUBSET Updates, NEW failed, Settle(rest, failed),
         flush.phase # "idle",
         record' = record, acked' = acked, files'.log.cut = FALSE,
         record = "stored" => Held(files) \subseteq Held(files'),
         record = "stored" /\ room = "loaded" => doc = Held(files') \cup rest
  PROVE  RoomInv' /\ ContentInv' /\ LinesWhole'
<1>1. room \in {"loaded", "forgotten"}
  BY DEF DurableInv, RoomInv, QueueHasRoom, IdleFlush
<1>2. /\ room' = room \/ room' = "absent"
      /\ room' # "absent" => doc' = doc /\ rest = pending' \cup flush'.batch
      /\ flush'.phase \in {"idle", "append"}
      /\ flush'.phase = "idle" => flush'.batch = {}
      /\ room' = "absent" => pending' = {} /\ flush' = IdleFlush
  BY SettleKeeps
<1>3. RoomInv'
  BY <1>1, <1>2 DEF DurableInv, RoomInv, QueueHasRoom, BatchInFlight, NothingBeforeSeed, ForgottenIsDeleted
<1>4. ContentInv'
  <2>1. RoomAccounted'
    BY <1>1, <1>2 DEF RoomAccounted
  <2>2. AckedSurvives' /\ AckedIsStored'
    BY DEF DurableInv, ContentInv, AckedSurvives, AckedIsStored
  <2>3. Compacting'
    BY <1>2 DEF Compacting
  <2>4. QED
    BY <2>1, <2>2, <2>3 DEF ContentInv
<1>5. QED
  BY <1>3, <1>4 DEF LinesWhole

\* A room that is disposed leaves nothing to account for.
LEMMA DurableDispose ==
  ASSUME DurableInv, Dispose, files'.log.cut = FALSE,
         record' = "none" => record = "none" /\ files' = files,
         record' # "stored" => acked' = {},
         record' = "stored" => acked' \subseteq Held(files')
  PROVE  RoomInv' /\ ContentInv' /\ LinesWhole'
<1>1. RoomInv'
  BY DEF DurableInv, RoomInv, QueueHasRoom, BatchInFlight, NothingBeforeSeed, ForgottenIsDeleted,
     Dispose, IdleFlush
<1>2. ContentInv'
  BY DEF ContentInv, RoomAccounted, AckedSurvives, AckedIsStored, Compacting, Dispose, IdleFlush
<1>3. QED
  BY <1>1, <1>2 DEF LinesWhole

\* An unload begins: the queue moves into a batch, or the room goes with nothing left.
LEMMA DurableBeginUnload ==
  ASSUME DurableInv, BeginUnload, room = "loaded",
         record' = record, files' = files, acked' = acked
  PROVE  RoomInv' /\ ContentInv' /\ LinesWhole'
<1>1. CASE flush.phase # "idle"
  BY <1>1, DurableQuiet DEF BeginUnload, entryVars
<1>2. CASE flush.phase = "idle" /\ pending # {}
  <2>1. /\ room' = room /\ doc' = doc /\ pending' = {} /\ flush.batch = {}
        /\ flush' = [phase |-> "append", batch |-> pending, state |-> {}]
    BY <1>2 DEF BeginUnload, FlushOf, DurableInv, RoomInv, BatchInFlight
  <2>2. QED
    BY <2>1 DEF DurableInv, RoomInv, ContentInv, LinesWhole,
       QueueHasRoom, BatchInFlight, NothingBeforeSeed, ForgottenIsDeleted,
       RoomAccounted, AckedSurvives, AckedIsStored, Compacting, Held
<1>3. CASE flush.phase = "idle" /\ pending = {}
  <2>1. Dispose
    BY <1>3 DEF BeginUnload
  <2>2. record # "none" /\ files'.log.cut = FALSE
    BY DEF DurableInv, RoomInv, NothingBeforeSeed, LinesWhole
  <2>3. (record' # "stored" => acked' = {}) /\ (record' = "stored" => acked' \subseteq Held(files'))
    BY DEF DurableInv, ContentInv, AckedSurvives, AckedIsStored
  <2>4. QED
    BY <2>1, <2>2, <2>3, DurableDispose
<1>4. QED
  BY <1>1, <1>2, <1>3

LEMMA DurableStep ==
  ASSUME WholeWrites, DurableInv, [Next]_vars
  PROVE  DurableInv'
<1> USE DEF processVars, entryVars
<1>1. TypeOK /\ TypeOK' /\ files \in FilesType /\ files.log.cut = FALSE
      /\ flush.batch \in SUBSET Updates /\ flush.state \in SUBSET Updates
  BY TypeStep DEF DurableInv, TypeOK, LinesWhole
<1>2. SUFFICES RoomInv' /\ ContentInv' /\ LinesWhole'
  BY <1>1 DEF DurableInv
<1>3. CASE CreateDeck
  BY <1>3 DEF CreateDeck, DurableInv, RoomInv, ContentInv, LinesWhole,
     QueueHasRoom, BatchInFlight, NothingBeforeSeed, ForgottenIsDeleted,
     RoomAccounted, AckedSurvives, AckedIsStored, Compacting, Held,
     IdleFlush, NoFiles, NoSnapshot, EmptyLog
<1>4. CASE SeedRoom
  BY <1>4 DEF SeedRoom, DurableInv, RoomInv, ContentInv, LinesWhole,
     QueueHasRoom, BatchInFlight, NothingBeforeSeed, ForgottenIsDeleted,
     RoomAccounted, AckedSurvives, AckedIsStored, Compacting, Held, IdleFlush
<1>5. CASE StartLoad \/ RefuseLoad
  BY <1>5, DurableQuiet DEF StartLoad, RefuseLoad
<1>6. CASE FinishLoad
  <2>1. doc' = Held(files) /\ room = "loading" /\ room' = "loaded" /\ files' = files
        /\ record' = record /\ acked' = acked /\ pending' = pending /\ flush' = flush
    BY <1>6 DEF FinishLoad, LoadDocument
  <2>2. QED
    BY <2>1 DEF DurableInv, RoomInv, ContentInv, LinesWhole,
       QueueHasRoom, BatchInFlight, NothingBeforeSeed, ForgottenIsDeleted,
       RoomAccounted, AckedSurvives, AckedIsStored, Compacting, Held, IdleFlush
<1>7. CASE Connect \/ Disconnect \/ Acquire \/ Release \/ ReleaseOrphan
  BY <1>7, DurableQuiet DEF Connect, Disconnect, Acquire, Release, ReleaseOrphan
<1>8. CASE \E update \in Updates : PersistUpdate(update)
  BY <1>8 DEF PersistUpdate, DurableInv, RoomInv, ContentInv, LinesWhole,
     QueueHasRoom, BatchInFlight, NothingBeforeSeed, ForgottenIsDeleted,
     RoomAccounted, AckedSurvives, AckedIsStored, Compacting, Held
<1>9. CASE FlushTimerFires
  <2>1. /\ room' = room /\ doc' = doc /\ pending' = {} /\ files' = files
        /\ record' = record /\ acked' = acked
        /\ flush.batch = {} /\ flush'.batch = pending /\ flush'.phase \in {"idle", "append"}
        /\ pending = {} => flush' = IdleFlush
        /\ flush'.phase = "idle" => pending = {}
    BY <1>9 DEF FlushTimerFires, FlushOf, IdleFlush, DurableInv, RoomInv, BatchInFlight
  <2>2. QED
    BY <2>1 DEF DurableInv, RoomInv, ContentInv, LinesWhole,
       QueueHasRoom, BatchInFlight, NothingBeforeSeed, ForgottenIsDeleted,
       RoomAccounted, AckedSurvives, AckedIsStored, Compacting, Held
<1>10. CASE AppendResolves
  <2>1. files' = [files EXCEPT !.log = LineWritten(files.log, flush.batch)]
    BY <1>10 DEF AppendResolves, WholeWrites
  <2>2. Held(files') = Held(files) \cup flush.batch /\ files'.log.cut = FALSE
    BY <1>1, <2>1, HeldAppended
  <2>3. /\ room' = room /\ doc' = doc /\ pending' = pending /\ record' = record
        /\ flush'.batch = flush.batch
        /\ acked' = IF record = "stored" THEN acked \cup flush.batch ELSE acked
        /\ \/ flush'.phase = "snapshot" /\ flush'.state = doc
           \/ flush'.phase = "touch"
    BY <1>1, <1>10 DEF AppendResolves, EncodeState, TypeOK
  <2>4. room \in {"loaded", "forgotten"}
    BY <1>10 DEF AppendResolves, DurableInv, RoomInv, QueueHasRoom, IdleFlush
  <2>5. QED
    BY <2>2, <2>3, <2>4 DEF DurableInv, RoomInv, ContentInv, LinesWhole,
       QueueHasRoom, BatchInFlight, NothingBeforeSeed, ForgottenIsDeleted,
       RoomAccounted, AckedSurvives, AckedIsStored, Compacting
<1>11. CASE SnapshotRenamed
  <2>1. files' = [files EXCEPT !.snapshot = SnapshotOf(flush.state)]
    BY <1>11 DEF SnapshotRenamed, WholeWrites
  <2>2. /\ Held(files') = flush.state \cup files.log.updates
        /\ files'.log = files.log /\ files'.snapshot.updates = flush.state
    BY <1>1, <2>1, HeldSnapshot
  <2>3. /\ room' = room /\ doc' = doc /\ pending' = pending /\ record' = record /\ acked' = acked
        /\ flush.phase = "snapshot" /\ flush'.phase = "truncate" /\ flush'.batch = flush.batch
    BY <1>1, <1>11 DEF SnapshotRenamed, TypeOK
  <2>4. room \in {"loaded", "forgotten"} /\ files.log.updates \subseteq Held(files)
    BY <2>3 DEF DurableInv, RoomInv, QueueHasRoom, IdleFlush, Held
  <2>5. QED
    BY <1>1, <2>2, <2>3, <2>4 DEF DurableInv, RoomInv, ContentInv, LinesWhole,
       QueueHasRoom, BatchInFlight, NothingBeforeSeed, ForgottenIsDeleted,
       RoomAccounted, AckedSurvives, AckedIsStored, Compacting
<1>12. CASE LogReplaced
  <2>1. Held(files') = files.snapshot.updates /\ files'.log.cut = FALSE
    BY <1>1, <1>12, HeldEmptied DEF LogReplaced
  <2>2. /\ room' = room /\ doc' = doc /\ pending' = pending /\ record' = record /\ acked' = acked
        /\ flush.phase = "truncate" /\ flush'.phase = "touch" /\ flush'.batch = flush.batch
    BY <1>1, <1>12 DEF LogReplaced, TypeOK
  <2>3. room \in {"loaded", "forgotten"} /\ files.snapshot.updates \subseteq Held(files)
    BY <2>2 DEF DurableInv, RoomInv, QueueHasRoom, IdleFlush, Held
  <2>4. QED
    BY <2>1, <2>2, <2>3 DEF DurableInv, RoomInv, ContentInv, LinesWhole,
       QueueHasRoom, BatchInFlight, NothingBeforeSeed, ForgottenIsDeleted,
       RoomAccounted, AckedSurvives, AckedIsStored, Compacting
<1>13. CASE FlushResolves
  <2>1. /\ Settle(pending, failures) /\ flush.phase = "touch"
        /\ record' = record /\ acked' = acked /\ files' = files
        /\ pending \in SUBSET Updates
    BY <1>1, <1>13 DEF FlushResolves, TypeOK
  <2>2. record = "stored" /\ room = "loaded" => doc = Held(files) \cup pending
    BY <2>1 DEF DurableInv, ContentInv, RoomAccounted, Compacting
  <2>3. QED
    BY <1>1, <2>1, <2>2, DurableSettle
<1>14. CASE FlushFails
  <2>1. /\ Settle(PutBack, OneMoreFailure(failures, CloseAfter)) /\ flush.phase # "idle"
        /\ record' = record /\ acked' = acked /\ files' \in AfterFailure
        /\ PutBack \in SUBSET Updates
    BY <1>1, <1>14 DEF FlushFails, PutBack, TypeOK
  <2>2. /\ files'.log.cut = FALSE
        /\ record = "stored" => Held(files) \subseteq Held(files')
        /\ record = "stored" /\ room = "loaded" => Held(files') \subseteq doc
    BY <2>1, FailureKeeps
  <2>3. record = "stored" /\ room = "loaded" => doc = Held(files') \cup PutBack
    BY <2>2 DEF PutBack, DurableInv, ContentInv, RoomAccounted
  <2>4. QED
    BY <2>1, <2>2, <2>3, DurableSettle
<1>15. CASE UnloadTimerFires
  BY <1>15, DurableBeginUnload, DurableQuiet DEF UnloadTimerFires
<1>16. CASE Shutdown
  <2>1. CASE room = "loaded"
    BY <1>16, <2>1, DurableBeginUnload DEF Shutdown
  <2>2. CASE room # "loaded"
    BY <1>16, <2>2, DurableQuiet DEF Shutdown
  <2>3. QED
    BY <2>1, <2>2
<1>17. CASE DeleteDeck
  <2>1. record' = "deleting" /\ acked' = {} /\ files' = files
    BY <1>17 DEF DeleteDeck
  <2>2. CASE room = "loaded" /\ flush.phase = "idle"
    <3>1. Dispose
      BY <1>17, <2>2 DEF DeleteDeck
    <3>2. QED
      BY <1>1, <2>1, <3>1, DurableDispose
  <2>3. CASE room = "loaded" /\ flush.phase # "idle"
    <3>1. room' = "forgotten" /\ pending' = {} /\ flush' = flush
      BY <1>17, <2>3 DEF DeleteDeck
    <3>2. QED
      BY <1>1, <2>1, <2>3, <3>1 DEF RoomInv, ContentInv, LinesWhole,
         QueueHasRoom, BatchInFlight, NothingBeforeSeed, ForgottenIsDeleted,
         RoomAccounted, AckedSurvives, AckedIsStored, Compacting
  <2>4. CASE room # "loaded"
    <3>1. room' = room /\ pending' = pending /\ flush' = flush
      BY <1>17, <2>4 DEF DeleteDeck
    <3>2. QED
      BY <1>1, <2>1, <3>1 DEF DurableInv, RoomInv, ContentInv, LinesWhole,
         QueueHasRoom, BatchInFlight, NothingBeforeSeed, ForgottenIsDeleted,
         RoomAccounted, AckedSurvives, AckedIsStored, Compacting
  <2>5. QED
    BY <2>2, <2>3, <2>4
<1>18. CASE FilesRemoved
  BY <1>18 DEF FilesRemoved, DurableInv, RoomInv, ContentInv, LinesWhole,
     QueueHasRoom, BatchInFlight, NothingBeforeSeed, ForgottenIsDeleted,
     RoomAccounted, AckedSurvives, AckedIsStored, Compacting, NoFiles, EmptyLog
<1>19. CASE SnapshotDamaged \/ SnapshotRecovered
  <2>1. /\ files'.log = files.log /\ files'.snapshot.updates = files.snapshot.updates
        /\ files # NoFiles
        /\ room' = room /\ doc' = doc /\ pending' = pending /\ flush' = flush
        /\ record' = record /\ acked' = acked
    BY <1>1, <1>19 DEF SnapshotDamaged, SnapshotRecovered, FilesType, SnapshotType, NoFiles, NoSnapshot
  <2>2. Held(files') = Held(files)
    BY <2>1 DEF Held
  <2>3. QED
    BY <2>1, <2>2 DEF DurableInv, RoomInv, ContentInv, LinesWhole,
       QueueHasRoom, BatchInFlight, NothingBeforeSeed, ForgottenIsDeleted,
       RoomAccounted, AckedSurvives, AckedIsStored, Compacting
<1>20. CASE Exit \/ Crash
  <2>1. Dispose /\ acked' = acked /\ record' = (IF record = "deleting" THEN "stored" ELSE record)
        /\ \/ files' = files
           \/ flush.phase = "append" /\ files' \in AfterFailure
    BY <1>20 DEF Exit, Crash, Stop
  <2>2. files'.log.cut = FALSE /\ (record = "stored" => Held(files) \subseteq Held(files'))
    BY <1>1, <2>1, FailureKeeps
  <2>3. record' = "none" => record = "none" /\ files' = files
    BY <2>1 DEF DurableInv, RoomInv, NothingBeforeSeed, QueueHasRoom, IdleFlush
  <2>4. (record' # "stored" => acked' = {}) /\ (record' = "stored" => acked' \subseteq Held(files'))
    BY <2>1, <2>2 DEF DurableInv, ContentInv, AckedSurvives, AckedIsStored
  <2>5. QED
    BY <2>1, <2>2, <2>3, <2>4, DurableDispose
<1>21. CASE Restart
  BY <1>21, DurableQuiet DEF Restart
<1>22. CASE UNCHANGED vars
  BY <1>22, DurableQuiet DEF vars
<1>23. QED
  BY <1>3, <1>4, <1>5, <1>6, <1>7, <1>8, <1>9, <1>10, <1>11, <1>12, <1>13, <1>14,
     <1>15, <1>16, <1>17, <1>18, <1>19, <1>20, <1>21, <1>22 DEF Next

\* The inductive invariant: whatever the process does, dies in the middle of or
\* retries, the room, its queue, its batch in flight and the files agree.
THEOREM Durability ==
  ASSUME WholeWrites
  PROVE  Spec => []DurableInv
BY DurableInit, DurableStep, PTL DEF Spec

\* On a disk that cuts no write short, no flush the registry saw succeed is ever
\* lost, whatever fails, crashes or is unloaded (flushNow, appendDurably, compact).
THEOREM FlushedSurvives ==
  ASSUME WholeWrites
  PROVE  Spec => []AckedSurvives
<1>1. DurableInv => AckedSurvives
  BY DEF DurableInv, ContentInv
<1>2. QED
  BY <1>1, Durability, PTL

\* On such a disk what a room shows is always accounted for by its files, the
\* queue and the batch in flight (onUpdate, flushNow).
THEOREM RoomIsAccounted ==
  ASSUME WholeWrites
  PROVE  Spec => []RoomAccounted
<1>1. DurableInv => RoomAccounted
  BY DEF DurableInv, ContentInv
<1>2. QED
  BY <1>1, Durability, PTL

-----------------------------------------------------------------------------
\* Scheduling and use of the room, on any disk.

\* A room that unloads has a flush to wait for, nobody is connected to it, and
\* only SIGTERM unloads it while it is leased.
UnloadInFlight ==
  /\ unload # "no" => flush.phase # "idle" /\ connections = 0
  /\ unload # "no" /\ process = "running" => leases = 0
  /\ ~ Serving => unload = "no"

SocketsHaveRoom == connections > 0 => room = "loaded"

ScheduleInv ==
  /\ TypeOK
  /\ QueueHasRoom
  /\ UnloadInFlight
  /\ NoLostWakeup
  /\ SocketsHaveRoom
  /\ record = "none" => room = "absent"

LEMMA ScheduleInit == Init => ScheduleInv
BY TypeInit DEF Init, NoEntry, IdleFlush, Serving, ScheduleInv, QueueHasRoom, UnloadInFlight,
   NoLostWakeup, SocketsHaveRoom

\* Whatever disposes a room leaves no queue, no timer and no socket behind.
LEMMA ScheduleDispose ==
  ASSUME Dispose, connections' = 0, unload' = "no"
  PROVE  QueueHasRoom' /\ UnloadInFlight' /\ NoLostWakeup' /\ SocketsHaveRoom' /\ room' = "absent"
BY DEF Dispose, IdleFlush, QueueHasRoom, UnloadInFlight, NoLostWakeup, SocketsHaveRoom

\* A room that stays keeps its users and its timer, or closes its sockets and
\* is looked at again.
LEMMA UsersStay ==
  ASSUME TypeOK, room' # "absent",
         \/ UsersAfter(connections, unloadTimer)
         \/ UsersAfter(0, CheckedByCloseAll)
  PROVE  /\ connections' = 0 \/ connections' = connections
         /\ leases' = leases
         /\ connections' = 0 /\ leases' = 0 =>
              unloadTimer' \/ (unloadTimer' = unloadTimer /\ connections = 0 /\ leases = 0)
<1>1. CASE UsersAfter(connections, unloadTimer)
  BY <1>1 DEF UsersAfter
<1>2. CASE UsersAfter(0, CheckedByCloseAll)
  <2>1. connections' = 0 /\ unloadTimer' = CheckedByCloseAll /\ leases' = leases
    BY <1>2 DEF UsersAfter
  <2>2. CASE connections > 0
    <3>1. leases' = 0 => CheckedByCloseAll
      BY <2>1, <2>2, Zenon DEF CheckedByCloseAll
    <3>2. QED
      BY <2>1, <3>1
  <2>3. CASE ~ (connections > 0)
    <3>1. unloadTimer' = unloadTimer
      BY <2>1, <2>3, Zenon DEF CheckedByCloseAll
    <3>2. connections = 0
      BY <2>3 DEF TypeOK
    <3>3. QED
      BY <2>1, <3>1, <3>2
  <2>4. QED
    BY <2>2, <2>3
<1>3. QED
  BY <1>1, <1>2

LEMMA ScheduleSettle ==
  ASSUME ScheduleInv, NEW rest \in SUBSET Updates, NEW failed, Settle(rest, failed),
         flush.phase # "idle", record' = record, process' = process, Serving,
         \/ UsersAfter(connections, unloadTimer)
         \/ UsersAfter(0, CheckedByCloseAll)
  PROVE  QueueHasRoom' /\ UnloadInFlight' /\ NoLostWakeup' /\ SocketsHaveRoom' /\ record' # "none"
<1>1. room \in {"loaded", "forgotten"} /\ record # "none" /\ TypeOK
  BY DEF ScheduleInv, QueueHasRoom, IdleFlush
<1>2. connections > 0 => room = "loaded"
  BY DEF ScheduleInv, SocketsHaveRoom
<1>3. Serving'
  BY DEF Serving
<1>4. CASE unload = "no" /\ room' = room
  <2>1. /\ unload' = "no" /\ flush' = IdleFlush /\ pending' = rest
        /\ flushTimer' = (rest # {}) /\ room' # "absent"
    BY <1>1, <1>4 DEF Settle, Dispose, Rearmed
  <2>2. /\ connections' = 0 \/ connections' = connections
        /\ connections' = 0 /\ leases' = 0 =>
             unloadTimer' \/ (unloadTimer' = unloadTimer /\ connections = 0 /\ leases = 0)
    BY <1>1, <2>1, UsersStay
  <2>3. room = "loaded" /\ connections = 0 /\ leases = 0 => unloadTimer
    BY <1>4 DEF ScheduleInv, NoLostWakeup, Idle
  <2>4. NoLostWakeup'
    <3>1. pending' # {} => flushTimer'
      BY <2>1, Zenon
    <3>2. room' = "loaded" /\ connections' = 0 /\ leases' = 0 => unloadTimer'
      BY <1>4, <2>2, <2>3
    <3>3. QED
      BY <3>1, <3>2 DEF NoLostWakeup, Idle
  <2>5. QED
    BY <1>1, <1>2, <1>3, <1>4, <2>1, <2>2, <2>4 DEF QueueHasRoom, UnloadInFlight, SocketsHaveRoom, TypeOK
<1>5. CASE unload = "first" /\ rest # {} /\ ~ Dispose
  <2>1. /\ unload' = "second" /\ flush'.phase = "append" /\ pending' = {} /\ room' = room
    BY <1>5 DEF Settle, FlushOf
  <2>2. (connections' = 0 \/ connections' = connections) /\ leases' = leases
    BY <1>1, <2>1, UsersStay
  <2>3. connections = 0 /\ (process = "running" => leases = 0)
    BY <1>5 DEF ScheduleInv, UnloadInFlight
  <2>4. QED
    BY <1>1, <1>3, <2>1, <2>2, <2>3 DEF QueueHasRoom, UnloadInFlight, NoLostWakeup, SocketsHaveRoom
<1>6. CASE Dispose
  <2>0. unload' = "no"
    BY <1>1, <1>6 DEF Settle, Dispose
  <2>1. connections' = 0
    BY <1>6 DEF Dispose, UsersAfter, LeaveUsers
  <2>2. QED
    BY <1>1, <1>6, <2>0, <2>1, ScheduleDispose
<1>7. Dispose \/ (unload = "no" /\ room' = room) \/ (unload = "first" /\ rest # {})
  BY DEF Settle
<1>8. QED
  BY <1>4, <1>5, <1>6, <1>7

LEMMA ScheduleBeginUnload ==
  ASSUME ScheduleInv, BeginUnload, room = "loaded", connections' = 0,
         room' # "absent" => leases' = leases, Serving',
         process' = "running" => leases = 0
  PROVE  QueueHasRoom' /\ UnloadInFlight' /\ NoLostWakeup' /\ SocketsHaveRoom'
<1>1. CASE flush.phase # "idle"
  BY <1>1 DEF BeginUnload, entryVars, ScheduleInv, QueueHasRoom, UnloadInFlight, NoLostWakeup, SocketsHaveRoom
<1>2. CASE flush.phase = "idle" /\ pending # {}
  BY <1>2 DEF BeginUnload, FlushOf, ScheduleInv, QueueHasRoom, UnloadInFlight, NoLostWakeup, SocketsHaveRoom
<1>3. CASE flush.phase = "idle" /\ pending = {}
  BY <1>3, ScheduleDispose DEF BeginUnload
<1>4. QED
  BY <1>1, <1>2, <1>3

LEMMA ScheduleStep ==
  ASSUME ScheduleInv, [Next]_vars
  PROVE  ScheduleInv'
<1> USE DEF processVars, entryVars, userVars
<1>1. TypeOK /\ TypeOK'
  BY TypeStep DEF ScheduleInv
<1>2. SUFFICES /\ QueueHasRoom' /\ UnloadInFlight' /\ NoLostWakeup' /\ SocketsHaveRoom'
               /\ record' = "none" => room' = "absent"
  BY <1>1 DEF ScheduleInv
<1>3. CASE CreateDeck \/ SeedRoom \/ StartLoad \/ FinishLoad \/ RefuseLoad
  BY <1>1, <1>3 DEF CreateDeck, SeedRoom, StartLoad, FinishLoad, RefuseLoad,
     ScheduleUnloadCheck, CheckBeforeCounted, Idle, Serving, TypeOK, ScheduleInv,
     QueueHasRoom, IdleFlush, UnloadInFlight, NoLostWakeup, SocketsHaveRoom
<1>4. CASE Connect \/ Disconnect \/ Acquire \/ Release \/ ReleaseOrphan
  BY <1>1, <1>4 DEF Connect, Disconnect, Acquire, Release, ReleaseOrphan, Available,
     ScheduleUnloadCheck, CheckBeforeCounted, Idle, Serving, TypeOK, ScheduleInv,
     QueueHasRoom, UnloadInFlight, NoLostWakeup, SocketsHaveRoom
<1>5. CASE \E update \in Updates : PersistUpdate(update)
  BY <1>1, <1>5 DEF PersistUpdate, Idle, Serving, TypeOK, ScheduleInv,
     QueueHasRoom, UnloadInFlight, NoLostWakeup, SocketsHaveRoom
<1>6. CASE FlushTimerFires
  BY <1>1, <1>6 DEF FlushTimerFires, FlushOf, IdleFlush, Idle, Serving, ScheduleInv,
     QueueHasRoom, UnloadInFlight, NoLostWakeup, SocketsHaveRoom
<1>7. CASE AppendResolves \/ SnapshotRenamed \/ LogReplaced
  <2>1. /\ room' = room /\ pending' = pending /\ flushTimer' = flushTimer /\ unload' = unload
        /\ connections' = connections /\ leases' = leases /\ unloadTimer' = unloadTimer
        /\ record' = record /\ process' = process
        /\ flush.phase # "idle" /\ flush'.phase # "idle"
    BY <1>1, <1>7 DEF AppendResolves, SnapshotRenamed, LogReplaced, TypeOK
  <2>2. QED
    BY <2>1 DEF ScheduleInv, QueueHasRoom, IdleFlush, Idle, Serving, UnloadInFlight, NoLostWakeup,
       SocketsHaveRoom
<1>8. CASE FlushResolves
  <2>1. /\ Settle(pending, failures) /\ flush.phase # "idle" /\ pending \in SUBSET Updates
        /\ UsersAfter(connections, unloadTimer) /\ record' = record /\ process' = process /\ Serving
    BY <1>1, <1>8 DEF FlushResolves, TypeOK
  <2>2. QED
    BY <2>1, ScheduleSettle
<1>9. CASE FlushFails
  <2>1. /\ Settle(PutBack, OneMoreFailure(failures, CloseAfter)) /\ flush.phase # "idle"
        /\ PutBack \in SUBSET Updates
        /\ UsersAfter(0, CheckedByCloseAll) \/ UsersAfter(connections, unloadTimer)
        /\ record' = record /\ process' = process /\ Serving
    BY <1>1, <1>9 DEF FlushFails, PutBack, TypeOK
  <2>2. QED
    BY <2>1, ScheduleSettle
<1>10. CASE UnloadTimerFires
  <2>1. /\ record' = record /\ process' = process /\ Serving' /\ room = "loaded" /\ record # "none"
        /\ UsersAfter(connections, FALSE)
    BY <1>10 DEF UnloadTimerFires, Serving, ScheduleInv
  <2>2. CASE Idle /\ unload = "no"
    <3>1. /\ BeginUnload /\ connections' = 0 /\ leases = 0
          /\ room' # "absent" => leases' = leases
      BY <1>10, <2>1, <2>2 DEF UnloadTimerFires, UsersAfter, LeaveUsers, Idle
    <3>2. QED
      BY <2>1, <3>1, ScheduleBeginUnload
  <2>3. CASE ~ (Idle /\ unload = "no")
    <3>1. /\ UNCHANGED <<room, entryVars, unload>> /\ connections' = connections /\ leases' = leases
      BY <1>10, <2>1, <2>3 DEF UnloadTimerFires, UsersAfter
    <3>2. QED
      BY <2>1, <2>3, <3>1 DEF ScheduleInv, QueueHasRoom, Idle, Serving, UnloadInFlight, NoLostWakeup,
         SocketsHaveRoom
  <2>4. QED
    BY <2>2, <2>3
<1>11. CASE Shutdown
  <2>1. CASE room = "loaded"
    <3>1. /\ BeginUnload /\ connections' = 0 /\ process' = "stopping" /\ record' = record
          /\ room' # "absent" => leases' = leases
      BY <1>11, <2>1 DEF Shutdown, UsersAfter, LeaveUsers
    <3>2. QED
      BY <2>1, <3>1, ScheduleBeginUnload DEF ScheduleInv, Serving
  <2>2. CASE room # "loaded"
    BY <1>1, <1>11, <2>2 DEF Shutdown, Serving, TypeOK, ScheduleInv,
       QueueHasRoom, UnloadInFlight, NoLostWakeup, SocketsHaveRoom
  <2>3. QED
    BY <2>1, <2>2
<1>12. CASE DeleteDeck
  <2>1. CASE room = "loaded" /\ flush.phase = "idle"
    BY <1>12, <2>1, ScheduleDispose DEF DeleteDeck, LeaveUsers, ScheduleInv, UnloadInFlight
  <2>2. CASE room = "loaded" /\ flush.phase # "idle"
    BY <1>12, <2>2 DEF DeleteDeck, LeaveUsers, Serving, ScheduleInv, QueueHasRoom, UnloadInFlight,
       NoLostWakeup, SocketsHaveRoom
  <2>3. CASE room # "loaded"
    BY <1>12, <2>3 DEF DeleteDeck, Serving, ScheduleInv, QueueHasRoom, UnloadInFlight, NoLostWakeup,
       SocketsHaveRoom
  <2>4. QED
    BY <2>1, <2>2, <2>3
<1>13. CASE FilesRemoved \/ SnapshotDamaged \/ SnapshotRecovered \/ Restart \/ UNCHANGED vars
  BY <1>13 DEF FilesRemoved, SnapshotDamaged, SnapshotRecovered, Restart, vars, Serving, Idle, ScheduleInv,
     QueueHasRoom, UnloadInFlight, NoLostWakeup, SocketsHaveRoom
<1>14. CASE Exit \/ Crash
  BY <1>14, ScheduleDispose DEF Exit, Crash, Stop
<1>15. QED
  BY <1>3, <1>4, <1>5, <1>6, <1>7, <1>8, <1>9, <1>10, <1>11, <1>12, <1>13, <1>14 DEF Next

LEMMA Scheduling == Spec => []ScheduleInv
BY ScheduleInit, ScheduleStep, PTL DEF Spec

\* On any disk, failing, cutting or losing writes as it may: updates that wait
\* always have a timer or a flush that will take them, and a room nobody uses a
\* timer or an unload that will take it (scheduleFlush, scheduleUnloadCheck).
THEOREM Scheduled == Spec => []NoLostWakeup
<1>1. ScheduleInv => NoLostWakeup
  BY DEF ScheduleInv
<1>2. QED
  BY <1>1, Scheduling, PTL

LEMMA UsersStep ==
  ASSUME ScheduleInv, [Next]_vars, room = "loaded", room' # "loaded", ~ Idle
  PROVE  process' # "running" \/ record' # "stored"
<1> USE DEF processVars, entryVars, userVars
<1>1. connections \in Nat /\ leases \in Nat
  BY DEF ScheduleInv, TypeOK
<1>2. CASE FlushResolves \/ FlushFails
  <2>1. unload # "no" /\ process' = process
    BY <1>2 DEF FlushResolves, FlushFails, Settle
  <2>2. QED
    BY <2>1 DEF ScheduleInv, UnloadInFlight, Idle
<1>3. CASE UnloadTimerFires
  BY <1>3 DEF UnloadTimerFires
<1>4. CASE Shutdown \/ DeleteDeck \/ Exit \/ Crash
  BY <1>4 DEF Shutdown, DeleteDeck, Exit, Crash
<1>5. CASE CreateDeck
  BY <1>5 DEF CreateDeck, ScheduleInv
<1>6. CASE SeedRoom \/ StartLoad \/ FinishLoad \/ RefuseLoad
  BY <1>6 DEF SeedRoom, StartLoad, FinishLoad, RefuseLoad
<1>7. CASE Connect \/ Disconnect \/ Acquire \/ Release \/ ReleaseOrphan
           \/ (\E update \in Updates : PersistUpdate(update)) \/ FlushTimerFires
  BY <1>7 DEF Connect, Disconnect, Acquire, Release, ReleaseOrphan, PersistUpdate, FlushTimerFires
<1>8. CASE AppendResolves \/ SnapshotRenamed \/ LogReplaced
  BY <1>8 DEF AppendResolves, SnapshotRenamed, LogReplaced
<1>9. CASE FilesRemoved \/ SnapshotDamaged \/ SnapshotRecovered \/ Restart \/ UNCHANGED vars
  BY <1>9 DEF FilesRemoved, SnapshotDamaged, SnapshotRecovered, Restart, vars
<1>10. QED
  BY <1>2, <1>3, <1>4, <1>5, <1>6, <1>7, <1>8, <1>9 DEF Next

\* A room goes under a socket or a lease only when the process ends or the deck
\* is deleted: the idle timer, which a first socket leaves armed, never takes it
\* (connect, leaseOf, scheduleUnloadCheck, unload).
THEOREM UsersKeepRoom == Spec => UsersHaveRoom
<1>1. ScheduleInv /\ [Next]_vars
        => [room = "loaded" /\ room' # "loaded" /\ ~ Idle
              => process' # "running" \/ record' # "stored"]_vars
  BY UsersStep
<1>2. QED
  BY <1>1, Scheduling, PTL DEF Spec, UsersHaveRoom

-----------------------------------------------------------------------------
\* The files never lose what a stored deck held.

LEMMA HeldStep ==
  ASSUME WholeWrites, DurableInv, [Next]_vars, record = "stored", record' = "stored"
  PROVE  Held(files) \subseteq Held(files')
<1> USE DEF processVars, entryVars
<1>1. files \in FilesType /\ files.log.cut = FALSE
      /\ flush.batch \in SUBSET Updates /\ flush.state \in SUBSET Updates
  BY DEF DurableInv, TypeOK, LinesWhole
<1>2. CASE files' = files
  BY <1>2
<1>3. CASE AppendResolves
  <2>1. files' = [files EXCEPT !.log = LineWritten(files.log, flush.batch)]
    BY <1>3 DEF AppendResolves, WholeWrites
  <2>2. QED
    BY <1>1, <2>1, HeldAppended
<1>4. CASE SnapshotRenamed
  <2>1. files' = [files EXCEPT !.snapshot = SnapshotOf(flush.state)] /\ flush.phase = "snapshot"
    BY <1>4 DEF SnapshotRenamed, WholeWrites
  <2>2. Held(files') = flush.state \cup files.log.updates
    BY <1>1, <2>1, HeldSnapshot
  <2>3. QED
    BY <2>1, <2>2 DEF DurableInv, ContentInv, Compacting
<1>5. CASE LogReplaced
  <2>1. Held(files') = files.snapshot.updates /\ flush.phase = "truncate"
    BY <1>1, <1>5, HeldEmptied DEF LogReplaced
  <2>2. QED
    BY <2>1 DEF DurableInv, ContentInv, Compacting
<1>6. CASE FlushFails
  <2>1. files' \in AfterFailure
    BY <1>6 DEF FlushFails
  <2>2. QED
    BY <2>1, FailureKeeps
<1>7. CASE SnapshotDamaged \/ SnapshotRecovered
  <2>1. files'.log = files.log /\ files'.snapshot.updates = files.snapshot.updates
    BY <1>1, <1>7 DEF SnapshotDamaged, SnapshotRecovered, FilesType, SnapshotType
  <2>2. QED
    BY <2>1 DEF Held
<1>8. CASE Exit \/ Crash
  <2>1. files' = files \/ files' \in AfterFailure
    BY <1>8 DEF Exit, Crash, Stop
  <2>2. QED
    BY <2>1, FailureKeeps
<1>9. CASE CreateDeck \/ SeedRoom \/ StartLoad \/ FinishLoad \/ RefuseLoad \/ Connect \/ Disconnect
           \/ Acquire \/ Release \/ ReleaseOrphan
           \/ (\E update \in Updates : PersistUpdate(update)) \/ FlushTimerFires
  <2>1. files' = files
    BY <1>9 DEF CreateDeck, SeedRoom, StartLoad, FinishLoad, RefuseLoad, Connect, Disconnect,
       Acquire, Release, ReleaseOrphan, PersistUpdate, FlushTimerFires
  <2>2. QED
    BY <2>1
<1>10. CASE FlushResolves \/ UnloadTimerFires \/ Shutdown \/ DeleteDeck \/ Restart \/ UNCHANGED vars
  <2>1. files' = files
    BY <1>10 DEF FlushResolves, UnloadTimerFires, Shutdown, DeleteDeck, Restart, vars
  <2>2. QED
    BY <2>1
<1>11. CASE FilesRemoved
  BY <1>11 DEF FilesRemoved
<1>12. QED
  BY <1>3, <1>4, <1>5, <1>6, <1>7, <1>8, <1>9, <1>10, <1>11 DEF Next

\* On a disk that cuts no write short, no compaction, failed flush, crash or
\* snapshot that stops opening makes the files of a stored deck hold less.
THEOREM FilesNeverShrink ==
  ASSUME WholeWrites
  PROVE  Spec => HeldNeverShrinks
<1>1. DurableInv /\ [Next]_vars
        => [record = "stored" /\ record' = "stored" => Held(files) \subseteq Held(files')]_vars
  BY HeldStep
<1>2. QED
  BY <1>1, Durability, PTL DEF Spec, HeldNeverShrinks

=============================================================================
