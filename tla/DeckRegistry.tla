---------------------------- MODULE DeckRegistry ----------------------------
(***************************************************************************)
(* The life of one deck's room (decks/deck-registry.ts): loaded from the   *)
(* files on first use, its updates batched into one log record per flush,  *)
(* the log compacted into the snapshot, the room unloaded when idle,       *)
(* flushed on shutdown, forgotten when the deck is deleted.                *)
(*                                                                         *)
(* The server is single threaded: an action is what runs between two       *)
(* awaits.  Time is abstract: an armed timer may fire at any moment.       *)
(* Rooms of different decks share nothing here, so one deck is modelled;   *)
(* the other decks appear only in the time Shutdown takes before Exit.     *)
(***************************************************************************)
EXTENDS DeckStorage

CONSTANTS
  BlankSeed,          \* the update that seeds a blank deck
  CloseAfter,         \* failures, retried ever later, that last closeAfterFailingMilliseconds
  FailedAppendLeaves, \* what a failed append may leave: "nothing", "part", "line"
  SnapshotsDecay,     \* TRUE: a snapshot may stop opening (damage, a reset key)
  MaxConnections,     \* bound: sockets at once
  MaxLeases           \* bound: leases at once

ASSUME SeedAssumption == BlankSeed \in Updates
ASSUME LimitsAssumption ==
  /\ CloseAfter \in Nat \ {0}
  /\ MaxConnections \in Nat
  /\ MaxLeases \in Nat
ASSUME FaultsAssumption ==
  /\ FailedAppendLeaves \subseteq {"nothing", "part", "line"}
  /\ SnapshotsDecay \in BOOLEAN

VARIABLES
  process,     \* "running", "stopping" (SIGTERM), "crashed" or "exited"
  drained,     \* shutdown has unloaded this deck's room, or found none
  record,      \* the deck's record: "none", "stored", "deleting", "deleted"
  files,       \* the document's files
  room,        \* "absent", "seeding", "loading", "loaded", or "forgotten" by deleteDeck
  doc,         \* the room's document
  pending,     \* entry.pending
  flush,       \* entry.flushing: its phase, its batch, the state it compacts
  flushTimer,  \* entry.flushTimer is armed
  logLines,    \* entry.logSize.records, counted up to CompactAfter
  failures,    \* failed flushes since entry.failingSince was set (0: null)
  unload,      \* "no", or the flush the unload awaits: "first", "second"
  connections, \* entry.connections.size
  leases,      \* entry.leases
  orphans,     \* leases not yet released whose room was disposed under them
  unloadTimer, \* entry.unloadTimer is armed
  acked        \* history: updates of the batches whose append resolved

entryVars == <<doc, pending, flush, flushTimer, logLines, failures>>
userVars == <<connections, leases, orphans, unloadTimer>>
processVars == <<process, drained>>
vars == <<processVars, record, files, room, entryVars, unload, userVars, acked>>

IdleFlush == [phase |-> "idle", batch |-> {}, state |-> {}]

TypeOK ==
  /\ process \in {"running", "stopping", "crashed", "exited"}
  /\ drained \in BOOLEAN
  /\ record \in {"none", "stored", "deleting", "deleted"}
  /\ files \in FilesType
  /\ room \in {"absent", "seeding", "loading", "loaded", "forgotten"}
  /\ doc \in SUBSET Updates
  /\ pending \in SUBSET Updates
  /\ flush \in [phase: {"idle", "append", "snapshot", "truncate", "touch"},
                batch: SUBSET Updates, state: SUBSET Updates]
  /\ flushTimer \in BOOLEAN
  /\ logLines \in 0 .. CompactAfter
  /\ failures \in 0 .. CloseAfter
  /\ unload \in {"no", "first", "second"}
  /\ connections \in 0 .. MaxConnections
  /\ leases \in 0 .. MaxLeases
  /\ orphans \in 0 .. MaxLeases
  /\ leases + orphans <= MaxLeases
  /\ unloadTimer \in BOOLEAN
  /\ acked \in SUBSET Updates

Serving == process \in {"running", "stopping"}

Idle == connections = 0 /\ leases = 0

\* No entry: also what is left of one when its room is disposed.
NoEntry ==
  /\ doc = {} /\ pending = {} /\ flush = IdleFlush
  /\ flushTimer = FALSE /\ logLines = 0 /\ failures = 0
  /\ leases = 0 /\ unloadTimer = FALSE

Init ==
  /\ process = "running" /\ drained = FALSE
  /\ record = "none" /\ files = NoFiles
  /\ room = "absent" /\ NoEntry
  /\ unload = "no" /\ connections = 0 /\ orphans = 0
  /\ acked = {}

-----------------------------------------------------------------------------
\* The unload timer.

\* scheduleUnloadCheck: the timer is cancelled, and armed again only for a room
\* nobody uses.
ScheduleUnloadCheck == unloadTimer' = (connections' = 0 /\ leases' = 0)

\* room.connect reports the new connection before connect counts it, so a first
\* socket leaves the timer armed; it will find the socket when it fires.
CheckBeforeCounted == unloadTimer' = Idle

\* closeAll closes the sockets one by one, each with its own check.
CheckedByCloseAll == IF connections > 0 THEN leases = 0 ELSE unloadTimer

\* A room that goes closes its sockets; its leases are not looked at, and whoever
\* holds one keeps it.
LeaveUsers ==
  /\ connections' = 0 /\ unloadTimer' = FALSE
  /\ leases' = 0 /\ orphans' = orphans + leases

\* After a step that may have disposed the room.
UsersAfter(sockets, armed) ==
  IF room' = "absent"
  THEN LeaveUsers
  ELSE connections' = sockets /\ unloadTimer' = armed /\ UNCHANGED <<leases, orphans>>

-----------------------------------------------------------------------------
\* Creating and loading.

\* createDeck has written the record; loadEntry's awaits follow.
CreateDeck ==
  /\ Serving /\ record = "none"
  /\ record' = "stored"
  /\ room' = "seeding"
  /\ UNCHANGED <<processVars, files, entryVars, unload, userVars, acked>>

\* createDeckRoom with the blank seed, which it persists; createDeck takes a lease.
SeedRoom ==
  /\ Serving /\ room = "seeding" /\ orphans < MaxLeases
  /\ room' = "loaded"
  /\ doc' = {BlankSeed}
  /\ pending' = {BlankSeed}
  /\ flushTimer' = TRUE
  /\ leases' = 1
  /\ UNCHANGED <<processVars, record, files, flush, logLines, failures, unload, connections, orphans, acked>>
  /\ ScheduleUnloadCheck

\* loadEntry for an acquire or a connect: the index still names the deck.
StartLoad ==
  /\ Serving /\ record \in {"stored", "deleting"} /\ room = "absent"
  /\ room' = "loading"
  /\ UNCHANGED <<processVars, record, files, entryVars, unload, userVars, acked>>

\* createDeckRoom with the stored updates, then the connect or the acquire that waited.
FinishLoad ==
  /\ Serving /\ room = "loading"
  /\ doc' \in LoadDocument(files)
  /\ room' = "loaded"
  /\ logLines' = files.log.lines
  /\ \/ /\ connections < MaxConnections /\ connections' = connections + 1 /\ leases' = leases
        /\ CheckBeforeCounted
     \/ /\ leases + orphans < MaxLeases /\ leases' = leases + 1 /\ connections' = connections
        /\ ScheduleUnloadCheck
  /\ UNCHANGED <<processVars, record, files, pending, flush, flushTimer, failures, unload, orphans, acked>>

\* The snapshot does not open: no room is made and nothing is cached.
RefuseLoad ==
  /\ Serving /\ room = "loading" /\ LoadDocument(files) = {}
  /\ room' = "absent"
  /\ UNCHANGED <<processVars, record, files, entryVars, unload, userVars, acked>>

-----------------------------------------------------------------------------
\* Sockets, leases and edits.

\* ensureEntry: a room that is unloading is waited for, not handed out.
Available == Serving /\ room = "loaded" /\ unload = "no"

Connect ==
  /\ Available /\ connections < MaxConnections
  /\ connections' = connections + 1
  /\ CheckBeforeCounted
  /\ UNCHANGED <<processVars, record, files, room, entryVars, unload, leases, orphans, acked>>

Disconnect ==
  /\ Serving /\ connections > 0
  /\ connections' = connections - 1
  /\ UNCHANGED <<processVars, record, files, room, entryVars, unload, leases, orphans, acked>>
  /\ ScheduleUnloadCheck

Acquire ==
  /\ Available /\ leases + orphans < MaxLeases
  /\ leases' = leases + 1
  /\ UNCHANGED <<processVars, record, files, room, entryVars, unload, connections, orphans, acked>>
  /\ ScheduleUnloadCheck

\* Mutant of Release: a lease released twice is counted twice.
ReleaseAgain ==
  /\ Serving
  /\ leases' = leases - 1
  /\ UNCHANGED <<processVars, record, files, room, entryVars, unload, connections, orphans, acked>>
  /\ ScheduleUnloadCheck

\* Mutant of Release: giving a lease back does not look whether the room is idle.
ReleaseUnchecked ==
  /\ Serving /\ leases > 0
  /\ leases' = leases - 1
  /\ UNCHANGED <<processVars, record, files, room, entryVars, unload, connections, orphans, unloadTimer, acked>>

Release ==
  /\ Serving /\ leases > 0
  /\ leases' = leases - 1
  /\ UNCHANGED <<processVars, record, files, room, entryVars, unload, connections, orphans, acked>>
  /\ ScheduleUnloadCheck

\* A lease of a room that is gone is counted down on its old entry, where
\* scheduleUnloadCheck finds another entry in the map, or none, and does nothing.
ReleaseOrphan ==
  /\ Serving /\ orphans > 0
  /\ orphans' = orphans - 1
  /\ UNCHANGED <<processVars, record, files, room, entryVars, unload, connections, leases, unloadTimer, acked>>

\* The document took an update it did not hold, from a socket or a lease.
PersistUpdate(update) ==
  /\ Serving /\ room = "loaded" /\ ~Idle
  /\ update \notin doc
  /\ doc' = doc \cup {update}
  /\ pending' = pending \cup {update}
  /\ flushTimer' = (flushTimer \/ flush.phase = "idle")
  /\ UNCHANGED <<processVars, record, files, room, flush, logLines, failures, unload, userVars, acked>>

-----------------------------------------------------------------------------
\* Flushing.

\* flush takes the whole batch; with nothing to take it is over at once.
FlushOf(batch) ==
  IF batch = {} THEN IdleFlush ELSE [phase |-> "append", batch |-> batch, state |-> {}]

FlushTimerFires ==
  /\ Serving /\ flushTimer /\ flush.phase = "idle"
  /\ flush' = FlushOf(pending)
  /\ pending' = {}
  /\ flushTimer' = FALSE
  /\ UNCHANGED <<processVars, record, files, room, doc, logLines, failures, unload, userVars, acked>>

\* The entry is dropped from the map and its room disposed, pending updates with it.
Dispose ==
  /\ room' = "absent"
  /\ doc' = {} /\ pending' = {} /\ flush' = IdleFlush
  /\ flushTimer' = FALSE /\ logLines' = 0 /\ failures' = 0

\* Mutant of Rearmed: only a new update arms the timer.
NeverRearmed(rest) == FALSE

\* When a flush is over, the timer is armed again for what still waits.
Rearmed(rest) == rest # {}

\* The end of a flush, rest being what is still to be written: an unload flushes
\* once more and then disposes the room, whatever is left; else the timer is armed.
Settle(rest, failed) ==
  \/ /\ unload = "no" /\ (room = "loaded" \/ rest # {})
     /\ flush' = IdleFlush
     /\ pending' = rest
     /\ flushTimer' = Rearmed(rest)
     /\ failures' = failed
     /\ UNCHANGED <<room, doc, logLines, unload, drained>>
  \/ /\ unload = "first" /\ rest # {}
     /\ flush' = FlushOf(rest)
     /\ pending' = {}
     /\ flushTimer' = FALSE
     /\ failures' = failed
     /\ unload' = "second"
     /\ UNCHANGED <<room, doc, logLines, drained>>
  \/ /\ \/ unload = "second"
        \/ unload = "first" /\ rest = {}
        \/ unload = "no" /\ room = "forgotten" /\ rest = {}
     /\ Dispose
     /\ unload' = "no"
     /\ drained' = (drained \/ process = "stopping")

\* Mutant of EncodeState: only the batch is compacted.
EncodeBatch == flush.batch

\* encodeState: everything the room holds, flushed or not.
EncodeState == doc

\* appendDocument resolves; past the record or the byte limit the log is compacted.
AppendResolves ==
  /\ Serving /\ flush.phase = "append"
  /\ files' = [files EXCEPT !.log = LineWritten(files.log, flush.batch)]
  /\ logLines' = OneMore(logLines)
  /\ failures' = 0
  /\ acked' = IF record = "stored" THEN acked \cup flush.batch ELSE acked
  /\ \/ flush' = [flush EXCEPT !.phase = "snapshot", !.state = EncodeState]
     \/ logLines' < CompactAfter /\ flush' = [flush EXCEPT !.phase = "touch"]
  /\ UNCHANGED <<processVars, record, room, doc, pending, flushTimer, unload, userVars>>

\* compactDocument, first rename.  Without the deck's directory it can only fail.
SnapshotRenamed ==
  /\ Serving /\ flush.phase = "snapshot" /\ files # NoFiles
  /\ files' = [files EXCEPT !.snapshot = SnapshotOf(flush.state)]
  /\ flush' = [flush EXCEPT !.phase = "truncate"]
  /\ UNCHANGED <<processVars, record, room, doc, pending, flushTimer, logLines, failures, unload, userVars, acked>>

\* compactDocument, second rename.
LogReplaced ==
  /\ Serving /\ flush.phase = "truncate" /\ files # NoFiles
  /\ files' = [files EXCEPT !.log = EmptyLog]
  /\ logLines' = 0
  /\ flush' = [flush EXCEPT !.phase = "touch", !.state = {}]
  /\ UNCHANGED <<processVars, record, room, doc, pending, flushTimer, failures, unload, userVars, acked>>

\* touchRecord resolves (or has nothing to write): the flush went through.
FlushResolves ==
  /\ Serving /\ flush.phase = "touch"
  /\ Settle(pending, failures)
  /\ UsersAfter(connections, unloadTimer)
  /\ UNCHANGED <<process, record, files, acked>>

\* The files a step that throws may leave: a rename may be done and its fsync fail.
AfterFailure ==
  CASE flush.phase = "append" ->
         {[files EXCEPT !.log = AfterFailedAppend(files.log, flush.batch, left)] : left \in FailedAppendLeaves}
    [] flush.phase = "snapshot" /\ files # NoFiles ->
         {files, [files EXCEPT !.snapshot = SnapshotOf(flush.state)]}
    [] flush.phase = "truncate" /\ files # NoFiles ->
         {files, [files EXCEPT !.log = EmptyLog]}
    [] OTHER -> {files}

OneMoreFailure(count, most) == IF count < most THEN count + 1 ELSE count

\* Mutant of PutBack: the batch of a failed flush is forgotten.
BatchForgotten == pending

\* The batch of a failed flush goes back in front of what came meanwhile.
PutBack == flush.batch \cup pending

\* Any await of the flush throws.
FlushFails ==
  /\ Serving /\ flush.phase # "idle"
  /\ files' \in AfterFailure
  /\ Settle(PutBack, OneMoreFailure(failures, CloseAfter))
  /\ IF OneMoreFailure(failures, CloseAfter) = CloseAfter
     THEN UsersAfter(0, CheckedByCloseAll)
     ELSE UsersAfter(connections, unloadTimer)
  /\ UNCHANGED <<process, record, acked>>

-----------------------------------------------------------------------------
\* Unloading, shutting down, deleting, and the process ending.

\* Mutant of BeginUnload: the room is disposed without a flush.
DisposeAtOnce == Dispose /\ unload' = "no"

\* unload flushes first, joining the flush in flight if there is one.
BeginUnload ==
  \/ /\ flush.phase # "idle"
     /\ unload' = IF unload = "no" THEN "first" ELSE unload
     /\ UNCHANGED <<room, entryVars>>
  \/ /\ flush.phase = "idle" /\ pending # {}
     /\ flush' = FlushOf(pending)
     /\ pending' = {}
     /\ flushTimer' = FALSE
     /\ unload' = "first"
     /\ UNCHANGED <<room, doc, logLines, failures>>
  \/ /\ flush.phase = "idle" /\ pending = {}
     /\ Dispose
     /\ unload' = "no"

\* Mutant of UnloadTimerFires: the room is not looked at again.
UnloadWithoutLooking ==
  /\ Serving /\ room = "loaded" /\ unloadTimer /\ unload = "no"
  /\ BeginUnload
  /\ UsersAfter(connections, FALSE)
  /\ UNCHANGED <<processVars, record, files, acked>>

\* The unload timer fires: it unloads the room if nobody uses it now, and an
\* unload under way is not begun again.
UnloadTimerFires ==
  /\ Serving /\ room = "loaded" /\ unloadTimer
  /\ IF Idle /\ unload = "no" THEN BeginUnload ELSE UNCHANGED <<room, entryVars, unload>>
  /\ UsersAfter(connections, FALSE)
  /\ UNCHANGED <<processVars, record, files, acked>>

\* SIGTERM: the sockets are closed and the room, if loaded, is unloaded, leased or not.
Shutdown ==
  /\ process = "running"
  /\ process' = "stopping"
  /\ IF room = "loaded"
     THEN /\ BeginUnload
          /\ UsersAfter(0, CheckedByCloseAll)
          /\ drained' = (room' = "absent")
     ELSE drained' = TRUE /\ UNCHANGED <<room, entryVars, unload, userVars>>
  /\ UNCHANGED <<record, files, acked>>

\* deleteDeck up to its first await: the entry is forgotten without flushing.
DeleteDeck ==
  /\ Serving /\ record = "stored"
  /\ record' = "deleting"
  /\ IF room = "loaded"
     THEN /\ LeaveUsers
          /\ IF flush.phase = "idle"
             THEN Dispose
             ELSE /\ room' = "forgotten"
                  /\ pending' = {} /\ flushTimer' = FALSE
                  /\ UNCHANGED <<doc, flush, logLines, failures>>
     ELSE UNCHANGED <<room, entryVars, userVars>>
  /\ acked' = {}
  /\ UNCHANGED <<processVars, files, unload>>

\* deleteDeck: the deck's directory is removed.
FilesRemoved ==
  /\ Serving /\ record = "deleting"
  /\ record' = "deleted"
  /\ files' = NoFiles
  /\ UNCHANGED <<processVars, room, entryVars, unload, userVars, acked>>

\* Outside the server: a snapshot stops opening, and an operator recovers it.
SnapshotDamaged ==
  /\ SnapshotsDecay /\ files.snapshot # NoSnapshot
  /\ files' = [files EXCEPT !.snapshot.readable = FALSE]
  /\ UNCHANGED <<processVars, record, room, entryVars, unload, userVars, acked>>

SnapshotRecovered ==
  /\ SnapshotsDecay /\ ~files.snapshot.readable
  /\ files' = [files EXCEPT !.snapshot.readable = TRUE]
  /\ UNCHANGED <<processVars, record, room, entryVars, unload, userVars, acked>>

\* The process ends; an append under way may leave anything a failed one leaves.
Stop ==
  /\ \/ files' = files
     \/ flush.phase = "append" /\ files' \in AfterFailure
  /\ Dispose
  /\ unload' = "no"
  /\ connections' = 0 /\ leases' = 0 /\ orphans' = 0 /\ unloadTimer' = FALSE
  /\ record' = IF record = "deleting" THEN "stored" ELSE record
  /\ UNCHANGED <<drained, acked>>

\* process.exit, once shutdown has unloaded every room it found.
Exit == process = "stopping" /\ drained /\ process' = "exited" /\ Stop

Crash == Serving /\ process' = "crashed" /\ Stop

Restart ==
  /\ ~Serving
  /\ process' = "running" /\ drained' = FALSE
  /\ UNCHANGED <<record, files, room, entryVars, unload, userVars, acked>>

-----------------------------------------------------------------------------
Next ==
  \/ CreateDeck \/ SeedRoom \/ StartLoad \/ FinishLoad \/ RefuseLoad
  \/ Connect \/ Disconnect \/ Acquire \/ Release \/ ReleaseOrphan
  \/ \E update \in Updates : PersistUpdate(update)
  \/ FlushTimerFires \/ AppendResolves \/ SnapshotRenamed \/ LogReplaced
  \/ FlushResolves \/ FlushFails
  \/ UnloadTimerFires \/ Shutdown \/ DeleteDeck \/ FilesRemoved
  \/ SnapshotDamaged \/ SnapshotRecovered
  \/ Exit \/ Crash \/ Restart

Spec == Init /\ [][Next]_vars

\* Timers fire, every await of a flush settles, and a disk that is asked again
\* and again does it in the end.
Fairness ==
  /\ WF_vars(FlushTimerFires) /\ WF_vars(UnloadTimerFires)
  /\ WF_vars(AppendResolves \/ SnapshotRenamed \/ LogReplaced \/ FlushResolves \/ FlushFails)
  /\ SF_vars(AppendResolves) /\ SF_vars(SnapshotRenamed)
  /\ SF_vars(LogReplaced) /\ SF_vars(FlushResolves)

FairSpec == Spec /\ Fairness

-----------------------------------------------------------------------------
\* Properties.

\* The disk assumption of the durability properties: no write is cut short.
WholeWrites == "part" \notin FailedAppendLeaves

\* deck-storage.ts:17-18: "a flush the caller saw succeed survives a power cut",
\* through crashes, failed flushes, compactions and unloads.
AckedSurvives == record = "stored" => acked \subseteq Held(files)

\* Nothing is lost in memory: what a room shows is on disk, waiting, or being
\* written, however many flushes failed in between.
RoomAccounted ==
  record = "stored" /\ room = "loaded" => doc = Held(files) \cup pending \cup flush.batch

\* Updates that wait always have a timer or a flush that will take them, and a
\* room nobody uses a timer or an unload that will take it (rearming after a
\* flush, after a socket or lease went, after a failing disk closed the sockets).
NoLostWakeup ==
  /\ pending # {} => flushTimer \/ flush.phase # "idle"
  /\ room = "loaded" /\ Idle => unloadTimer \/ unload # "no"

\* A room goes while somebody uses it only when the process ends or the deck is
\* deleted, never by the idle timer, which a first socket leaves armed.
UsersHaveRoom ==
  [][room = "loaded" /\ room' # "loaded" /\ ~Idle
       => process' # "running" \/ record' # "stored"]_vars

\* deck-storage.ts:19-29: compaction at any point of a crash, and a snapshot that
\* does not open, never make the files of a stored deck hold less.
HeldNeverShrinks ==
  [][record = "stored" /\ record' = "stored" => Held(files) \subseteq Held(files')]_vars

\* An update a room took reaches the files, unless the room or the deck goes first.
UpdatesReachDisk ==
  \A update \in Updates :
    record = "stored" /\ update \in pending \cup flush.batch
      ~> update \in Held(files) \/ room # "loaded" \/ record # "stored"

\* The room and its files keep the promise of DurableDeck: opening shows exactly
\* what was durable, and an open deck falls back only when at risk, never below it.
Durable == INSTANCE DurableDeck WITH
  status <- IF record # "stored" THEN "gone" ELSE IF room = "loaded" THEN "open" ELSE "closed",
  content <- IF record # "stored" THEN {} ELSE IF room = "loaded" THEN doc ELSE Held(files),
  durable <- IF record # "stored" THEN {} ELSE Held(files),
  atRisk <- process # "running" \/ failures > 0 \/ unload = "second"

KeepsDeck == Durable!Spec

\* A room nobody uses is unloaded.
IdleRoomsUnload == room = "loaded" /\ Idle ~> room # "loaded" \/ ~Idle
=============================================================================
