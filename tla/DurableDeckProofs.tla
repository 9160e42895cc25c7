-------------------------- MODULE DurableDeckProofs --------------------------
(***************************************************************************)
(* DeckRegistry implements DurableDeck: on a disk that cuts no write short *)
(* every step of the registry is, under the mapping Durable, a step of the *)
(* abstract deck or none.                                                  *)
(***************************************************************************)
EXTENDS DeckRegistryProofs

\* What the mapping shows of the registry.
Status == IF record # "stored" THEN "gone" ELSE IF room = "loaded" THEN "open" ELSE "closed"
Content == IF record # "stored" THEN {} ELSE IF room = "loaded" THEN doc ELSE Held(files)
Kept == IF record # "stored" THEN {} ELSE Held(files)
AtRisk == process # "running" \/ failures > 0 \/ unload = "second"

\* A step of the abstract deck, or none.
Allowed == [Durable!Next]_(Durable!vars)

\* What is durable does not change, nor does what is shown; the risk may.
LEMMA Same ==
  ASSUME Status' = Status, Content' = Content, Kept' = Kept
  PROVE  Allowed
<1>1. AtRisk \in BOOLEAN /\ AtRisk' \in BOOLEAN
  BY DEF AtRisk
<1>2. CASE AtRisk' = AtRisk
  BY <1>2 DEF Status, Content, Kept, AtRisk, Allowed, Durable!vars
<1>3. CASE AtRisk' = ~ AtRisk
  <2>1. Durable!RiskChanges
    BY <1>3 DEF Status, Content, Kept, AtRisk, Durable!RiskChanges
  <2>2. QED
    BY <2>1 DEF Allowed, Durable!Next
<1>4. QED
  BY <1>1, <1>2, <1>3

\* An open room stays open, and more of it is on disk.
LEMMA Persists ==
  ASSUME record = "stored", record' = "stored", room = "loaded", room' = "loaded", doc' = doc,
         Held(files) \subseteq Held(files'), Held(files') \subseteq doc
  PROVE  Allowed
<1>1. Durable!Persist
  BY DEF Durable!Persist
<1>2. QED
  BY <1>1 DEF Allowed, Durable!Next

\* A room that is all on disk is disposed.
LEMMA Closes ==
  ASSUME record = "stored", record' = "stored", room = "loaded", room' = "absent",
         doc = Held(files), Held(files') = Held(files)
  PROVE  Allowed
<1>1. Durable!Close
  BY DEF Durable!Close
<1>2. QED
  BY <1>1 DEF Allowed, Durable!Next

\* A room that may not be is disposed, at risk.
LEMMA FallsBack ==
  ASSUME record = "stored", record' = "stored", room = "loaded", room' = "absent",
         AtRisk \/ AtRisk', Held(files) \subseteq Held(files'), Held(files') \subseteq doc
  PROVE  Allowed
<1>1. Durable!FallBack
  BY DEF Durable!FallBack, AtRisk
<1>2. QED
  BY <1>1 DEF Allowed, Durable!Next

\* A deck that is gone stays gone, whatever its files and its room do.
LEMMA StaysGone ==
  ASSUME record # "stored", record' # "stored"
  PROVE  Allowed
BY Same DEF Status, Content, Kept

-----------------------------------------------------------------------------
\* The steps of the registry.

\* The parts of the type invariant that the steps below need.
LEMMA FilesAsTyped ==
  ASSUME DurableInv
  PROVE  /\ files \in FilesType /\ files.log.cut = FALSE /\ Held(files) \in SUBSET Updates
         /\ doc \in SUBSET Updates /\ pending \in SUBSET Updates
         /\ flush.batch \in SUBSET Updates /\ flush.state \in SUBSET Updates
BY DEF DurableInv, TypeOK, LinesWhole, FilesType, SnapshotType, LogType, Held

\* A room that is loaded shows what the files hold and what waits.
LEMMA Shows ==
  ASSUME DurableInv, record = "stored", room = "loaded"
  PROVE  /\ Held(files) \subseteq doc /\ flush.batch \subseteq doc
         /\ doc = Held(files) \cup pending \cup flush.batch
BY DEF DurableInv, ContentInv, RoomAccounted

\* Loading, and whatever leaves the files and the document alone.
LEMMA QuietRefines ==
  ASSUME DurableInv, files' = files, doc' = doc, record' = record,
         (room' = "loaded") <=> (room = "loaded")
  PROVE  Allowed
BY Same DEF Status, Content, Kept

\* A new deck is closed and empty (createDeck).
LEMMA CreateRefines ==
  ASSUME DurableInv, CreateDeck
  PROVE  Allowed
<1>1. files = NoFiles /\ room = "absent"
  BY DEF CreateDeck, DurableInv, RoomInv, NothingBeforeSeed
<1>2. Held(files) = {} /\ Held(files') = {}
  BY <1>1 DEF CreateDeck, Held, NoFiles, NoSnapshot, EmptyLog
<1>3. Durable!Create
  BY <1>2 DEF CreateDeck, Durable!Create
<1>4. QED
  BY <1>3 DEF Allowed, Durable!Next

\* Its first room shows the seed, which is not yet on disk (createDeckRoom).
LEMMA SeedRefines ==
  ASSUME DurableInv, SeedRoom
  PROVE  Allowed
<1>1. CASE record = "stored"
  <2>1. Held(files) = {}
    BY <1>1 DEF SeedRoom, DurableInv, RoomInv, NothingBeforeSeed
  <2>2. Durable!Seed
    BY <1>1, <2>1, SeedAssumption DEF SeedRoom, Durable!Seed, processVars
  <2>3. QED
    BY <2>2 DEF Allowed, Durable!Next
<1>2. QED
  BY <1>1, StaysGone DEF SeedRoom

\* A load shows what the files hold, neither more nor less (loadEntry).
LEMMA LoadRefines ==
  ASSUME DurableInv, FinishLoad
  PROVE  Allowed
<1>1. CASE record = "stored"
  <2>1. doc' = Held(files)
    BY DEF FinishLoad, LoadDocument
  <2>2. Durable!Open
    BY <1>1, <2>1 DEF FinishLoad, Durable!Open, processVars
  <2>3. QED
    BY <2>2 DEF Allowed, Durable!Next
<1>2. QED
  BY <1>1, StaysGone DEF FinishLoad

\* An update is shown at once (persistUpdate).
LEMMA UpdateRefines ==
  ASSUME DurableInv, NEW update \in Updates, PersistUpdate(update)
  PROVE  Allowed
<1>1. CASE record = "stored"
  <2>1. Durable!Accept(update)
    BY <1>1 DEF PersistUpdate, Durable!Accept, processVars
  <2>2. QED
    BY <2>1 DEF Allowed, Durable!Next
<1>2. QED
  BY <1>1, StaysGone DEF PersistUpdate

\* The three writes of a flush that work.
LEMMA WriteRefines ==
  ASSUME DurableInv, AppendResolves \/ SnapshotRenamed \/ LogReplaced
  PROVE  Allowed
<1>1. record' = record /\ room' = room /\ doc' = doc
  BY DEF AppendResolves, SnapshotRenamed, LogReplaced
<1>2. CASE record = "stored"
  <2>1. flush.phase # "idle"
    BY DEF AppendResolves, SnapshotRenamed, LogReplaced
  <2>2. room = "loaded"
    BY <1>2, <2>1 DEF DurableInv, RoomInv, QueueHasRoom, ForgottenIsDeleted, IdleFlush
  <2>3. CASE AppendResolves
    <3>1. files' = [files EXCEPT !.log = LineWritten(files.log, flush.batch)]
      BY <2>3 DEF AppendResolves
    <3>2. Held(files') = Held(files) \cup flush.batch
      BY <3>1, FilesAsTyped, HeldAppended
    <3>3. QED
      BY <1>1, <1>2, <2>2, <3>2, Shows, Persists
  <2>4. CASE SnapshotRenamed
    <3>1. Held(files') = flush.state \cup files.log.updates /\ flush.phase = "snapshot"
      BY <2>4, FilesAsTyped, HeldSnapshot DEF SnapshotRenamed
    <3>2. Held(files) \subseteq flush.state /\ flush.state \subseteq doc
      BY <1>2, <3>1 DEF DurableInv, ContentInv, Compacting
    <3>3. Held(files) \subseteq Held(files') /\ Held(files') \subseteq doc
      BY <3>1, <3>2 DEF Held
    <3>4. QED
      BY <1>1, <1>2, <2>2, <3>3, Persists
  <2>5. CASE LogReplaced
    <3>1. Held(files') = files.snapshot.updates /\ flush.phase = "truncate"
      BY <2>5, FilesAsTyped, HeldEmptied DEF LogReplaced
    <3>2. Held(files) \subseteq files.snapshot.updates
      BY <1>2, <3>1 DEF DurableInv, ContentInv, Compacting
    <3>3. Held(files) = Held(files')
      BY <3>1, <3>2 DEF Held
    <3>4. QED
      BY <1>1, <1>2, <2>2, <3>3, Shows, Persists
  <2>6. QED
    BY <2>3, <2>4, <2>5
<1>3. QED
  BY <1>1, <1>2, StaysGone

\* The end of a flush: a room that goes with updates left goes at risk, since
\* the unload has flushed twice or nothing was left.
LEMMA SettleRefines ==
  ASSUME DurableInv, NEW rest \in SUBSET Updates, NEW failed, Settle(rest, failed),
         flush.phase # "idle", record' = record,
         record = "stored" /\ room = "loaded" =>
           /\ Held(files) \subseteq Held(files') /\ Held(files') \subseteq doc
           /\ rest = {} => Held(files) = doc
  PROVE  Allowed
<1>1. CASE record = "stored"
  <2>1. room = "loaded"
    BY <1>1 DEF DurableInv, RoomInv, QueueHasRoom, ForgottenIsDeleted, IdleFlush
  <2>2. CASE room' = "loaded" /\ doc' = doc
    BY <1>1, <2>1, <2>2, Persists
  <2>3. CASE room' = "absent" /\ rest = {}
    BY <1>1, <2>1, <2>3, Closes
  <2>4. CASE room' = "absent" /\ unload = "second"
    BY <1>1, <2>1, <2>4, FallsBack DEF AtRisk
  <2>5. QED
    BY <2>1, <2>2, <2>3, <2>4 DEF Settle, Dispose
<1>2. QED
  BY <1>1, StaysGone

\* A flush that went through.
LEMMA ResolveRefines ==
  ASSUME DurableInv, FlushResolves
  PROVE  Allowed
<1>1. pending \in SUBSET Updates /\ Settle(pending, failures) /\ flush.phase = "touch"
      /\ record' = record /\ files' = files
  BY FilesAsTyped DEF FlushResolves
<1>2. record = "stored" => flush.batch \subseteq Held(files)
  BY <1>1 DEF DurableInv, ContentInv, Compacting
<1>3. record = "stored" /\ room = "loaded" =>
        /\ Held(files) \subseteq Held(files') /\ Held(files') \subseteq doc
        /\ pending = {} => Held(files) = doc
  BY <1>1, <1>2, Shows
<1>4. flush.phase # "idle"
  BY <1>1
<1>5. QED
  BY <1>1, <1>3, <1>4, SettleRefines

\* A flush that threw; what it took goes back in front of the queue.
LEMMA FailRefines ==
  ASSUME WholeWrites, DurableInv, FlushFails
  PROVE  Allowed
<1>1. PutBack \in SUBSET Updates /\ Settle(PutBack, OneMoreFailure(failures, CloseAfter))
      /\ flush.phase # "idle" /\ record' = record /\ files' \in AfterFailure
  BY FilesAsTyped DEF FlushFails, PutBack
<1>2. /\ record = "stored" => Held(files) \subseteq Held(files')
      /\ record = "stored" /\ room = "loaded" => Held(files') \subseteq doc
  BY <1>1, FailureKeeps
<1>3. record = "stored" /\ room = "loaded" /\ PutBack = {} => Held(files) = doc
  BY Shows DEF PutBack
<1>4. QED
  BY <1>1, <1>2, <1>3, SettleRefines

\* An unload disposes at once only of a room with nothing to flush.
LEMMA UnloadRefines ==
  ASSUME DurableInv, BeginUnload, room = "loaded", record' = record, files' = files
  PROVE  Allowed
<1>1. CASE record = "stored"
  <2>1. CASE room' = "loaded" /\ doc' = doc
    BY <2>1, QuietRefines
  <2>2. CASE room' = "absent" /\ pending = {} /\ flush.phase = "idle"
    <3>1. doc = Held(files)
      BY <1>1, <2>2, Shows DEF DurableInv, RoomInv, BatchInFlight
    <3>2. QED
      BY <1>1, <2>2, <3>1, Closes
  <2>3. QED
    BY <2>1, <2>2 DEF BeginUnload, Dispose, entryVars
<1>2. QED
  BY <1>1, StaysGone

\* SIGTERM unloads the room, if there is one.
LEMMA ShutdownRefines ==
  ASSUME DurableInv, Shutdown
  PROVE  Allowed
BY UnloadRefines, QuietRefines DEF Shutdown, entryVars

\* deleteDeck forgets the room before it removes a file.
LEMMA DeleteRefines ==
  ASSUME DurableInv, DeleteDeck
  PROVE  Allowed
<1>1. Durable!Delete
  BY DEF DeleteDeck, Durable!Delete
<1>2. QED
  BY <1>1 DEF Allowed, Durable!Next

\* The snapshot stops opening, or opens again; its updates stay.
LEMMA DamageRefines ==
  ASSUME DurableInv, SnapshotDamaged \/ SnapshotRecovered
  PROVE  Allowed
<1>1. /\ record' = record /\ room' = room /\ doc' = doc
      /\ files'.log = files.log /\ files'.snapshot.updates = files.snapshot.updates
  BY FilesAsTyped DEF SnapshotDamaged, SnapshotRecovered, FilesType, SnapshotType, entryVars
<1>2. Held(files') = Held(files)
  BY <1>1 DEF Held
<1>3. QED
  BY <1>1, <1>2, Same DEF Status, Content, Kept

\* The process ends: what was open falls back to what the files hold, and a
\* deletion that was under way has left a deck.
LEMMA StopRefines ==
  ASSUME WholeWrites, DurableInv, DurableInv', Stop, process' # "running",
         Exit \/ Crash
  PROVE  Allowed
<1>1. files' = files \/ files' \in AfterFailure
  BY DEF Stop
<1>2. room' = "absent" /\ AtRisk'
  BY DEF Stop, Dispose, AtRisk
<1>3. CASE record = "stored" /\ room = "loaded"
  <2>1. Held(files) \subseteq Held(files') /\ Held(files') \subseteq doc /\ record' = "stored"
    BY <1>1, <1>3, FailureKeeps, Shows DEF Stop
  <2>2. QED
    BY <1>2, <1>3, <2>1, FallsBack
<1>4. CASE record = "stored" /\ room # "loaded"
  <2>1. flush.phase = "idle"
    BY <1>4 DEF DurableInv, RoomInv, QueueHasRoom, ForgottenIsDeleted, IdleFlush
  <2>2. files' = files /\ record' = record
    BY <1>4, <2>1 DEF Stop
  <2>3. QED
    BY <1>2, <1>4, <2>2, Same DEF Status, Content, Kept
<1>5. CASE record = "deleting"
  <2>1. Held(files') \in SUBSET Updates /\ record' = "stored"
    BY <1>5 DEF Stop, DurableInv, TypeOK, FilesType, SnapshotType, LogType, Held
  <2>2. Durable!DeletionInterrupted
    BY <1>2, <1>5, <2>1 DEF Durable!DeletionInterrupted, AtRisk
  <2>3. QED
    BY <2>2 DEF Allowed, Durable!Next
<1>6. CASE record \in {"none", "deleted"}
  BY <1>6, StaysGone DEF Stop
<1>7. QED
  BY <1>3, <1>4, <1>5, <1>6 DEF DurableInv, TypeOK

\* All steps together.
LEMMA StepRefines ==
  ASSUME WholeWrites, DurableInv, DurableInv', [Next]_vars
  PROVE  Allowed
<1> USE DEF processVars, entryVars
<1>1. CASE CreateDeck \/ SeedRoom \/ FinishLoad
  BY <1>1, CreateRefines, SeedRefines, LoadRefines
<1>2. CASE StartLoad \/ RefuseLoad
  BY <1>2, QuietRefines DEF StartLoad, RefuseLoad
<1>3. CASE Connect \/ Disconnect \/ Acquire \/ Release \/ ReleaseOrphan \/ FlushTimerFires \/ Restart
  BY <1>3, QuietRefines DEF Connect, Disconnect, Acquire, Release, ReleaseOrphan, FlushTimerFires, Restart
<1>4. ASSUME NEW update \in Updates, PersistUpdate(update) PROVE Allowed
  BY <1>4, UpdateRefines
<1>5. CASE AppendResolves \/ SnapshotRenamed \/ LogReplaced
  BY <1>5, WriteRefines
<1>6. CASE FlushResolves \/ FlushFails
  BY <1>6, ResolveRefines, FailRefines
<1>7. CASE UnloadTimerFires
  BY <1>7, UnloadRefines, QuietRefines DEF UnloadTimerFires
<1>8. CASE Shutdown \/ DeleteDeck
  BY <1>8, ShutdownRefines, DeleteRefines
<1>9. CASE FilesRemoved
  BY <1>9, StaysGone DEF FilesRemoved
<1>10. CASE SnapshotDamaged \/ SnapshotRecovered
  BY <1>10, DamageRefines
<1>11. CASE Exit \/ Crash
  BY <1>11, StopRefines DEF Exit, Crash
<1>12. CASE UNCHANGED vars
  BY <1>12, QuietRefines DEF vars
<1>13. QED
  BY <1>1, <1>2, <1>3, <1>4, <1>5, <1>6, <1>7, <1>8, <1>9, <1>10, <1>11, <1>12 DEF Next

\* At first there is no deck.
LEMMA StartRefines == Init => Durable!Init
BY DEF Init, NoEntry, Durable!Init

\* Whatever the registry does with rooms, logs and snapshots, a deck keeps the
\* abstract promise: it shows what it held, more of it becomes durable and
\* nothing else, and it falls back only at risk and never below what is durable
\* (deck-registry.ts, deck-storage.ts:17-29), for any updates and limits.
THEOREM DeckIsKept ==
  ASSUME WholeWrites
  PROVE  Spec => KeepsDeck
<1>1. DurableInv /\ DurableInv' /\ [Next]_vars => [Durable!Next]_(Durable!vars)
  BY StepRefines DEF Allowed
<1>2. QED
  BY <1>1, StartRefines, Durability, PTL DEF Spec, KeepsDeck, Durable!Spec

=============================================================================
