# Verification of the deck server

TLA+ models, TLC runs and TLAPS proofs about `src/mcp/sasha-slides`: what happens
to the edits, the sharing and the discussion of a slide deck while sockets come
and go, disks fail and processes restart; and what happens to the proposals and
the comment tasks that an agent and a person exchange over Google Drive.
Paths below are relative to `src/mcp/sasha-slides/` unless they start with `src/`.

## Inventory

| Part | State it keeps | Operations | What makes it correct |
| --- | --- | --- | --- |
| Deck registry, `decks/deck-registry.ts` | per deck: the loaded room, `pending` updates, the flush in flight, timers, log size, failures, the unload in flight, connections, leases; a record cache | load, connect, acquire, flush, compact, retry, unload, delete, shutdown, serialised record updates | no acknowledged update is lost; a room is handed out only while it is alive; waiting updates are always picked up; failures are bounded in time |
| Deck storage, `decks/deck-storage.ts` | `document.snapshot`, `document.log`, `discussion.log`, `deck.sealed`, assets, `index.json` | append, atomic replace, load, delete | an append that resolved survives a crash; loading after any crash gives what was held |
| Deck manager and records, `decks/deck-manager.ts`, `decks/deck-records.ts` | the record: members, invitations, link sharing; sockets being admitted | create, share, invite, accept, change or remove a member, connect, delete, erase an account | a socket's role follows the record; limits hold; a deleted deck stays deleted |
| Deck socket, `decks/deck-socket.ts` | frames queued while a socket is being admitted, the heartbeat | attach, receive, ping, close | no frame is processed before admission or after close |
| Deck room, `engine/src/server/deck-room.ts` with `protected-field-guard.ts`, `awareness-relay.ts`, `rate-limit.ts` | the shared document, its connections with their roles and buckets, awareness ownership | connect, receive (sync, update, awareness, text), set role, apply agent edits, dispose | replicas agree; a viewer writes nothing; protected fields change only through the server; every accepted update is both persisted and broadcast |
| Discussion authority, `engine/src/server/discussion-authority.ts`, `discussion-log.ts` | comments, threads, revisions, sequence number | submit, replay, persist | one order for everybody; revisions are not lost; no comment is acknowledged and then gone |
| Collaboration client, `engine/src/web/collaboration/` | connection state and generation, retry delay, unsent changes, the discussion replica | connect, reconnect, give up, submit, receive | late events of an old socket change nothing; every submission settles; replicas follow the server |
| Deck sessions, `decks/deck-sessions.ts` | embed tickets | issue, check, renew | an expired or revoked ticket opens nothing |
| Authorization server and accounts, `http/` | codes, tokens, expiring tables, throttles | authorise, exchange, rotate, revoke | a code or a refresh token is used once |
| Proposal connector, `proposal.ts`, `drive-channel.ts` | a proposal's folder in Drive: `NN.html`, `events/`, `manifest.json`, `PICK`, `READY` | stage, revise, clear, await | what is announced has been written; a slide in the deck is not deleted as not inserted |
| Google Slides add-on, `addon/src/` | the slides window and its observer; the sidebar and its conversation | open, follow, insert, dismiss, close | a set is inserted once; what is recorded has happened; an open window follows |
| Comment bot, `comment-bot/` | watches, tasks, cursors, per owner a Drive channel with its page token, the sweep's timer | watch, stop, sync, scan, sweep, renew, restart | no comment on a watched deck is passed; the last watch that ends takes nothing from the next one |
| Feedback channel, `feedback/`, `feedback-delivery.ts` | waiting agents, undelivered comments | post, poll, deliver | a comment is delivered |
| Document model, editor, presenter, views, converter | pure reducers and functions | commands, gestures, layout | data transformations; no concurrency of their own |
| Report service, structured prompting, environment manager (`src/report-service`, `src/structured-prompting`, `src/nanobox`) | separate programs | | not part of the deck server |

How they interact: `deck-socket` admits a websocket through `deck-manager.connect`,
which reads the record through the registry, asks the registry for the room
(loading it if needed) and registers the connection with `deck-room`. The room
calls back into the registry (`persistUpdate`, `persistDiscussion`), which batches
and writes through `deck-storage`. Sharing changes go through the registry's
serialised record updates and are pushed to the open sockets. Agents (MCP tools)
take a lease on the room instead of a socket. The proposal connector and the
add-on never speak to each other: both read and write one folder in Drive, and any
of their calls may fail or have taken effect although it seemed to fail. The
comment bot hears of changes by pushes that Google may drop, and reads Drive's
change feed for itself.

The server is one event loop. What is hard is what happens between two awaits of
one handler: a room that is being unloaded while somebody connects, a flush that
fails while new updates arrive, a crash between two renames, a deletion that does
not wait for the flush in flight, a role that changes while a socket is admitted,
a tool that fails between two of the files that make one announcement, a sync that
began before the watch it ought to serve.

## Modules

| Module | Models | Extends |
| --- | --- | --- |
| `DeckStorage` | the two document files: what an append, a failed append, a compaction and a load make of them | |
| `DeckRegistry` | the life of one deck's room over those files | `DeckStorage` |
| `DurableDeck` | the abstract promise: what a deck shows, what no crash can take away, when it may fall back | |
| `DeckRegistryProofs` | the inductive invariants and the theorems | `DeckRegistry`, `TLAPS` |
| `DurableDeckProofs` | that `DeckRegistry` implements `DurableDeck` | `DeckRegistryProofs` |
| `DeckAccess` | the record and its index entry, serialised changes to it, the sockets that live under it, deletion and restart | `Subsequences` |
| `DeckAccessProofs` | the inductive invariants and the theorems | `DeckAccess`, `CollectionProofs` |
| `DiscussionLog` | the pure fold of the comments and the authority's decision | |
| `Discussion` | requests and entries over sockets, the append with its retries, the clients' replicas | `DiscussionLog`, `Subsequences` |
| `DiscussionProofs` | the inductive invariants and the theorems | `Discussion`, `CollectionProofs` |
| `SharedScript` | a protected field of a shared document: what concurrent updates make of it, and the guard's decision | |
| `DeckSync` | the document between its room and its editors' pages: handshake, updates, corrections, drops, crashes | `SharedScript` |
| `DeckSyncProofs` | what a document's last writes are, the inductive invariant and the theorems | `DeckSync`, `CollectionProofs` |
| `Proposal` | the connector's tools over a proposal's folder | |
| `SlidesWindow` | the add-on's window beside them, over the same folder | `Proposal` |
| `SlidesWindowProofs` | the inductive invariant of the folder and the window, and the theorems | `SlidesWindow`, `TLAPS` |
| `CommentBot` | one owner's watches, channel, syncs and sweeps over the change feed | |
| `CommentBotProofs` | the inductive invariants and the theorems | `CommentBot`, `TLAPS` |
| `Subsequences` | what `Array.prototype.filter` keeps of a sequence | |
| `CollectionProofs` | lemmas that the proof modules share: least numbers and induction in terms of sets, ranges, kept subsequences, sums over finite sets | `Subsequences`, `TLAPS` |
| `MC*` | the small instances that TLC checks | |

The server is one event loop, so in every module an action is what runs between
two awaits, and everything that can happen at an await is another action.

### DeckRegistry and DeckStorage

The variables are the fields of `RoomEntry` (`decks/deck-registry.ts:422-437`):
`pending`, `flush` (the entry's `flushing`, with the batch it took and, while it
compacts, the state it encoded), `flushTimer`, `logLines` (`logSize.records`),
`failures` (`failingSince` and the retry delay), `connections`, `leases`,
`unloadTimer`; `room` and `unload` are the maps `entries`, `loading` and `unloading`. A document is the
set of updates it contains, which is what a CRDT makes of them in any order.
`flush` is split at its awaits: `AppendResolves`, `SnapshotRenamed`,
`LogReplaced`, `FlushResolves`, and `FlushFails` at any of them. `unload` awaits
one flush or two. A load parses every line that is whole; a line a failed append
left cut swallows the next one. `acked` is history.

`unloadTimer` is armed and cancelled where the code does it. Most places do so by
`ScheduleUnloadCheck`, which arms it when nobody uses the room and cancels it
otherwise; but a socket is counted only after `loadRoom` has looked
(`CheckBeforeCounted`), so that the first socket leaves the timer armed, and closing
all sockets looks after each of them (`CheckedByCloseAll`). When the timer fires the
room is looked at again: `UnloadTimerFires` begins an unload only when nobody uses it.
Neither a disposal nor a deletion nor the shutdown looks at leases. `LeaveUsers`
moves those of the room that goes to `orphans`: their holders release them later, on
an entry nobody will find (`ReleaseOrphan`).

Abstractions: sequence numbers and bytes are left out (compaction past 500 records
or a megabyte is `logLines` reaching `CompactAfter`, where the count stops); time
is left out (an armed timer may fire whenever it likes), so `closeAfterFailing`
is `CloseAfter` failures in a row, about seven with the production backoff of
1, 2, 4, 8, 16, 30 seconds. A room forgotten by
`deleteDeck` keeps its flush in flight, and in the model no new load begins until
it has settled; the files it brings back are listed under known gaps.

### DurableDeck

Three values: what the deck shows (`content`), what a crash leaves (`durable`) and
whether it is at risk (the process is ending, or the disk is refusing writes).
Opening shows exactly what was durable; more of the content may become durable
and nothing else may; only at risk may an open deck fall back, and never below
what is durable. `DeckRegistry` implements it under the mapping `Durable` at the
end of the module; `KeepsDeck` is that implementation.

### DeckAccess

`stored` is `deck.sealed`, `index` the deck's entry of `index.json`, `cache` the
registry's map, and the running change of `updateRecord` goes through the stages
`storing`, `indexing`, `showing` over `next`, one after the other from `queue`
(`recordTails`). `Request` enqueues any change the manager makes after its own
checks; `Invite` awaits the directory before it does; `SignIn` accepts
invitations. A socket is `admitted` (its role read, its name awaited), `joined`
(registered with the room), `open` (its role read again). A write may fail with
its effect or without it. The record is what `parseDeckRecord` accepts: the owner,
members, invitations and the link's role; titles and times are left out.

`readRecord` awaits the file between its look at the cache and its write to it. A read
that others overtake is three steps over `reading`: `ReadAsked`, `FileRead`,
`ReadReturns`, and what it caches at the end may be older than what was written
meanwhile, which counts as a fault. There is one such read at a time and none across a
deletion; the other reads (`ReadRecord`, `Current`) are those that nothing comes
between.

### DiscussionLog and Discussion

`Refused`, `ApplyEntry` and `Reduce` are `discussion-log.ts`; `Decide` is
`discussion-authority.ts` with its four limits and its remembered outcomes.
`Discussion` has the room's `log`, `authority` and `discussionTail` (`tail`), the
entry being appended (`persisting`), the appends that timers repeat (`retries`),
and for each client its replica, its requests without an outcome and the frames
under way. `DecideNext` ends at the await of `submit`, and `Persisted` or
`PersistFails` is the rest: the entry to everyone, then the outcome. A lost
connection leaves frames that the server may still read (`stray`). A client that
connects while no room is loaded loads it in the same step; the real load is
several awaits, during which only retries touch the file. Bodies are a number of
bytes; anchors, markings, mentions, the limits on a single body and the reasons of
refusals are left out, and
roles do not change, which is `DeckAccess`'s subject. An unload comes a minute
after the last connection and is taken to find no append under way.

### SharedScript and DeckSync

`SharedScript` is one protected field with its approval, as a set of updates each
of which names the updates it `needs`: `View` is what Yjs integrates of a set (the
rest is pending), the value of a field is the rightmost write, concurrent ones by
client id, and `Corrections` is what the guard writes over what it may not let stand
(`server/protected-field-guard.ts`). Yjs itself is modelled from how it is used.
Yjs draws a client id at random whenever a replica is made. Here it is a pair: how
many replicas its page or the room had before, and the number of that page or the room
(`PageNumber`, `RoomNumber`), so that ids never repeat and any order between the pages
and the room is an instance. An update's id adds the clock, its place among the
replica's own.

`DeckSync` has the room's document, what of it is in the files (`durable`) and
what waits (`unflushed`), and per page two sockets, the one in use and the one
before, which the server may still hold with frames in it. `phase` is the state of
`deck-collaboration.ts`: `Open` and `Connect` are the admission, then welcome and
the two steps of the synchronisation protocol in each direction. `ApplyGuarded` is the
whole of `receiveDocumentUpdate` for an editor: what the connection carried goes in
first, the guard compares and corrects, and what was sent leaves with its correction
as one update, to everybody and to the files. `RefuseUpdate` is the same for a
reader, whom `resynchroniseRequired` tells to drop the replica. A crash takes the
room back to its files; the page's next step 2 gives back what it has.

`ReadersSeeJudged` is about pages that are online. It was first stated of every page,
which held within the bounds of the run; the proof for any bounds failed at a page
that synchronises again and is sent an update before the room's step 2.
`SoleEditorIsApproved` excepted the approvals that a crash took and a page gave back,
which also held within those bounds only: a page can give back a correction without the
update that caused it, and then what stays revoked is an approval that no crash took.
The property now says which of the three (correction, approval, approved text) a crash
must have taken. See the known gaps for both.

Left out: authors and the meta fields, which are corrected in the same way; the
document's size limit, malformed frames, repairs of a document that was damaged on
disk, pending updates that are too large; the frames queued while a socket is
admitted (`Connect` is one step); `unsentChanges`, what the page says about its
own edits; the awareness relay.

### Proposal and SlidesWindow

A proposal is a folder: the candidates' `NN.html`, the lines in `events/`, the
`manifest.json`, the answer in `PICK`, and `READY`. `Proposal` has the connector's
tools that write it: `createProposal`, `reviseSlide`, `clearSlides`
(`proposal.ts`), each a series of Drive calls. `call.step` is the call a tool is
about to make, `AfterStaging`, `AfterRevision` and `AfterClearing` are their orders,
`Step` is one that works, `Fail` one that throws with its effect or without, which
ends the tool. A clear tolerates reads that fail: `ReadLog` may pass over any of the
log's lines, or all of them, and `ReadPick` goes on when `PICK` cannot be read. Bytes are a number per candidate that every upload raises; the log
is a set of lines. `manifest.of` is history, and so is `call.recorded`: the candidates
recorded as inserted when the clear began, less those for which every read of a record
failed. One tool runs at
a time; `MaxChanges` counts the manifests that revisions and clears have written.

`SlidesWindow` is the add-on's window over the same folder: `observer` is
`reduceObserver` (its listing and waiting are one phase), `shown` is `reducePicker`
with the offer on screen, `tick` is `checkForRevision` between its two reads,
`answer` and `writing` what has been sent of an insertion or a dismissal: the slide is put into
the deck, then `PICK` and the log's line are written at the same time, each able
to fail. `Close` loses what was not sent. A window may be opened with what the
sidebar knows; the seed is the manifest as it is then.

Left out: awaiting a pick and listing the open work, comments and mark-ups on a
candidate, the feedback channel, merging, and the sidebar with its conversation.
Reading a manifest and its arrival in the reducer are one step.

### CommentBot

Google Drive's change feed is a sequence and its length is the time: page tokens
and cursors are numbers of entries read. A watch is `FileRead` (stored, not yet
answered), then the channel, then the answer (`Ensured`). `work` is what every
call, and the sweep, is doing; `exclusive` is `QueueFree`. `sync` is `runSync` with
its timer, its rerun and `syncOnce` between its awaits: the list, the scans,
the saving of the page token. A scan reads one page after another (`PageRead`), puts
one task after another (`TaskPut`) and then the cursor (`CursorPut`); a crash, the end
of the watch or a page that fails (`ScanFails`) may cut it off anywhere. `WatchesEnd` is
`stopWatching` or the expiry that a list notices. `removeWatch` is `Remove`, then
`Removed`, which puts the cursor away and takes the first look of `idleOwner`; `IdleOwner`
looks again, when its turn has come, whether there is a watch. `Crash` keeps what is
stored.

Two variables are history, and what they hold is excepted by the properties that must
not count on it. `missed`: the posts that a sync passed without reading them, which
`comment_passed` shows. `skipped`: the posts made between two pages of a listing, on
neither of them, that the cursor has passed.

Abstractions: Drive lists, page by page, every post that was there at the first page,
and any of those made since; the scans of a sync all begin at once, as they
do for up to `COMMENT_SCAN_CONCURRENCY` = 4 decks; a push may arrive whenever the
channel is open; renewals of the channel and of a watch are counted as faults, to bound
them; two calls at once
are about different decks; somebody posts in the decks of `Busy` only, and what is
posted is of the `Kinds` of the run: work, or lines that are not. "Owed" is
work posted after the call that started the watch was answered. Left out: the
allowance for clock skew, the limit on watches, titles, failures of the bot's own
store, and what happens to a task once it is recorded (the acknowledgement, the answer).

## Runs

| Run | Checks | Instance | States |
| --- | --- | --- | --- |
| `registry_safety` | types, durability, accounting, the refinement of `DurableDeck`; a used room stays; every update reaches the files, every idle room unloads | 2 updates, compaction after 2 lines, 2 failures to closing, one socket, one lease, snapshots that decay | 76 k |
| `registry_torn_append` | violation: a cut line swallows an acknowledged append | 2 updates | |
| `access_safety` | the record and the sockets agree, ownership, limits, no change is lost to another, until a write fails or a read comes too late | owner and one account, two sockets, two requests under way, one fault | 1.5 M |
| `access_delete` | violation: a deleted deck's record is cached again | owner and one account | |
| `discussion_safety` | requests once, answers that stand, storage, replicas, budget | two clients, three requests, two scripts, two faults out of a lost connection, a crash and a failed append | 1.9 M |
| `discussion_live` | every request is answered | two clients, two requests, two faults of any kind (a retry may fail too), one client that may leave | 0.1 M |
| `discussion_crash` | violation: replicas at one sequence differ after a crash | two clients, three requests, one crash | |
| `sync` | no update falls between two synchronisations, nothing unjudged reaches a file or an online reader, no approval is revoked for another's edit, drops are due, the pages converge | two pages, both editors or one reader, one writer with 2 edits of which one may be an agent's, one fault out of a role change, a drop and a crash | 0.4 M |
| `window_safety` | what is announced is there, what is recorded is done, what is inserted is kept, a window follows | 2 candidates, 2 uploads of each, 1 revision or clear, 1 failed Drive call, any number of windows | 0.95 M |
| `window_again` | violation: a set is offered again after its insertion | 1 candidate, no fault | |
| `comment_safety` | cursors and page tokens pass no work, a watched deck is followed, every comment comes in | one deck, one call at a time, two posts that are work, one fault, renewal or crash | 0.3 M |
| `comment_passed` | violation: a sync passes a comment | two decks, two posts of either kind in one, one fault | |

**Why the bounds are enough.** The hazards are orders of a few steps. Two updates
let one be on disk or in the batch while the other waits; a log of two lines is
compacted while an update waits; two failures reach the closing of the sockets after
one that does not. One socket and one lease make every kind of user; the code only
ever asks whether there are any. Two requests under way let one change overtake
another; one account besides the owner can be invited, changed, removed and
revoked; two sockets are what it takes to pass a limit of one that is checked
before an await. Three requests of two people let a request depend on another
and race with a third; the reply of the first script fits the byte budget only
after the edit. The memory of outcomes holds all three: the code's 1,000 is taken
to be more than what a deck is asked while a client reconnects. Two edits of one
page let the second depend on the first, which is what makes an update wait; the
other page is the one that must see neither too early, and the one that gives back
what a crash took. Two candidates let a clear keep one and delete the other, and a
revision be about one while the other is inserted. One deck lets its watch end, by the
sweep or at a restart, while a call starts it again; two posts let one be on a page
and the other between two pages, or one be scanned while the other arrives.
The proof modules prove all of the invariants and action properties for any bounds.

**Deadlock.** It is checked where the system runs for ever: `DeckRegistry` and
`DeckAccess`. The other instances really stop: everybody is connected and answered,
the tools, windows or posts are used up and no fault is left.

## Fairness

- `registry_safety`: armed timers fire, and only armed ones; an await of a flush settles one way or the
  other (weak); and a write that is tried again and again succeeds in the end
  (strong, on the successes). The last is an assumption about the disk; without it
  no update need ever reach the files, and the code says as much by closing the
  sockets.
- `access_safety`: none, it checks only safety.
- `discussion_live`: frames of a live connection arrive; the room takes the next
  request and its append settles; a client that is not closed for good connects
  again (the reconnect policy never gives up by itself). No fairness on faults,
  unloads, retries or submissions. The bound on faults stands for "finitely many
  connections are lost": a client that loses every connection before its answer
  waits for ever, and should.
- `sync`: pages and server do not all stop while one of them has something to do
  (weak, on `Responds` as a whole). Nothing is promised of edits, faults and flushes.
- `window_safety`: the clock of an open window ticks and its reads do not fail for
  ever (weak, on the two halves of the tick). Nothing is promised of the tools, the
  user or the writes.
- `comment_safety`: the timers fire, Drive answers the sync, and a call that has its turn
  at the channel ends it (weak); the sweep and the saving of the page token, which wait in
  the channel's queue, first come first served, have their turn although others take
  theirs in between (strong). Nothing is promised of the rest of the calls, of posts,
  pushes and faults: the sweep alone has to bring every comment in. Without any one of
  these conditions TLC finds a comment that never comes in.

## Proofs

The proofs hold for every value of the constants and assume only their `ASSUME`s:
limits and bounds are natural numbers (some not zero), one deck, one candidate or the
owner exists, what a request asks for is a command, the sockets of `DeckAccess` are
finitely many (they are counted), and in `DeckSync` the numbers of the pages and of the
room are positive and differ, and nobody is called "nobody", "earlier", "room" or "agent",
the labels of updates that are no person's. What a theorem needs beyond that is a hypothesis of it,
or stands in the property, and is named below.

`DeckRegistryProofs`, for every set of updates, every compaction and failure
limit and every number of sockets and leases:

- `TypeCorrect`: `Spec => []TypeOK`.
- `FlushedSurvives` and `RoomIsAccounted` (from `Durability`): when no write is cut
  short (`WholeWrites`), `[]AckedSurvives` and `[]RoomAccounted`. Neither is
  inductive: a flush that resolves touches `acked`, the files and the queue at
  different steps. `DurableInv` adds that every line is whole, that a room that is
  not loaded has neither queue nor flush, that a new deck has nothing on disk, and
  `Compacting`: from the moment the state is encoded until the log is emptied, the
  snapshot being written covers everything the files hold. That last part is
  why a crash between the two renames is harmless.
- `FilesNeverShrink`: under the same assumption, `HeldNeverShrinks`, an action
  property, from `DurableInv`.
- `Scheduled`: on any disk, `[]NoLostWakeup`: updates that wait have a timer or a
  flush, and a loaded room that nobody uses has its unload timer or an unload. It is in
  no run; `UpdatesReachDisk` and `IdleRoomsUnload` are its consequences there. It comes
  from `ScheduleInv`, whose extra part says that an unload always has a flush to await
  and no connection.
- `UsersKeepRoom`: on any disk, `UsersHaveRoom`, an action property: a room with a
  socket or a lease goes only when the process ends or the deck is deleted.

`DurableDeckProofs` proves the refinement, `DeckIsKept`: `Spec => KeepsDeck` under
`WholeWrites`. `DurableInv` is all it needs. Each action is shown to be one of the
abstract actions or a stutter; the two that matter are a room disposed at the end
of a flush, which is `Close` when nothing was left (what waited is then on disk)
and `FallBack` otherwise, and a crash, after which the files hold at least what they
held and at most what was shown.

`WholeWrites` is not an assumption on the constants but a hypothesis of the
theorems: `registry_torn_append` shows what happens without it.

`SlidesWindowProofs`, for any number of candidates, uploads, revisions, clears,
windows and faults:

- `TypeCorrect`, `ReadyMeansStaged` (`ReadyIsComplete`, an action property), `RevisionsBacked`
  (`RevisionIsBacked`), `WhatIsToldIsDone` (`ToldIsDone`), `InsertedIsKept`
  (`KeepsInserted`) and `ManifestIsTrue` (`ManifestNamesFiles`), from `Inductive`.
- The invariant is `FolderInv` and, of the window, `SentInOrder`. A tool that is at
  a step has done the ones before (`Ordered`), and the proposal is staged once
  (`StagedOnce`), so that a tool which reads the manifest finds every candidate in
  it and nothing else changes it meanwhile (`Informed`); a clear that is past its reads
  knows every insertion in `call.recorded` (`Remembered`). `RevisionIsBacked` needs `Informed`: a line with
  the next revision's number is there before the manifest that has it, for whichever
  tool wrote it. The window changes only the log, `PICK` and the deck, and what it
  changes there it has put into the deck before (`SentInOrder`).

`CommentBotProofs`, for any decks and any number of calls, posts, faults and crashes:

- `TypeCorrect`, `CursorsPassNothing` (`CursorBehindTasks`), `TokensPassNothing`
  (`TokenBehindTasks`) from `Progress`, which is `Spec => []IInv`: a watch starts before
  it is answered (`StartedFirst`), an answered deck keeps the channel (`AnsweredOpen`),
  what a scan is to hand over is a task, on its page, left for a later one or late
  (`ScansAccount`), at each of a scan's steps these are what that step leaves of them
  (`ScansShaped`), and what the running sync will save as its page token is behind what
  its scans have still to read, or counted as passed (`ScansAhead`).
- `AnsweredIsFollowed` (`Followed`), which adds that the sweep runs while an answered
  watch lasts, to the same invariant.

`CollectionProofs` has what the others cite: a set of numbers has a least one and is all
of `Nat` if it has 0 and every successor (`LeastNumber`, `SetInduction`; no induction
theorem of the library can be used here, for they take an operator), what appending,
dropping, joining and filtering do to a sequence's range (`RangeOfAppend`, `KeptOfAppend`,
`KeptElements`), and a sum over a finite set taken apart one element at a time
(`SumTake`, `SumApart`).

`DeckAccessProofs`, for any accounts, sockets, limits, requests and faults:

- `TypesHold` (`TypeOK`).
- `OwnerHolds` (`OwnerStays`), from `OwnerInv`: the owner is alone as owner in every
  copy of the record (file, index, cache, the one being written), no change in the queue
  is about the owner, and an invitation that awaits the directory knows if it names
  somebody who is a member already.
- `LimitsHold` (`ConnectionsWithinLimits`), from `LimitsInv`, which counts the
  sockets still being admitted with those of the room.
- `ChangesSerialised` (`ChangesBuildOnEachOther`, an action property), from `SerialInv`:
  at each stage of the running change, what it was made from is what the file held
  when it began, and `ReadsInv`: while the cache is
  empty, what a read under way has read is what the file holds. It holds while nothing failed and no read came back
  too late.
- `RolesFollow` (`SocketsFollowRecord`), from `FollowInv`: a loaded room has the record
  in the cache, and open sockets have its roles except while a change is being shown;
  under the same conditions, and while the deck is not deleted.

`DiscussionProofs`, for any clients, requests, commands, limits and faults:

- `FoldOfAppend`, `BytesOfApplied`: folding one more entry is one more `Reduce`, and the
  bytes of the bodies change by what `BytesDelta` says. The fold is `FoldLeft`, whose
  recursion is unrolled by induction over prefixes.
- `BytesAreThoseOfTheMessages` (`BytesMatch`), from `Base`, which holds whatever fails:
  types; a room that is not loaded is empty; a client without a connection is sent
  nothing; requests are their clients' own; only the last entry is being appended; the
  authority is the fold of the log.
- `FoldSkipsNothing` (`NothingSkipped`) and `TypesAndLimits` (`TypeOK`), from `Smooth`:
  while no append failed, the log is the file and at most the entry being appended, and
  both are numbered 1, 2, 3, ... with entries that were acceptable where they stand.
- `WhatIsPromisedIsStored` (`AppliedIsStored`), from `Promised`: what a client, a frame or
  the remembered outcomes call applied is in the file or is the entry being appended.
- `RequestIsAppliedOnce` (`RequestOnce`) and `RefusedIsNeverApplied` (`RefusedStaysOut`),
  from `OneAnswer`: a request has one answer among the two logs and the remembered outcomes, and
  a refusal that somebody was told of is remembered, or no copy of its request is left to
  decide. Both have the hypothesis
  `RoomForEveryRequest`, that the requests are no more than `MaxRemembered`: with more the
  code does forget, and a request that comes back after a thousand others is a new one.
- `ReplicasFollowTheLog` (`ReplicaFollowsLog`), from `Follow`: a replica is the fold of a
  prefix, and the frames on their way are runs of entries none of which leaves a gap
  behind those before it.

`DeckSyncProofs`, for any pages in any order, edits, agents' edits and faults:

- `PathsInOrder`, `LastWrites`: the writes are totally ordered, so a finite document has
  exactly one last write of each field. `MadeIsNew`: what a replica makes has an id that
  nobody has. `GuardedIsJudged`: whatever an editor sends, what the guard lets through
  with its corrections is a document that waits for nothing and that the guard would not
  correct again.
- `SyncIsTyped` (`TypeOK`), `FilesAreJudged` (`FilesJudged`), `HandshakeLeavesNoGap`
  (`NothingFallsBetween`), from `SyncInv(all)`, where
  `all` is every update there ever was. An id names one update and what an update
  needs comes with what that needs (`Consistent`); the room is its files and what waits,
  and neither holds a forbidden state (`Stored`). For each page: what its next update's
  id is above (`Composes`), what it may find at the head of its frames (`Greeted`,
  `Quiet`), that frames carry only what their sender has (`Honest`), that what
  the room has reaches the page and what the page has reaches the room once each has
  answered the other (`Served`, `Heard`), and that what a page has alone it made itself or a
  crash took (`Owns`).
- `DropsFollowAChange` (`DropsAreDue`), from the same and `Origin`: what a page is sent was
  in the room, and what it has was there too, or its replica made it while its person
  edited. `Brought` is what one step can bring a page: what it was sent, what the room
  holds, what it makes itself. The property is about the step in which the frame that
  tells the page to drop is sent, and so an action property: while the frame is under way
  the role may come back, or another page may give back what was lost.
- `ReadersSeeOnlyJudged` (`ReadersSeeJudged`), from the same and `Follows`: a page that made
  nothing itself holds, after each of the frames on their way from the room's step 2 on, a
  document that stands.
- `SoleEditorKeepsApproval` (`SoleEditorIsApproved`), from the same and `SoleInv`, which
  says whose the updates are while no role changes. An update's paths end in its own id
  and it approves in its author's name, if at all; a correction needs what it revokes
  (`Signed`). Its author edits and has it still, in the replica it was made in
  (`StillHeld`), since nobody tells an editor to drop a replica. A page has nothing of
  another's that the room did not once hold (`Traced`). One's own updates form a chain,
  each written after those before it (`Chained`), so the last approval of a document is
  not older than any text of the same person in it; and what one approves is the
  text that was shown (`ApprovesShown`). `GuardSparesSole` puts these together: unless a
  crash took the approval or its text, the text shown after the update is the one approved, and
  if somebody else sent the update then the room had both before. `RevokedByLoss` is the
  property, of the room and of its files, which a crash makes the room.

Model-checked only: liveness (`UpdatesReachDisk`, `IdleRoomsUnload`,
`EveryRequestAnswered`, `Converges`, `WindowFollows`, `EveryPostComesIn`), which is out of
the prover's reach. The violations are runs by nature.

## Findings

Each is a run that ends in a counterexample; `PROJECT.json` quotes the sentence
that the code contradicts.

1. `registry_torn_append`: an append that failed half way leaves a cut line, and
   the next append, which succeeds, is glued to it and skipped by the next load.
2. `access_delete`: `deleteDeck` does not take its turn among the record's
   updates; a request meanwhile brings the record back.
3. `discussion_crash`: an entry is in `discussionLog`, and sent to whoever connects,
   before it is on disk. After a crash its number is given to another entry,
   which that client ignores as known.
4. `window_again`: a window opened by the sidebar offers the set before its observer
   has loaded it; an insertion that settles meanwhile is forgotten by the observer,
   which then offers the set again.
5. `comment_passed`: a sync saves the new page token although the scan of a deck
   failed, and drops the changes of decks that were first watched after it began;
   those comments wait until the deck changes once more. And a scan's cursor passes a
   post made between two pages of its listing, which no later scan reads.

## Known gaps

Weaknesses of the code met while modelling that no property states:

- `deck-registry.ts:405`: a flush or a load in flight when a deck's directory is
  removed makes it again, with files nobody will read.
- `deck-registry.ts:413`: `shutdown` unloads one room after another; a room loaded
  meanwhile, or loaded again, is not unloaded.
- `deck-registry.ts:121`: a slow read (120-121) may put an older record into the cache
  than the one just written (128), and the next change is made to that, so that the one
  before it is lost. `ChangesBuildOnEachOther` and `SocketsFollowRecord` except it, as
  they do a fault.
- `deck-registry.ts:309-313, 396-403, 413`: a lease keeps a room neither from the
  shutdown nor from a deletion, and its holder goes on with a room nobody will save.
- `deck-registry.ts:126`: a crash between the record's file and the index leaves
  members the index does not list until the next change.
- `deck-manager.ts:265-275`: two invitations that await the directory together
  pass the member limit, and can add one account twice.
- `deck-registry.ts:140`: when reading a name fails after the write, open sockets
  are not told of the change.
- `deck-storage.ts:392, 408`: the count `write` returns is ignored, so a short
  write is taken for a whole one.
- `deck-registry.ts:216`: a retried append of a comment is ordered with nothing.
  It can land after a later entry, so that the next load ends on a smaller
  sequence; after the room was loaded without it, so that a number is used twice;
  or a second time, if the failed append had written its line. The properties of
  `Discussion` say "every append succeeds" where they need it. A line cut by a
  failed append has the same effect on `discussion.log` as on `document.log`.
- `deck-room.ts:256`: a request sent again after a reconnect can be refused over
  the rate while its first copy is still being applied; the editor then offers to
  send it again under a new id.
- `socket-discussion-store.ts:63`: a client that closes for good is told
  `notPermitted` for requests that may have been applied.
- `deck-registry.ts:308`: an unload that joins a flush under way flushes once more,
  and if that fails disposes of the room with the updates in its queue. The mapping
  to `DurableDeck` counts that second flush as a risk, so `KeepsDeck` allows it.
- `deck-registry.ts:249`: a successful append resets the failure count before the
  compaction that keeps failing, so the backoff and the minute after which the sockets
  are closed never come.
- `deck-room.ts:14-15` says of the guard that "no other replica and no file ever holds
  the forbidden state". A page that reconnects hears broadcasts from its admission on,
  before it has the room's step 2. Of two editors, one sees an agent's text and approves
  it; the update, which does not need that text to be integrated, reaches a reconnecting
  reader that lacks the text, and for a moment the approval stands there over another
  text. The room's step 2 mends it. Only while the reader is synchronising, and never in a file
  (`FilesJudged`) or an online page (`ReadersSeeJudged`).
- `deck-room.ts`, after a crash, revokes for one who is alone in the deck, in three ways,
  which `SoleEditorIsApproved` names. A page gives back another's approval that the
  crash took, and the guard judges it as that page's. It gives back an approval of a
  text the crash took, which another text now stands for. And the correction itself
  comes back: one of two editors changes an approved text; the other, whose page is
  synchronising, hears that update and its correction, but not an earlier update that
  this one needs. After a crash this page gives both back; the update waits on the
  connection for what it needs and is forgotten with it, the correction goes in, and
  the approval, which was on disk all along, stays revoked over the text it approves.
- `proposal.ts:626`, `addon/src/protocol.ts:154`: a clear that keeps a candidate but
  not the ones before it writes a manifest whose slides are not 1..n, which the add-on
  refuses to read. `WindowFollows` excepts it.
- `proposal.ts:1236-1252`, `session-log.ts:343-347`: an answer or a line that cannot be
  read is passed over with a warning, and a clear then deletes a candidate that is in the
  deck when no other record says so. `KeepsInserted` excepts it.
- `addon/src/dialog.tsx:470`, `picker-state.ts:323`: html that arrives late is put
  on screen without looking at the revision it is of.
- `addon/src/conversation-state.ts:355-370`: the sidebar stamps a manifest it has read
  with the newest event it knows of, which may be newer.
- `proposal.ts:1185`: two tools at once on one proposal overwrite each other's
  manifest.
- `comment-bot.ts`: a comment made between `watch()` and the page token that the new
  channel starts from is not in the feed that will be read; the scan of the deck's
  next change finds it.
- `comment-bot.ts:446-462`: a reply made after a page was read, and listed on none that
  follows, is skipped by the scan, whose cursor may move past it with a later one; the
  next scan does not read it. `CursorBehindTasks` excepts it.
- `comment-bot.ts:288`: a sweep that waits behind the stop of the last watch opens a
  channel nobody needs, against what `comment-records.ts:7-9` says.
- `comment-bot.ts:635`: a call that renews a watch, and was reading the file when the
  watch ended, writes the ended watch back.
- `comment-bot.ts:686`: an acknowledgement, an answer and the end of a watch overlap,
  and the task written last is an older one; a crash between the reply and the store
  acknowledges twice.
- `comment-bot.ts`: two calls of `watch()` at once on one deck make two watches, and
  may pass the limit.
- `http/oauth-store.ts:300`: the store is written in place, and a crash in the middle
  leaves half a file.

## Not modelled

The table in `PROJECT.json` gives a reason for every component. In short: the
document's own merging is Yjs; the document model, the editor, the presenter, the
renderers and the converter are pure functions without a protocol; encryption,
accounts and OAuth are separate components with their own state; the report
service, structured prompting and the environment manager are other programs.

## Plan

Order of work; 1 to 6 are done.

1. `DeckStorage`, `DeckRegistry`, `DurableDeck`, with `DeckRegistryProofs`.
2. `DeckAccess`, with `DeckAccessProofs`.
3. `DiscussionLog`, `Discussion`, with `DiscussionProofs`.
4. `SharedScript`, `DeckSync`, with `DeckSyncProofs`.
5. `Proposal`, `SlidesWindow`, with `SlidesWindowProofs`.
6. `CommentBot`, with `CommentBotProofs`.
7. `ConnectionMachine`, `DeckSocket`, `RateLimit`, awareness ownership: generations,
   retry delays, frames queued during admission, several decks under one account's
   limits. Property: a late event of an old socket changes nothing.
8. The life of a comment task after it was recorded: acknowledgement, answer, end
   of the watch. The feedback channel. The sidebar.
9. Embed tickets, expiring tables, the OAuth store's codes and refresh tokens.

Nothing that the present runs check and the provers can reach is left to prove.
