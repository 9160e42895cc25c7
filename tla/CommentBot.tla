----------------------------- MODULE CommentBot -----------------------------
(***************************************************************************)
(* How the comment bot (comment-bot/comment-bot.ts) turns the comments of  *)
(* the decks one owner watches into tasks: the owner's Drive change feed,  *)
(* the push channel on it and its page token, the sync that reads the feed *)
(* and scans the changed decks, the safety sweep, and the calls that start *)
(* and end a watch.                                                        *)
(*                                                                         *)
(* The feed is the sequence of the changes Drive lists for the owner; its  *)
(* length is the time, a page token and a deck's cursor are numbers of     *)
(* entries read.  An entry is a post in a deck's comments: work for the    *)
(* bot, or a line that is not (Sasha's own, empty or deleted).  Drive is   *)
(* taken to list, page by page, every post that was there when the first   *)
(* page was read, and any of those made since.  The allowance for clock    *)
(* skew, the limit on watches, deck titles, failures of the bot's own      *)
(* store and what happens to a task once it is recorded are left out.  Two *)
(* calls at once are about different decks.                                *)
(***************************************************************************)
EXTENDS Integers, Sequences, Functions

CONSTANTS
  Decks,        \* the owner's decks
  Busy,         \* bound: the decks somebody posts in
  Kinds,        \* bound: which posts there are: work, lines that are not, or both
  Calls,        \* connector calls that may be under way at the same time
  Sweep,        \* names the safety sweep among the users of the channel
  MaxChanges,   \* bound: entries of the feed
  MaxFaults     \* bound: calls to Drive that fail, crashes, and renewals of watch and channel

ASSUME DecksAssumption == Decks # {} /\ Sweep \notin Calls
ASSUME BoundAssumption == Busy \subseteq Decks /\ Kinds \subseteq BOOLEAN
                          /\ MaxChanges \in Nat /\ MaxFaults \in Nat

VARIABLES
  feed,      \* Drive's list of changes
  watches,   \* deck -> the watch on it; kept across a restart, as is the store
  tasks,     \* the entries with a task of their deck's present watch; kept
  cursor,    \* deck -> entries of the feed its scans have covered; kept
  channel,   \* the owner's channel, with the page token of the next sync; kept
  work,      \* what each call and the sweep is doing
  armed,     \* the sweep's timer is set
  sync,      \* the owner's sync and its timer
  faults,    \* failures so far
  missed,    \* history: posts a sync has passed without reading them
  skipped    \* history: posts made between two pages of a listing, on no page, that
             \* the cursor has passed

history == <<missed, skipped>>
vars == <<feed, watches, tasks, cursor, channel, work, armed, sync, faults, history>>

Users == Calls \cup {Sweep}
Now == Len(feed)
NotAnswered == MaxChanges + 1   \* no post is later than this

\* "watches" and "cursor" hold a value for some of the decks.
With(f, d, v) == [e \in DOMAIN f \cup {d} |-> IF e = d THEN v ELSE f[e]]
Without(f, D) == Restrict(f, DOMAIN f \ D)

Posts(d, from) == {i \in from + 1 .. Now : feed[i].deck = d}
WorkFor(d, since, from) ==
  {i \in Posts(d, from) : feed[i].work /\ i > since}

\* The work the owner was promised: posted after the watch was answered for.
Owed ==
  {i \in 1 .. Now : /\ feed[i].work
                    /\ feed[i].deck \in DOMAIN watches
                    /\ i > watches[feed[i].deck].answered}

\* What a sync passes when it does not read a deck's comments.
Passed(d, from) == (Owed \cap Posts(d, from)) \ tasks

NoWork == [step |-> "none", deck |-> CHOOSE d \in Decks : TRUE,
           renewed |-> FALSE, since |-> 0, token |-> 0, gone |-> {}]
Closed == [open |-> FALSE, token |-> 0]
NoEntries == [d \in {} |-> 0]
NoScan == [step |-> "none", from |-> 0, newest |-> 0, page |-> {}, left |-> {}, late |-> {}]
NoScans == [d \in Decks |-> NoScan]
NoSync == [timer |-> FALSE, rerun |-> FALSE, step |-> "none", watched |-> {},
           scans |-> NoScans, token |-> 0]

Fault == faults < MaxFaults /\ faults' = faults + 1
-----------------------------------------------------------------------------
\* removeWatch: the watches of D end, and their tasks with them.
Remove(D) ==
  /\ watches' = Without(watches, D)
  /\ tasks' = {i \in tasks : feed[i].deck \notin D}
  /\ missed' = {i \in missed : feed[i].deck \notin D}
  /\ skipped' = {i \in skipped : feed[i].deck \notin D}

Removing(D) == [NoWork EXCEPT !.step = "remove", !.gone = D]

Does(u, step) ==
  work' = [work EXCEPT ![u] = IF step = "ensure"
             THEN [NoWork EXCEPT !.step = step, !.deck = work[u].deck,
                                 !.renewed = work[u].renewed]
             ELSE [NoWork EXCEPT !.step = step]]

\* exclusive: channel creation, renewal, teardown and the saving of the page
\* token wait for each other.
QueueFree == \A u \in Users : work[u].step # "open"

\* A page of the deck's comments was read, and another is to follow.
BetweenPages(d) == sync.scans[d].step \in {"page", "next"}
-----------------------------------------------------------------------------
\* Someone posts in a deck's comments, or Sasha does.
Change(d, isWork) ==
  /\ Now < MaxChanges
  /\ feed' = Append(feed, [deck |-> d, work |-> isWork])
  /\ sync' = IF BetweenPages(d) THEN [sync EXCEPT !.scans[d].late = @ \cup {Now + 1}] ELSE sync
  /\ UNCHANGED <<watches, tasks, cursor, channel, work, armed, faults, history>>

\* A push of the present channel: for a change, early, late or once more, or
\* for one in a file nobody watches.  Google may also drop it.
PushArrives ==
  /\ channel.open
  /\ sync' = [sync EXCEPT !.timer = TRUE]
  /\ UNCHANGED <<feed, watches, tasks, cursor, channel, work, armed, faults, history>>
-----------------------------------------------------------------------------
(* Calls: watch, stopWatching, and the lists that notice an expiry.        *)

\* A deck that is watched already is watched for longer, and under the same watch
\* (which counts as a fault, to bound it).
WatchAsks(c, d) ==
  /\ work[c].step = "none"
  /\ \A b \in Calls : work[b].step = "none" \/ work[b].deck # d
  /\ work' = [work EXCEPT ![c] =
                [step |-> "file", deck |-> d, renewed |-> d \in DOMAIN watches,
                 since |-> IF d \in DOMAIN watches THEN watches[d].since ELSE Now,
                 token |-> 0, gone |-> {}]]
  /\ IF d \in DOMAIN watches THEN Fault ELSE UNCHANGED faults
  /\ UNCHANGED <<feed, watches, tasks, cursor, channel, armed, sync, history>>

\* The grant is gone or cannot read the deck, or it is no deck to comment on.
WatchRefused(c) ==
  /\ work[c].step = "file"
  /\ work' = [work EXCEPT ![c] = NoWork]
  /\ UNCHANGED <<feed, watches, tasks, cursor, channel, armed, sync,
                 faults, history>>

\* The deck may be watched.  The watch found before getFile is written back
\* even when it has ended meanwhile.
FileRead(c) ==
  LET d == work[c].deck IN
  /\ work[c].step = "file"
  /\ watches' = IF work[c].renewed /\ d \in DOMAIN watches THEN watches
                ELSE With(watches, d, [since |-> work[c].since,
                                       answered |-> NotAnswered])
  /\ Does(c, "ensure")
  /\ UNCHANGED <<feed, tasks, cursor, channel, armed, sync, faults, history>>

\* stopWatching, or a list that finds watches past their end.
WatchesEnd(c, D) ==
  /\ work[c].step = "none"
  /\ D # {} /\ D \subseteq DOMAIN watches
  /\ Remove(D)
  /\ work' = [work EXCEPT ![c] = Removing(D)]
  /\ UNCHANGED <<feed, cursor, channel, armed, sync, faults>>
-----------------------------------------------------------------------------
(* The channel: ensureChannel and idleOwner, by a call or by the sweep.    *)

\* Mutant: the sweep sets its timer again and asks for no sync.
EnsuredOnly(u) ==
  /\ work' = [work EXCEPT ![u] = NoWork]
  /\ armed' = (armed \/ DOMAIN watches # {})
  /\ watches' = [d \in DOMAIN watches |->
       IF d = work[u].deck /\ watches[d].answered = NotAnswered
       THEN [watches[d] EXCEPT !.answered = Now] ELSE watches[d]]
  /\ UNCHANGED sync

\* The channel is there, or was opened: the call answers that the deck is
\* watched and sees that the sweep runs; the sweep asks for a sync.
Ensured(u) ==
  /\ work' = [work EXCEPT ![u] = NoWork]
  /\ armed' = (armed \/ DOMAIN watches # {})
  /\ IF u = Sweep
     THEN sync' = [sync EXCEPT !.timer = TRUE] /\ UNCHANGED watches
     ELSE /\ watches' = [d \in DOMAIN watches |->
               IF d = work[u].deck /\ watches[d].answered = NotAnswered
               THEN [watches[d] EXCEPT !.answered = Now] ELSE watches[d]]
          /\ UNCHANGED sync

EnsureChannel(u) ==
  /\ work[u].step = "ensure" /\ QueueFree
  /\ channel.open
  /\ Ensured(u)
  /\ UNCHANGED <<feed, tasks, cursor, channel, faults, history>>

\* Mutant: the new channel starts behind the next change.
ChannelFromNext(u) ==
  /\ work[u].step = "ensure" /\ QueueFree
  /\ work' = [work EXCEPT ![u].step = "open", ![u].token = Now + 1]
  /\ IF channel.open THEN Fault ELSE UNCHANGED faults
  /\ UNCHANGED <<feed, watches, tasks, cursor, channel, armed, sync, history>>

\* There is none, and the new one is to start from Drive's present page token;
\* or it has less than a day left, and the new one goes on from its token
\* (renewals count as faults, to bound them).
ChannelMissing(u) ==
  /\ work[u].step = "ensure" /\ QueueFree
  /\ work' = [work EXCEPT ![u].step = "open",
                          ![u].token = IF channel.open THEN channel.token ELSE Now]
  /\ IF channel.open THEN Fault ELSE UNCHANGED faults
  /\ UNCHANGED <<feed, watches, tasks, cursor, channel, armed, sync, history>>

\* The new channel replaces the old one, whose pushes are ignored from now on.
ChannelOpened(u) ==
  /\ work[u].step = "open"
  /\ channel' = [open |-> TRUE, token |-> work[u].token]
  /\ Ensured(u)
  /\ UNCHANGED <<feed, tasks, cursor, faults, history>>

\* A new watch that gets no channel is taken back; the sweep only warns.
ChannelFails(u) ==
  LET D == IF u = Sweep \/ work[u].renewed THEN {} ELSE {work[u].deck} IN
  /\ work[u].step = "open"
  /\ Fault
  /\ IF u = Sweep
     THEN Ensured(u) /\ UNCHANGED <<tasks, history>>
     ELSE Remove(D) /\ work' = [work EXCEPT ![u] = Removing(D)] /\ UNCHANGED <<armed, sync>>
  /\ UNCHANGED <<feed, cursor, channel>>

\* The end of removeWatch, once the watch and its tasks are out of the store: the
\* cursor of a deck nobody watches goes too.  Then idleOwner's first look: with no
\* watch left, it cancels the sync's timer and asks for its turn.
Removed(u) ==
  /\ work[u].step = "remove"
  /\ cursor' = Without(cursor, work[u].gone \ DOMAIN watches)
  /\ IF DOMAIN watches = {}
     THEN Does(u, "idle") /\ sync' = [sync EXCEPT !.timer = FALSE]
     ELSE Does(u, IF u = Sweep THEN "ensure" ELSE "none") /\ UNCHANGED sync
  /\ UNCHANGED <<feed, watches, tasks, channel, armed, faults, history>>

\* Mutant: the channel goes without a second look.
IdleOwnerAtOnce(u) ==
  /\ work[u].step = "idle" /\ QueueFree
  /\ channel' = Closed /\ armed' = (armed /\ DOMAIN watches # {})
  /\ Does(u, IF u = Sweep /\ DOMAIN watches # {} THEN "ensure" ELSE "none")
  /\ UNCHANGED <<feed, watches, tasks, cursor, sync, faults, history>>

\* The end of idleOwner, which looks for watches once more when its turn has
\* come, and stopTickingWhenIdle.  The sweep goes on with who is left.
IdleOwner(u) ==
  /\ work[u].step = "idle" /\ QueueFree
  /\ IF DOMAIN watches = {}
     THEN channel' = Closed /\ armed' = FALSE
     ELSE UNCHANGED <<channel, armed>>
  /\ Does(u, IF u = Sweep /\ DOMAIN watches # {} THEN "ensure" ELSE "none")
  /\ UNCHANGED <<feed, watches, tasks, cursor, sync, faults, history>>

\* tick: the watches D have passed their end, or none has and the sweep goes on
\* with those there are.  A sweep ends before the next.
SweepFires(D) ==
  /\ armed /\ armed' = FALSE
  /\ work[Sweep].step = "none"
  /\ IF D # {} THEN work' = [work EXCEPT ![Sweep] = Removing(D)]
     ELSE Does(Sweep, IF DOMAIN watches = {} THEN "none" ELSE "ensure")
  /\ Remove(D)
  /\ UNCHANGED <<feed, cursor, channel, sync, faults>>

\* The server stops, and start runs: D expired while it was down.
Crash(D) ==
  /\ Fault
  /\ Remove(D)
  /\ work' = [u \in Users |-> IF u = Sweep THEN Removing(D) ELSE NoWork]
  /\ armed' = FALSE /\ sync' = NoSync
  /\ UNCHANGED <<feed, cursor, channel>>
-----------------------------------------------------------------------------
(* The sync: runSync, syncOnce and scanDeck.                               *)

\* syncOnce notes the watched decks and the page token, or has nothing to do.
Begun(s, token) ==
  IF DOMAIN watches = {} \/ ~ channel.open
  THEN [NoSync EXCEPT !.timer = s.timer]
  ELSE [NoSync EXCEPT !.timer = s.timer, !.step = "list",
                      !.watched = DOMAIN watches, !.token = token]

\* syncOnce returned: once more when a sync was asked for meanwhile.
Ended(s, token) ==
  IF s.rerun THEN Begun(s, token) ELSE [NoSync EXCEPT !.timer = s.timer]

TimerFires ==
  /\ sync.timer
  /\ sync' = IF sync.step = "none"
             THEN Begun([sync EXCEPT !.timer = FALSE], channel.token)
             ELSE [sync EXCEPT !.timer = FALSE, !.rerun = TRUE]
  /\ UNCHANGED <<feed, watches, tasks, cursor, channel, work, armed,
                 faults, history>>

\* A scan goes through the posts on "page"; on no page yet are those "left" of what
\* was there at the first one, and the "late" ones made since.
NewScan(from) == [NoScan EXCEPT !.step = "first", !.from = from, !.newest = from]

\* Mutant: the page token is saved before the scans.
ListedAndSaved(D) ==
  /\ sync.step = "list"
  /\ sync' = [sync EXCEPT !.step = "scan", !.watched = {}, !.token = Now,
       !.scans = [d \in Decks |->
                    IF d \notin D \cap DOMAIN watches THEN NoScan
                    ELSE NewScan(IF d \in DOMAIN cursor THEN cursor[d] ELSE watches[d].since)]]
  /\ channel' = IF channel.open THEN [channel EXCEPT !.token = Now] ELSE channel
  /\ missed' = missed \cup UNION {Passed(d, sync.token) : d \in Decks \ sync.watched}
  /\ UNCHANGED <<feed, watches, tasks, cursor, work, armed, skipped>>

\* The decks D have changed; changes of decks that were not watched when the
\* sync began are dropped.  scanDeck then starts for every deck still watched,
\* at once, from the deck's cursor or from the start of its watch.
Listed(D) ==
  /\ sync.step = "list"
  /\ sync' = [sync EXCEPT !.step = "scan", !.watched = {}, !.token = Now,
       !.scans = [d \in Decks |->
                    IF d \notin D \cap DOMAIN watches THEN NoScan
                    ELSE NewScan(IF d \in DOMAIN cursor THEN cursor[d] ELSE watches[d].since)]]
  /\ missed' = missed \cup UNION {Passed(d, sync.token) : d \in Decks \ sync.watched}
  /\ UNCHANGED <<feed, watches, tasks, cursor, channel, work, armed, skipped>>

ChangesListed ==
  /\ Listed({d \in sync.watched : Posts(d, sync.token) # {}})
  /\ UNCHANGED faults

\* Drive no longer honours the page token: a new one, and every deck is read.
TokenInvalid == Fault /\ Listed(sync.watched)

ListFails ==
  /\ sync.step = "list"
  /\ Fault
  /\ sync' = Ended(sync, channel.token)
  /\ UNCHANGED <<feed, watches, tasks, cursor, channel, work, armed, history>>

Scan(d) == sync.scans[d]

ScanIs(d, s) == sync' = [sync EXCEPT !.scans[d] = s]

\* The posts on the scan's page that are work for the deck's present watch and have
\* no task yet.
Unrecorded(d, s) ==
  IF d \in DOMAIN watches THEN (WorkFor(d, watches[d].since, s.from) \cap s.page) \ tasks
  ELSE {}

\* With nothing to record on it, the page is done with.
Onward(d, s) ==
  IF Unrecorded(d, s) # {} THEN s
  ELSE [s EXCEPT !.page = {}, !.step = IF @ = "page" THEN "next" ELSE "cursor"]

\* A page of the deck's comments, the last one or not; with something left, every
\* page but the last lists some of it.
PageRead(d) ==
  LET s == Scan(d)
      left == IF s.step = "first" THEN Posts(d, s.from) ELSE s.left IN
  /\ s.step \in {"first", "next"}
  /\ \E page \in SUBSET Posts(d, s.from), step \in {"page", "last"} :
       \E newest \in {s.newest} \cup page :
         /\ s.newest <= newest /\ \A j \in page : j <= newest
         /\ step = "last" => left \subseteq page
         /\ step = "page" => left \cap page # {} \/ (left = {} /\ s.step = "first")
         /\ ScanIs(d, Onward(d, [s EXCEPT !.step = step, !.newest = newest, !.page = page,
                                          !.left = left \ page, !.late = @ \ page]))
  /\ UNCHANGED <<feed, watches, tasks, cursor, channel, work, armed, faults, history>>

\* recordComment: one task after another is put into the store.
TaskPut(d) ==
  /\ \E i \in Unrecorded(d, Scan(d)) : tasks' = tasks \cup {i} /\ missed' = missed \ {i}
  /\ UNCHANGED <<feed, watches, cursor, channel, work, armed, sync, faults, skipped>>

\* The last task of a page is put, or its watch has ended meanwhile.
PageDone(d) ==
  /\ Scan(d).step \in {"page", "last"} /\ Unrecorded(d, Scan(d)) = {}
  /\ ScanIs(d, Onward(d, Scan(d)))
  /\ UNCHANGED <<feed, watches, tasks, cursor, channel, work, armed, faults, history>>

\* The cursor moves to the newest of the posts read, work or not.
CursorPut(d) ==
  /\ Scan(d).step = "cursor"
  /\ cursor' = With(cursor, d, Scan(d).newest)
  /\ skipped' = skipped \cup {i \in Owed \cap Scan(d).late : i <= Scan(d).newest}
  /\ ScanIs(d, NoScan)
  /\ UNCHANGED <<feed, watches, tasks, channel, work, armed, faults, missed>>

\* Mutant: the loop over the pages ends, and the cursor moves.
ScanFailsAndMoves(d) ==
  /\ Scan(d).step \in {"first", "next"}
  /\ Fault
  /\ ScanIs(d, [Scan(d) EXCEPT !.step = "cursor", !.left = {}])
  /\ UNCHANGED <<feed, watches, tasks, cursor, channel, work, armed, history>>

\* comments.list fails, at any page: the deck's cursor stays, and the sync goes on.
ScanFails(d) ==
  /\ Scan(d).step \in {"first", "next"}
  /\ Fault
  /\ ScanIs(d, NoScan)
  /\ missed' = missed \cup {i \in Passed(d, Scan(d).from) : i <= sync.token}
  /\ UNCHANGED <<feed, watches, tasks, cursor, channel, work, armed, skipped>>

\* Every scan has ended: the page token is saved in the owner's present
\* channel, if there still is one.
TokenSaved ==
  /\ sync.step = "scan" /\ sync.scans = NoScans
  /\ QueueFree
  /\ channel' = IF channel.open THEN [channel EXCEPT !.token = sync.token]
                ELSE channel
  /\ sync' = Ended(sync, sync.token)
  /\ UNCHANGED <<feed, watches, tasks, cursor, work, armed, faults, history>>
-----------------------------------------------------------------------------
Init ==
  /\ feed = <<>>
  /\ watches = NoEntries
  /\ tasks = {}
  /\ cursor = NoEntries
  /\ channel = Closed
  /\ work = [u \in Users |-> NoWork]
  /\ armed = FALSE
  /\ sync = NoSync
  /\ faults = 0
  /\ missed = {} /\ skipped = {}

CallStep(c) ==
  \/ \E d \in Decks : WatchAsks(c, d)
  \/ WatchRefused(c)
  \/ FileRead(c)
  \/ \E D \in SUBSET DOMAIN watches : WatchesEnd(c, D)

ChannelStep(u) ==
  \/ EnsureChannel(u)
  \/ ChannelMissing(u)
  \/ ChannelOpened(u)
  \/ Removed(u)
  \/ IdleOwner(u)

ScanStep(d) ==
  \/ PageRead(d)
  \/ TaskPut(d)
  \/ PageDone(d)
  \/ CursorPut(d)

SyncFault ==
  \/ TokenInvalid
  \/ ListFails
  \/ \E d \in Decks : ScanFails(d)

SweepStep == \E D \in SUBSET DOMAIN watches : SweepFires(D)

Next ==
  \/ \E d \in Busy, isWork \in Kinds : Change(d, isWork)
  \/ PushArrives
  \/ \E c \in Calls : CallStep(c)
  \/ \E u \in Users : ChannelStep(u) \/ ChannelFails(u)
  \/ SweepStep
  \/ \E D \in SUBSET DOMAIN watches : Crash(D)
  \/ TimerFires
  \/ ChangesListed
  \/ \E d \in Decks : ScanStep(d)
  \/ SyncFault
  \/ TokenSaved

Spec == Init /\ [][Next]_vars

\* Drive answers in the end, timers fire, and the sweep and the saving of the page
\* token get their turn at the channel, in the order of asking; a call that has its
\* turn ends it.  Nothing is promised about calls, posts, pushes or faults.
FairSpec ==
  /\ Spec
  /\ WF_vars(TimerFires)
  /\ WF_vars(ChangesListed \/ \E d \in Decks : ScanStep(d))
  /\ WF_vars(SweepStep)
  /\ SF_vars(TokenSaved)
  /\ SF_vars(ChannelStep(Sweep))
  /\ \A c \in Calls : WF_vars(ChannelOpened(c))
-----------------------------------------------------------------------------
(* Properties                                                              *)

\* What is kept and what is under way, when the feed has n entries.
Watch(n) == [since : 0 .. n, answered : 0 .. NotAnswered]

Work(n) == [step : {"none", "file", "ensure", "open", "remove", "idle"}, deck : Decks,
            renewed : BOOLEAN, since : 0 .. n, token : 0 .. n, gone : SUBSET Decks]

Scans(n) == [step : {"none", "first", "page", "next", "last", "cursor"},
             from : 0 .. n, newest : 0 .. n,
             page : SUBSET (1 .. n), left : SUBSET (1 .. n), late : SUBSET (1 .. n)]

\* Functions from some of the decks.
Partial(S) == UNION {[D -> S] : D \in SUBSET Decks}

Sync(n) == [timer : BOOLEAN, rerun : BOOLEAN, step : {"none", "list", "scan"},
            watched : SUBSET Decks, scans : [Decks -> Scans(n)], token : 0 .. n]

TypeOK ==
  /\ feed \in Seq([deck : Decks, work : BOOLEAN]) /\ Now <= MaxChanges
  /\ watches \in Partial(Watch(Now))
  /\ tasks \subseteq 1 .. Now
  /\ cursor \in Partial(0 .. Now)
  /\ channel \in [open : BOOLEAN, token : 0 .. Now]
  /\ work \in [Users -> Work(Now)]
  /\ armed \in BOOLEAN
  /\ sync \in Sync(Now)
  /\ faults \in 0 .. MaxFaults
  /\ missed \subseteq 1 .. Now /\ skipped \subseteq 1 .. Now

\* Once the next scan of a deck starts behind a post, the post is a task, unless it
\* was made between two pages of a listing and was on neither: no scan that failed at
\* a page, was interrupted between its tasks and its cursor, or began under an earlier
\* watch of the deck leaves a cursor past work it has not recorded (scanDeck).
CursorBehindTasks ==
  \A i \in Owed \ skipped :
    feed[i].deck \in DOMAIN cursor /\ i <= cursor[feed[i].deck] => i \in tasks

\* What is still to be read.
Unread == Owed \ (tasks \cup missed \cup skipped)

\* The page token the next sync starts from, in the channel or in the hands of
\* someone who is replacing the channel, is never past a post that is still to be
\* read: what a crash interrupts is listed again (syncOnce, ensureChannel).
TokenBehindTasks ==
  \A i \in Unread :
    /\ channel.open => channel.token < i
    /\ sync.step = "list" => sync.token < i
    /\ \A u \in Users : work[u].step = "open" => work[u].token < i

\* A deck whose watch was answered for is followed: its owner has a channel,
\* and the sweep is set or under way.  A watch that ends takes neither away
\* from another that starts (idleOwner, stopTickingWhenIdle, startTicking).
Followed ==
  (\E d \in DOMAIN watches : watches[d].answered # NotAnswered) =>
     channel.open /\ (armed \/ work[Sweep].step # "none")

\* Every post that is owed becomes a task, or is passed by a sync or a cursor, or its
\* watch ends: although pushes are lost, channels are renewed and the server restarts,
\* the sweep comes back to it (posts being finitely many, all are read at one time).
EveryPostComesIn == []<>(Unread = {})

\* What the module's comment promises: "while the watch lasts every new
\* comment or reply on that deck" becomes a task.  A sync passes a post of a
\* deck that was first watched after the sync began, or whose scan failed,
\* and saves a page token past it.
NothingPassed == Owed \cap (missed \cup skipped) = {}
=============================================================================
