-------------------------- MODULE CommentBotProofs --------------------------
(***************************************************************************)
(* The comment bot loses no comment of its own making: for any decks, any  *)
(* number of calls, changes and faults, neither a deck's cursor nor the    *)
(* page token passes work that is not recorded, but for what a sync has    *)
(* passed without reading it ("missed"), and what was made between two     *)
(* pages of a listing and was on neither ("skipped").                      *)
(***************************************************************************)
EXTENDS CommentBot, TLAPS

-----------------------------------------------------------------------------
\* Functions from some of the decks.

\* What it means to be such a function.
LEMMA PartialUse ==
  ASSUME NEW S, NEW f \in Partial(S)
  PROVE  /\ DOMAIN f \subseteq Decks /\ f \in [DOMAIN f -> S]
         /\ \A d \in DOMAIN f : f[d] \in S
BY DEF Partial

LEMMA PartialIntro ==
  ASSUME NEW S, NEW D \in SUBSET Decks, NEW f \in [D -> S]
  PROVE  f \in Partial(S)
BY DEF Partial

LEMMA PartialMono ==
  ASSUME NEW S, NEW T, S \subseteq T, NEW f \in Partial(S)
  PROVE  f \in Partial(T)
<1>1. DOMAIN f \in SUBSET Decks /\ f \in [DOMAIN f -> T]
  BY PartialUse
<1>2. QED
  BY <1>1, PartialIntro

LEMMA PartialNone == ASSUME NEW S PROVE NoEntries \in Partial(S) /\ DOMAIN NoEntries = {}
<1>1. DOMAIN NoEntries = {} /\ NoEntries \in [{} -> S]
  BY DEF NoEntries
<1>2. QED
  BY <1>1, PartialIntro

LEMMA PartialWith ==
  ASSUME NEW S, NEW f \in Partial(S), NEW d \in Decks, NEW v \in S
  PROVE  With(f, d, v) \in Partial(S)
<1>1. DOMAIN f \cup {d} \in SUBSET Decks
  BY PartialUse
<1>2. With(f, d, v) \in [DOMAIN f \cup {d} -> S]
  BY PartialUse DEF With
<1>3. QED
  BY <1>1, <1>2, PartialIntro

LEMMA PartialWithout ==
  ASSUME NEW S, NEW f \in Partial(S), NEW D
  PROVE  Without(f, D) \in Partial(S)
<1>1. DOMAIN f \ D \in SUBSET Decks
  BY PartialUse
<1>2. Without(f, D) \in [DOMAIN f \ D -> S]
  BY PartialUse DEF Without, Restrict
<1>3. QED
  BY <1>1, <1>2, PartialIntro

\* What Without leaves of each deck.
LEMMA WithoutValues ==
  ASSUME NEW f, NEW D
  PROVE  /\ DOMAIN Without(f, D) = DOMAIN f \ D
         /\ \A e \in DOMAIN f \ D : Without(f, D)[e] = f[e]
BY DEF Without, Restrict

-----------------------------------------------------------------------------
\* Type correctness.

LEMMA NowNat == TypeOK => Now \in Nat /\ Now <= MaxChanges /\ MaxChanges \in Nat
BY BoundAssumption DEF TypeOK, Now

LEMMA NoWorkType == ASSUME NEW n \in Nat PROVE NoWork \in Work(n)
<1>1. (CHOOSE d \in Decks : TRUE) \in Decks
  BY DecksAssumption
<1>2. 0 \in 0 .. n
  OBVIOUS
<1>3. QED
  BY <1>1, <1>2 DEF NoWork, Work

LEMMA NoScansType == ASSUME NEW n \in Nat PROVE NoScan \in Scans(n) /\ NoScans \in [Decks -> Scans(n)]
<1>1. 0 \in 0 .. n
  OBVIOUS
<1>2. NoScan \in Scans(n)
  BY <1>1 DEF NoScan, Scans
<1>3. QED
  BY <1>2 DEF NoScans

LEMMA NoSyncType == ASSUME NEW n \in Nat PROVE NoSync \in Sync(n)
<1>1. NoScans \in [Decks -> Scans(n)] /\ 0 \in 0 .. n
  BY NoScansType
<1>2. QED
  BY <1>1 DEF NoSync, Sync

\* Whatever a call or the sweep does next has the type of its work.
LEMMA DoesType ==
  ASSUME NEW n \in Nat, NEW u \in Users, NEW step \in {"none", "file", "ensure", "open", "remove", "idle"},
         work \in [Users -> Work(n)], Does(u, step)
  PROVE  work' \in [Users -> Work(n)]
<1>1. NoWork \in Work(n)
  BY NoWorkType
<1>2. /\ [NoWork EXCEPT !.step = step] \in Work(n)
      /\ [NoWork EXCEPT !.step = step, !.deck = work[u].deck, !.renewed = work[u].renewed] \in Work(n)
  BY <1>1 DEF Work
<1>3. QED
  BY <1>2 DEF Does

LEMMA RemovingType ==
  ASSUME NEW n \in Nat, NEW D \in SUBSET Decks
  PROVE  Removing(D) \in Work(n)
<1>1. NoWork \in Work(n)
  BY NoWorkType
<1>2. QED
  BY <1>1 DEF Removing, Work

LEMMA RemoveType ==
  ASSUME TypeOK, NEW D, Remove(D), feed' = feed
  PROVE  /\ watches' \in Partial(Watch(Now)) /\ tasks' \subseteq 1 .. Now
         /\ missed' \subseteq 1 .. Now /\ skipped' \subseteq 1 .. Now
<1>1. watches' \in Partial(Watch(Now))
  BY PartialWithout DEF Remove, TypeOK
<1>2. QED
  BY <1>1 DEF Remove, TypeOK

LEMMA EnsuredType ==
  ASSUME TypeOK, NEW u \in Users, Ensured(u)
  PROVE  /\ watches' \in Partial(Watch(Now)) /\ work' \in [Users -> Work(Now)]
         /\ armed' \in BOOLEAN /\ sync' \in Sync(Now)
<1>1. Now \in Nat /\ Now <= MaxChanges /\ MaxChanges \in Nat
  BY NowNat
<1>2. work' \in [Users -> Work(Now)]
  BY <1>1, NoWorkType DEF Ensured, TypeOK
<1>3. armed' \in BOOLEAN
  BY DEF Ensured, TypeOK
<1>4. sync' \in Sync(Now)
  BY DEF Ensured, TypeOK, Sync
<1>5. watches' \in Partial(Watch(Now))
  <2>1. CASE u = Sweep
    BY <2>1 DEF Ensured, TypeOK
  <2>2. CASE u # Sweep
    <3>1. /\ DOMAIN watches \in SUBSET Decks /\ \A d \in DOMAIN watches : watches[d] \in Watch(Now)
      BY PartialUse DEF TypeOK
    <3>2. \A d \in DOMAIN watches : [watches[d] EXCEPT !.answered = Now] \in Watch(Now)
      BY <1>1, <3>1 DEF Watch, NotAnswered
    <3>3. watches' \in [DOMAIN watches -> Watch(Now)]
      BY <2>2, <3>1, <3>2 DEF Ensured
    <3>4. QED
      BY <3>1, <3>3, PartialIntro
  <2>3. QED
    BY <2>1, <2>2
<1>6. QED
  BY <1>2, <1>3, <1>4, <1>5

LEMMA BegunType ==
  ASSUME NEW n \in Nat, NEW s \in Sync(n), NEW token \in 0 .. n, DOMAIN watches \subseteq Decks
  PROVE  Begun(s, token) \in Sync(n) /\ Ended(s, token) \in Sync(n)
<1>1. NoSync \in Sync(n)
  BY NoSyncType
<1>2. [NoSync EXCEPT !.timer = s.timer] \in Sync(n)
  BY <1>1 DEF Sync
<1>3. [NoSync EXCEPT !.timer = s.timer, !.step = "list",
                     !.watched = DOMAIN watches, !.token = token] \in Sync(n)
  BY <1>1 DEF Sync
<1>4. QED
  BY <1>2, <1>3 DEF Begun, Ended

LEMMA TypeInit == Init => TypeOK
<1> SUFFICES ASSUME Init PROVE TypeOK
  OBVIOUS
<1>1. Now = 0 /\ feed \in Seq([deck : Decks, work : BOOLEAN])
  BY DEF Init, Now
<1>2. NoEntries \in Partial(Watch(0)) /\ NoEntries \in Partial(0 .. 0)
  BY PartialNone
<1>3. NoWork \in Work(0) /\ NoSync \in Sync(0)
  BY NoWorkType, NoSyncType
<1>4. Closed \in [open : BOOLEAN, token : 0 .. 0]
  BY DEF Closed
<1>5. 0 <= MaxChanges /\ 0 \in 0 .. MaxFaults
  BY BoundAssumption
<1>6. QED
  BY <1>1, <1>2, <1>3, <1>4, <1>5 DEF Init, TypeOK

\* The longer feed leaves everything its type.
\* The longer feed leaves everything its type.
LEMMA ChangeType ==
  ASSUME TypeOK, NEW d \in Busy, NEW isWork \in Kinds, Change(d, isWork)
  PROVE  TypeOK' /\ Now' = Now + 1
<1>1. Now \in Nat /\ Now <= MaxChanges /\ MaxChanges \in Nat
  BY NowNat
<1>2. [deck |-> d, work |-> isWork] \in [deck : Decks, work : BOOLEAN]
  BY BoundAssumption
<1>3. feed' \in Seq([deck : Decks, work : BOOLEAN]) /\ Now' = Now + 1 /\ Now' <= MaxChanges
  BY <1>1, <1>2 DEF Change, TypeOK, Now
<1>4. 0 .. Now \subseteq 0 .. Now' /\ 1 .. Now \subseteq 1 .. Now' /\ Now + 1 \in 1 .. Now'
  BY <1>1, <1>3
<1>5. Watch(Now) \subseteq Watch(Now') /\ Work(Now) \subseteq Work(Now')
  BY <1>4 DEF Watch, Work
<1>6. watches' \in Partial(Watch(Now')) /\ cursor' \in Partial(0 .. Now')
  BY <1>4, <1>5, PartialMono DEF Change, TypeOK
<1>7. work' \in [Users -> Work(Now')]
  BY <1>5 DEF Change, TypeOK
<1>8. sync' \in Sync(Now')
  <2>1. Scans(Now) \subseteq Scans(Now')
    BY <1>4 DEF Scans
  <2>2. sync.scans \in [Decks -> Scans(Now')] /\ sync \in Sync(Now')
    BY <1>4, <2>1 DEF TypeOK, Sync
  <2>3. d \in Decks
    BY BoundAssumption
  <2>4. [sync.scans[d] EXCEPT !.late = @ \cup {Now + 1}] \in Scans(Now')
    BY <1>4, <2>2, <2>3 DEF Scans
  <2>5. [sync.scans EXCEPT ![d] = [sync.scans[d] EXCEPT !.late = @ \cup {Now + 1}]]
          \in [Decks -> Scans(Now')]
    BY <2>2, <2>4
  <2>6. [sync EXCEPT !.scans[d].late = @ \cup {Now + 1}] \in Sync(Now')
    BY <2>2, <2>5 DEF Sync
  <2>7. QED
    BY <2>2, <2>6 DEF Change
<1>9. QED
  BY <1>3, <1>4, <1>6, <1>7, <1>8 DEF Change, history, TypeOK

LEMMA ListedType ==
  ASSUME TypeOK, NEW D, Listed(D)
  PROVE  sync' \in Sync(Now) /\ missed' \subseteq 1 .. Now
<1> DEFINE start(d) == IF d \in DOMAIN cursor THEN cursor[d] ELSE watches[d].since
           new == [d \in Decks |->
                     IF d \notin D \cap DOMAIN watches THEN NoScan ELSE NewScan(start(d))]
<1>1. Now \in Nat
  BY NowNat
<1>2. missed' \subseteq 1 .. Now
  BY DEF Listed, Passed, Owed, TypeOK
<1>3. \A d \in DOMAIN watches : start(d) \in 0 .. Now
  <2>1. \A d \in DOMAIN watches : watches[d].since \in 0 .. Now
    <3>1. \A d \in DOMAIN watches : watches[d] \in Watch(Now)
      BY PartialUse DEF TypeOK
    <3>2. QED
      BY <3>1 DEF Watch
  <2>2. \A d \in DOMAIN cursor : cursor[d] \in 0 .. Now
    BY PartialUse DEF TypeOK
  <2>3. QED
    BY <2>1, <2>2
<1>4. \A from \in 0 .. Now : NewScan(from) \in Scans(Now)
  BY <1>1, NoScansType DEF NewScan, Scans
<1>5. new \in [Decks -> Scans(Now)]
  BY <1>1, <1>3, <1>4, NoScansType
<1>6. sync' = [sync EXCEPT !.step = "scan", !.watched = {}, !.token = Now, !.scans = new]
  BY DEF Listed
<1>7. sync \in Sync(Now) /\ Now \in 0 .. Now
  BY <1>1 DEF TypeOK
<1> HIDE DEF new
<1>8. sync' \in Sync(Now)
  BY <1>5, <1>6, <1>7 DEF Sync
<1>9. QED
  BY <1>2, <1>8

\* A scan is about to read its deck, its page, or its end; the others stay.
LEMMA ScanType ==
  ASSUME TypeOK, NEW d \in Decks, NEW s \in Scans(Now), ScanIs(d, s)
  PROVE  sync' \in Sync(Now)
<1>1. [sync.scans EXCEPT ![d] = s] \in [Decks -> Scans(Now)]
  BY DEF TypeOK, Sync
<1>2. QED
  BY <1>1 DEF ScanIs, TypeOK, Sync

LEMMA OnwardType ==
  ASSUME NEW n, NEW d, NEW s \in Scans(n)
  PROVE  Onward(d, s) \in Scans(n)
BY DEF Onward, Scans

LEMMA PageType ==
  ASSUME TypeOK, NEW d \in Decks, PageRead(d) \/ PageDone(d)
  PROVE  sync' \in Sync(Now)
<1>1. Now \in Nat /\ Scan(d) \in Scans(Now)
  BY NowNat DEF TypeOK, Sync, Scan
<1>2. CASE PageRead(d)
  <2> DEFINE left == IF Scan(d).step = "first" THEN Posts(d, Scan(d).from) ELSE Scan(d).left
  <2>1. PICK page \in SUBSET Posts(d, Scan(d).from), step \in {"page", "last"} :
          \E newest \in {Scan(d).newest} \cup page :
            ScanIs(d, Onward(d, [Scan(d) EXCEPT !.step = step, !.newest = newest, !.page = page,
                                                !.left = left \ page, !.late = @ \ page]))
    BY <1>2 DEF PageRead
  <2>2. PICK newest \in {Scan(d).newest} \cup page :
          ScanIs(d, Onward(d, [Scan(d) EXCEPT !.step = step, !.newest = newest, !.page = page,
                                              !.left = left \ page, !.late = @ \ page]))
    BY <2>1
  <2>3. Posts(d, Scan(d).from) \subseteq 1 .. Now
    BY <1>1 DEF Posts, Scans
  <2>4. page \subseteq 1 .. Now /\ left \subseteq 1 .. Now /\ newest \in 0 .. Now
    BY <1>1, <2>3 DEF Scans
  <2> HIDE DEF left
  <2>5. [Scan(d) EXCEPT !.step = step, !.newest = newest, !.page = page,
                        !.left = left \ page, !.late = @ \ page] \in Scans(Now)
    BY <1>1, <2>4 DEF Scans
  <2>6. QED
    BY <2>2, <2>5, OnwardType, ScanType
<1>3. CASE PageDone(d)
  BY <1>1, <1>3, OnwardType, ScanType DEF PageDone
<1>4. QED
  BY <1>2, <1>3

LEMMA ScanStepType ==
  ASSUME TypeOK, NEW d \in Decks, ScanStep(d)
  PROVE  TypeOK'
<1>1. Now \in Nat /\ Scan(d) \in Scans(Now) /\ NoScan \in Scans(Now)
  BY NowNat, NoScansType DEF TypeOK, Sync, Scan
<1>2. Now' = Now /\ UNCHANGED <<feed, watches, channel, work, armed, faults>>
  BY DEF ScanStep, PageRead, TaskPut, PageDone, CursorPut, Now
<1>3. CASE PageRead(d) \/ PageDone(d)
  <2>1. UNCHANGED <<tasks, cursor, missed, skipped>>
    BY <1>3 DEF PageRead, PageDone, history
  <2>2. QED
    BY <1>2, <1>3, <2>1, PageType DEF TypeOK
<1>4. CASE TaskPut(d)
  <2>1. Unrecorded(d, Scan(d)) \subseteq 1 .. Now
    BY <1>1 DEF Unrecorded, WorkFor, Posts, Scans
  <2>2. tasks' \subseteq 1 .. Now /\ missed' \subseteq 1 .. Now
    BY <1>4, <2>1 DEF TaskPut, TypeOK
  <2>3. QED
    BY <1>2, <1>4, <2>2 DEF TaskPut, TypeOK
<1>5. CASE CursorPut(d)
  <2>1. sync' \in Sync(Now)
    BY <1>1, <1>5, ScanType DEF CursorPut
  <2>2. cursor' \in Partial(0 .. Now)
    <3>1. Scan(d).newest \in 0 .. Now
      BY <1>1 DEF Scans
    <3>2. QED
      BY <1>5, <3>1, PartialWith DEF CursorPut, TypeOK
  <2>3. skipped' \subseteq 1 .. Now
    BY <1>5 DEF CursorPut, Owed, TypeOK
  <2>4. QED
    BY <1>2, <1>5, <2>1, <2>2, <2>3 DEF CursorPut, TypeOK
<1>6. QED
  BY <1>3, <1>4, <1>5 DEF ScanStep

LEMMA AsksType ==
  ASSUME TypeOK, NEW c \in Calls, NEW d \in Decks, WatchAsks(c, d)
  PROVE  work' \in [Users -> Work(Now)]
<1>1. Now \in Nat
  BY NowNat
<1>2. \A e \in DOMAIN watches : watches[e] \in Watch(Now)
  BY PartialUse DEF TypeOK
<1>3. (IF d \in DOMAIN watches THEN watches[d].since ELSE Now) \in 0 .. Now
  BY <1>1, <1>2 DEF Watch
<1>4. [step |-> "file", deck |-> d, renewed |-> d \in DOMAIN watches,
       since |-> IF d \in DOMAIN watches THEN watches[d].since ELSE Now,
       token |-> 0, gone |-> {}] \in Work(Now)
  BY <1>1, <1>3 DEF Work
<1>5. QED
  BY <1>4 DEF WatchAsks, TypeOK

LEMMA FileReadType ==
  ASSUME TypeOK, NEW c \in Calls, FileRead(c)
  PROVE  watches' \in Partial(Watch(Now)) /\ work' \in [Users -> Work(Now)]
<1>1. Now \in Nat /\ Now <= MaxChanges /\ MaxChanges \in Nat
  BY NowNat
<1>2. c \in Users
  BY DEF Users
<1>3. work' \in [Users -> Work(Now)]
  BY <1>1, <1>2, DoesType DEF FileRead, TypeOK
<1>4. work[c].deck \in Decks /\ work[c].since \in 0 .. Now
  BY <1>2 DEF TypeOK, Work
<1>5. [since |-> work[c].since, answered |-> NotAnswered] \in Watch(Now)
  BY <1>1, <1>4 DEF Watch, NotAnswered
<1>6. watches' \in Partial(Watch(Now))
  BY <1>4, <1>5, PartialWith DEF FileRead, TypeOK
<1>7. QED
  BY <1>3, <1>6

LEMMA MissingType ==
  ASSUME TypeOK, NEW u \in Users, ChannelMissing(u)
  PROVE  work' \in [Users -> Work(Now)] /\ faults' \in 0 .. MaxFaults
<1>1. Now \in Nat
  BY NowNat
<1>2. (IF channel.open THEN channel.token ELSE Now) \in 0 .. Now
  BY <1>1 DEF TypeOK
<1>3. work' \in [Users -> Work(Now)]
  <2>1. \A w \in Work(Now), token \in 0 .. Now :
          [w EXCEPT !.step = "open", !.token = token] \in Work(Now)
    BY DEF Work
  <2>2. work[u] \in Work(Now)
    BY DEF TypeOK
  <2>3. work' = [work EXCEPT ![u] = [work[u] EXCEPT !.step = "open",
                   !.token = IF channel.open THEN channel.token ELSE Now]]
    BY DEF ChannelMissing
  <2>4. QED
    BY <1>2, <2>1, <2>2, <2>3 DEF TypeOK
<1>4. faults' \in 0 .. MaxFaults
  BY BoundAssumption DEF ChannelMissing, Fault, TypeOK
<1>5. QED
  BY <1>3, <1>4

LEMMA FaultType == ASSUME TypeOK, Fault PROVE faults' \in 0 .. MaxFaults
BY BoundAssumption DEF TypeOK, Fault

LEMMA FailsType ==
  ASSUME TypeOK, NEW u \in Users, ChannelFails(u)
  PROVE  TypeOK'
<1>1. Now \in Nat /\ Now' = Now /\ UNCHANGED <<feed, cursor, channel>>
  BY NowNat DEF ChannelFails, Now
<1>2. faults' \in 0 .. MaxFaults
  BY FaultType DEF ChannelFails
<1>3. CASE u = Sweep
  <2>1. Ensured(u) /\ UNCHANGED <<tasks, missed, skipped>>
    BY <1>3 DEF ChannelFails, history
  <2>2. QED
    BY <1>1, <1>2, <2>1, EnsuredType DEF TypeOK
<1>4. CASE u # Sweep
  <2>1. PICK D \in {{}, {work[u].deck}} :
          Remove(D) /\ work' = [work EXCEPT ![u] = Removing(D)] /\ UNCHANGED <<armed, sync>>
    BY <1>4 DEF ChannelFails
  <2>2. D \in SUBSET Decks
    BY DEF TypeOK, Work
  <2>3. work' \in [Users -> Work(Now)]
    BY <1>1, <2>1, <2>2, RemovingType DEF TypeOK
  <2>4. /\ watches' \in Partial(Watch(Now)) /\ tasks' \subseteq 1 .. Now
        /\ missed' \subseteq 1 .. Now /\ skipped' \subseteq 1 .. Now
    BY <1>1, <2>1, RemoveType
  <2>5. QED
    BY <1>1, <1>2, <2>1, <2>3, <2>4 DEF TypeOK
<1>5. QED
  BY <1>3, <1>4

LEMMA CrashType ==
  ASSUME TypeOK, NEW D \in SUBSET DOMAIN watches, Crash(D)
  PROVE  TypeOK'
<1>1. Now \in Nat /\ Now' = Now /\ UNCHANGED <<feed, cursor, channel>>
  BY NowNat DEF Crash, Now
<1>2. NoWork \in Work(Now) /\ sync' \in Sync(Now)
  BY <1>1, NoWorkType, NoSyncType DEF Crash
<1>3. /\ watches' \in Partial(Watch(Now)) /\ tasks' \subseteq 1 .. Now
      /\ missed' \subseteq 1 .. Now /\ skipped' \subseteq 1 .. Now
  BY <1>1, RemoveType DEF Crash
<1>4. Removing(D) \in Work(Now)
  BY <1>1, PartialUse, RemovingType DEF TypeOK
<1>5. work' \in [Users -> Work(Now)]
  BY <1>2, <1>4 DEF Crash
<1>6. faults' \in 0 .. MaxFaults
  BY FaultType DEF Crash
<1>7. QED
  BY <1>1, <1>2, <1>3, <1>5, <1>6 DEF Crash, TypeOK

LEMMA SyncStepType ==
  ASSUME TypeOK, TimerFires \/ ChangesListed \/ SyncFault \/ TokenSaved
  PROVE  TypeOK'
<1>1. Now \in Nat /\ Now' = Now /\ feed' = feed
  BY NowNat DEF TimerFires, ChangesListed, Listed, SyncFault, TokenInvalid,
       ListFails, ScanFails, TokenSaved, Now
<1>2. DOMAIN watches \subseteq Decks
  BY PartialUse DEF TypeOK
<1>3. sync.token \in 0 .. Now /\ channel.token \in 0 .. Now
  BY DEF TypeOK, Sync
<1>4. CASE TimerFires
  <2>1. [sync EXCEPT !.timer = FALSE] \in Sync(Now)
        /\ [sync EXCEPT !.timer = FALSE, !.rerun = TRUE] \in Sync(Now)
    BY DEF TypeOK, Sync
  <2>2. Begun([sync EXCEPT !.timer = FALSE], channel.token) \in Sync(Now)
    BY <1>1, <1>2, <1>3, <2>1, BegunType
  <2>3. sync' \in Sync(Now)
    BY <1>4, <2>1, <2>2 DEF TimerFires
  <2>4. QED
    BY <1>1, <1>4, <2>3 DEF TimerFires, history, TypeOK
<1>5. ASSUME NEW D, Listed(D), faults' \in 0 .. MaxFaults
      PROVE  TypeOK'
  <2>1. sync' \in Sync(Now) /\ missed' \subseteq 1 .. Now
    BY <1>5, ListedType
  <2>2. QED
    BY <1>1, <1>5, <2>1 DEF Listed, TypeOK
<1>6. CASE ChangesListed
  BY <1>5, <1>6 DEF ChangesListed, TypeOK
<1>7. CASE TokenInvalid
  BY <1>5, <1>7, FaultType DEF TokenInvalid
<1>8. CASE ListFails
  <2>1. sync \in Sync(Now)
    BY DEF TypeOK
  <2>2. sync' \in Sync(Now)
    BY <1>1, <1>2, <1>3, <1>8, <2>1, BegunType DEF ListFails
  <2>3. faults' \in 0 .. MaxFaults
    BY <1>8, FaultType DEF ListFails
  <2>4. QED
    BY <1>1, <1>8, <2>2, <2>3 DEF ListFails, history, TypeOK
<1>9. ASSUME NEW d \in Decks, ScanFails(d)
      PROVE  TypeOK'
  <2>1. sync' \in Sync(Now)
    BY <1>1, <1>9, NoScansType, ScanType DEF ScanFails
  <2>2. missed' \subseteq 1 .. Now
    BY <1>9 DEF ScanFails, Passed, Owed, TypeOK
  <2>3. faults' \in 0 .. MaxFaults
    BY <1>9, FaultType DEF ScanFails
  <2>4. QED
    BY <1>1, <1>9, <2>1, <2>2, <2>3 DEF ScanFails, TypeOK
<1>10. CASE TokenSaved
  <2>1. sync \in Sync(Now)
    BY DEF TypeOK
  <2>2. sync' \in Sync(Now)
    BY <1>1, <1>2, <1>3, <1>10, <2>1, BegunType DEF TokenSaved
  <2>3. channel' \in [open : BOOLEAN, token : 0 .. Now]
    BY <1>3, <1>10 DEF TokenSaved, TypeOK
  <2>4. QED
    BY <1>1, <1>10, <2>2, <2>3 DEF TokenSaved, history, TypeOK
<1>11. QED
  BY <1>4, <1>6, <1>7, <1>8, <1>9, <1>10 DEF SyncFault

LEMMA CallStepType ==
  ASSUME TypeOK, NEW c \in Calls, CallStep(c)
  PROVE  TypeOK'
<1>1. Now \in Nat /\ Now' = Now /\ feed' = feed
  BY NowNat DEF CallStep, WatchAsks, WatchRefused, FileRead, WatchesEnd, Now
<1>2. c \in Users
  BY DEF Users
<1>3. ASSUME NEW d \in Decks, WatchAsks(c, d)
      PROVE  TypeOK'
  <2>1. faults' \in 0 .. MaxFaults
    BY <1>3, FaultType DEF WatchAsks, TypeOK
  <2>2. QED
    BY <1>1, <1>3, <2>1, AsksType DEF WatchAsks, history, TypeOK
<1>4. CASE WatchRefused(c)
  <2>1. work' \in [Users -> Work(Now)]
    BY <1>1, <1>4, NoWorkType DEF WatchRefused, TypeOK
  <2>2. QED
    BY <1>1, <1>4, <2>1 DEF WatchRefused, history, TypeOK
<1>5. CASE FileRead(c)
  BY <1>1, <1>5, FileReadType DEF FileRead, history, TypeOK
<1>6. ASSUME NEW D, WatchesEnd(c, D)
      PROVE  TypeOK'
  <2>1. D \in SUBSET Decks
    BY <1>6, PartialUse DEF WatchesEnd, TypeOK
  <2>2. work' \in [Users -> Work(Now)]
    BY <1>1, <1>6, <2>1, RemovingType DEF WatchesEnd, TypeOK
  <2>3. /\ watches' \in Partial(Watch(Now)) /\ tasks' \subseteq 1 .. Now
        /\ missed' \subseteq 1 .. Now /\ skipped' \subseteq 1 .. Now
    BY <1>1, <1>6, RemoveType DEF WatchesEnd
  <2>4. QED
    BY <1>1, <1>6, <2>2, <2>3 DEF WatchesEnd, TypeOK
<1>7. QED
  BY <1>3, <1>4, <1>5, <1>6 DEF CallStep

LEMMA ChannelStepType ==
  ASSUME TypeOK, NEW u \in Users, ChannelStep(u)
  PROVE  TypeOK'
<1>1. Now \in Nat /\ Now' = Now /\ feed' = feed
  BY NowNat DEF ChannelStep, EnsureChannel, ChannelMissing, ChannelOpened, Removed, IdleOwner, Now
<1>2. CASE EnsureChannel(u)
  <2>1. Ensured(u) /\ UNCHANGED <<tasks, cursor, channel, faults, missed, skipped>>
    BY <1>2 DEF EnsureChannel, history
  <2>2. QED
    BY <1>1, <2>1, EnsuredType DEF TypeOK
<1>3. CASE ChannelMissing(u)
  BY <1>1, <1>3, MissingType DEF ChannelMissing, history, TypeOK
<1>4. CASE ChannelOpened(u)
  <2>1. Ensured(u) /\ UNCHANGED <<tasks, cursor, faults, missed, skipped>>
    BY <1>4 DEF ChannelOpened, history
  <2>2. channel' \in [open : BOOLEAN, token : 0 .. Now]
    BY <1>4 DEF ChannelOpened, TypeOK, Work
  <2>3. QED
    BY <1>1, <2>1, <2>2, EnsuredType DEF TypeOK
<1>5. CASE Removed(u)
  <2>1. work' \in [Users -> Work(Now)]
    BY <1>1, <1>5, DoesType DEF Removed, TypeOK
  <2>2. sync' \in Sync(Now)
    BY <1>5 DEF Removed, TypeOK, Sync
  <2>3. cursor' \in Partial(0 .. Now)
    BY <1>5, PartialWithout DEF Removed, TypeOK
  <2>4. QED
    BY <1>1, <1>5, <2>1, <2>2, <2>3 DEF Removed, history, TypeOK
<1>6. CASE IdleOwner(u)
  <2>1. work' \in [Users -> Work(Now)]
    BY <1>1, <1>6, DoesType DEF IdleOwner, TypeOK
  <2>2. Closed \in [open : BOOLEAN, token : 0 .. Now]
    BY <1>1 DEF Closed
  <2>3. channel' \in [open : BOOLEAN, token : 0 .. Now]
    BY <1>6, <2>2 DEF IdleOwner, TypeOK
  <2>4. armed' \in BOOLEAN
    BY <1>6 DEF IdleOwner, TypeOK
  <2>5. QED
    BY <1>1, <1>6, <2>1, <2>3, <2>4 DEF IdleOwner, history, TypeOK
<1>7. QED
  BY <1>2, <1>3, <1>4, <1>5, <1>6 DEF ChannelStep

\* Every step keeps the types.
LEMMA TypeStep == TypeOK /\ [Next]_vars => TypeOK'
<1> SUFFICES ASSUME TypeOK, [Next]_vars PROVE TypeOK'
  OBVIOUS
<1>1. ASSUME NEW d \in Busy, NEW isWork \in Kinds, Change(d, isWork)
      PROVE  TypeOK'
  BY <1>1, ChangeType
<1>2. CASE PushArrives
  <2>1. sync' \in Sync(Now)
    BY <1>2 DEF PushArrives, TypeOK, Sync
  <2>2. QED
    BY <1>2, <2>1 DEF PushArrives, history, TypeOK, Now
<1>3. ASSUME NEW c \in Calls, CallStep(c)
      PROVE  TypeOK'
  BY <1>3, CallStepType
<1>4. ASSUME NEW u \in Users, ChannelStep(u) \/ ChannelFails(u)
      PROVE  TypeOK'
  BY <1>4, ChannelStepType, FailsType
<1>5. ASSUME NEW D \in SUBSET DOMAIN watches, SweepFires(D)
      PROVE  TypeOK'
  <2>1. /\ Now \in Nat /\ Now' = Now /\ Sweep \in Users
        /\ UNCHANGED <<feed, cursor, channel, sync, faults>>
    BY <1>5, NowNat DEF SweepFires, Now, Users
  <2>2. D \in SUBSET Decks
    BY PartialUse DEF TypeOK
  <2>3. work' \in [Users -> Work(Now)]
    BY <1>5, <2>1, <2>2, DoesType, RemovingType DEF SweepFires, TypeOK
  <2>4. /\ watches' \in Partial(Watch(Now)) /\ tasks' \subseteq 1 .. Now
        /\ missed' \subseteq 1 .. Now /\ skipped' \subseteq 1 .. Now
    BY <1>5, <2>1, RemoveType DEF SweepFires
  <2>5. QED
    BY <1>5, <2>1, <2>3, <2>4 DEF SweepFires, TypeOK
<1>6. ASSUME NEW D \in SUBSET DOMAIN watches, Crash(D)
      PROVE  TypeOK'
  BY <1>6, CrashType
<1>7. CASE TimerFires \/ ChangesListed \/ SyncFault \/ TokenSaved
  BY <1>7, SyncStepType
<1>8. ASSUME NEW d \in Decks, ScanStep(d)
      PROVE  TypeOK'
  BY <1>8, ScanStepType
<1>9. CASE UNCHANGED vars
  BY <1>9 DEF vars, history, TypeOK, Now
<1>10. QED
  BY <1>1, <1>2, <1>3, <1>4, <1>5, <1>6, <1>7, <1>8, <1>9 DEF Next, SweepStep

\* Every variable keeps its type.
THEOREM TypeCorrect == Spec => []TypeOK
<1>1. Init => TypeOK
  BY TypeInit
<1>2. TypeOK /\ [Next]_vars => TypeOK'
  BY TypeStep
<1>3. QED
  BY <1>1, <1>2, PTL DEF Spec

-----------------------------------------------------------------------------
\* The inductive invariant.  A watch starts before it is answered for, and a
\* deck that was answered for keeps its owner's channel: a channel that starts
\* from the present end of the feed finds nothing owed.  While a deck is scanned,
\* a post behind the scan's start is accounted for, and one after it is recorded,
\* on the page in hand, on a page to come, or was made since the first page, which
\* only the posts up to the newest one need once the last page is read.  And while
\* the decks of a listing are being scanned, whatever is behind the new page token
\* and still unread is on the page in hand or on a page to come.

StartedFirst == \A d \in DOMAIN watches : watches[d].since <= watches[d].answered

AnsweredOpen ==
  (\E d \in DOMAIN watches : watches[d].answered # NotAnswered) => channel.open

Accounted(i, s, recorded, lost) ==
  s.step # "none" =>
    /\ i <= s.from => i \in recorded \cup lost
    /\ s.step # "first" /\ s.from < i /\ (s.step \in {"page", "next"} \/ i <= s.newest) =>
         i \in recorded \cup s.page \cup s.left \cup s.late

ScansAccount == \A i \in Owed : Accounted(i, Scan(feed[i].deck), tasks, skipped)

\* No page is in hand between two pages, and none is to come after the last.
Shape(s) ==
  /\ s.step = "next" => s.page = {}
  /\ s.step = "last" => s.left = {}
  /\ s.step = "cursor" => (s.page = {} /\ s.left = {})

ScansShaped == \A d \in Decks : Shape(Scan(d))

ToRead(i, s) ==
  s.step # "none" /\ s.from < i /\ (s.step = "first" \/ i \in s.page \cup s.left)

ScansAhead ==
  sync.step = "scan" =>
    \A i \in Unread : sync.token < i \/ ToRead(i, Scan(feed[i].deck))

IInv ==
  /\ TypeOK
  /\ StartedFirst /\ AnsweredOpen
  /\ CursorBehindTasks /\ ScansAccount /\ ScansShaped
  /\ TokenBehindTasks /\ ScansAhead

\* What it means for a post to be owed.
LEMMA OwedUse ==
  ASSUME TypeOK, NEW i \in Owed
  PROVE  /\ i \in Nat /\ i >= 1 /\ i <= Now /\ i <= MaxChanges
         /\ feed[i].deck \in DOMAIN watches /\ feed[i].deck \in Decks
         /\ feed[i].work
         /\ watches[feed[i].deck] \in Watch(Now)
         /\ watches[feed[i].deck].answered < i
         /\ watches[feed[i].deck].answered # NotAnswered
<1>1. Now \in Nat /\ Now <= MaxChanges /\ MaxChanges \in Nat
  BY NowNat
<1>2. i \in 1 .. Now /\ feed[i].work /\ feed[i].deck \in DOMAIN watches
      /\ i > watches[feed[i].deck].answered
  BY DEF Owed
<1>3. DOMAIN watches \subseteq Decks /\ watches[feed[i].deck] \in Watch(Now)
  BY <1>2, PartialUse DEF TypeOK
<1>4. watches[feed[i].deck].answered \in 0 .. NotAnswered
  BY <1>3 DEF Watch
<1>5. QED
  BY <1>1, <1>2, <1>3, <1>4 DEF NotAnswered

\* A channel that was opened, or that somebody is opening, is what the owed
\* posts wait for.
LEMMA OwedOpen ==
  ASSUME TypeOK, AnsweredOpen, NEW i \in Owed
  PROVE  channel.open
BY OwedUse DEF AnsweredOpen

\* Nothing is owed that was not before.
LEMMA OwedKept ==
  ASSUME feed' = feed, watches' = watches
  PROVE  Owed' = Owed
BY DEF Owed, Now

\* Watches that end take what is owed with them.
LEMMA OwedRemoved ==
  ASSUME TypeOK, NEW D, Remove(D), feed' = feed
  PROVE  /\ Owed' \subseteq Owed
         /\ \A i \in Owed' : /\ feed[i].deck \notin D
                             /\ i \in tasks <=> i \in tasks'
                             /\ i \in missed <=> i \in missed'
                             /\ i \in skipped <=> i \in skipped'
<1>1. DOMAIN watches' = DOMAIN watches \ D
      /\ \A d \in DOMAIN watches \ D : watches'[d] = watches[d]
  BY WithoutValues DEF Remove
<1>2. \A i \in Owed' : i \in Owed /\ feed[i].deck \notin D
  BY <1>1 DEF Owed, Now
<1>3. QED
  BY <1>2 DEF Remove

\* The same for a watch that is answered for, which owes what is yet to come.
LEMMA OwedEnsured ==
  ASSUME TypeOK, StartedFirst, NEW u, Ensured(u), feed' = feed
  PROVE  Owed' \subseteq Owed /\ StartedFirst'
<1>1. Now \in Nat /\ Now <= MaxChanges /\ MaxChanges \in Nat
  BY NowNat
<1>2. CASE watches' = watches
  BY <1>2, OwedKept DEF StartedFirst
<1>3. CASE watches' = [d \in DOMAIN watches |->
                        IF d = work[u].deck /\ watches[d].answered = NotAnswered
                        THEN [watches[d] EXCEPT !.answered = Now] ELSE watches[d]]
  <2>1. DOMAIN watches' = DOMAIN watches /\ \A d \in DOMAIN watches : watches[d] \in Watch(Now)
    BY <1>3, PartialUse DEF TypeOK
  <2>2. \A d \in DOMAIN watches :
          \/ watches'[d] = watches[d]
          \/ watches'[d].answered = Now /\ watches'[d].since = watches[d].since
    BY <1>3, <2>1 DEF Watch
  <2>3. \A i \in Owed' : i \in Owed
    <3>1. SUFFICES ASSUME NEW i \in Owed' PROVE i \in Owed
      OBVIOUS
    <3>2. i \in 1 .. Now /\ feed[i].work /\ feed[i].deck \in DOMAIN watches
          /\ i > watches'[feed[i].deck].answered
      BY <2>1 DEF Owed, Now
    <3>3. watches'[feed[i].deck] = watches[feed[i].deck]
      BY <1>1, <2>2, <3>2
    <3>4. QED
      BY <3>2, <3>3 DEF Owed
  <2>4. StartedFirst'
    BY <1>1, <2>1, <2>2 DEF StartedFirst, Watch
  <2>5. QED
    BY <2>3, <2>4
<1>4. QED
  BY <1>2, <1>3 DEF Ensured

-----------------------------------------------------------------------------
\* Steps that at most take work away.

\* A page token that is not past work still to be read.
Safe(token) == \A i \in Unread : token < i

\* What is owed, recorded or passed stays so, as far as it is still owed.
Fewer ==
  /\ feed' = feed /\ Owed' \subseteq Owed
  /\ \A i \in Owed' : /\ i \in tasks => i \in tasks'
                      /\ i \in missed => i \in tasks' \cup missed'
                      /\ i \in skipped => i \in skipped'

LEMMA FewerUnread == Fewer => Unread' \subseteq Unread
BY DEF Fewer, Unread

LEMMA FewerRemoved ==
  ASSUME TypeOK, NEW D, Remove(D), feed' = feed
  PROVE  Fewer
BY OwedRemoved DEF Fewer

LEMMA FewerEnsured ==
  ASSUME TypeOK, StartedFirst, NEW u, Ensured(u), feed' = feed,
         tasks' = tasks, missed' = missed, skipped' = skipped
  PROVE  Fewer
BY OwedEnsured DEF Fewer

LEMMA TokensSafe ==
  ASSUME TokenBehindTasks
  PROVE  /\ channel.open => Safe(channel.token)
         /\ sync.step = "list" => Safe(sync.token)
         /\ \A u \in Users : work[u].step = "open" => Safe(work[u].token)
BY DEF TokenBehindTasks, Safe, Unread

LEMMA SafeTokens ==
  ASSUME Unread' \subseteq Unread,
         channel'.open => Safe(channel'.token),
         sync'.step = "list" => Safe(sync'.token),
         \A u \in Users : work'[u].step = "open" => Safe(work'[u].token)
  PROVE  TokenBehindTasks'
<1>1. SUFFICES ASSUME NEW i \in Unread'
               PROVE  /\ channel'.open => channel'.token < i
                      /\ sync'.step = "list" => sync'.token < i
                      /\ \A u \in Users : work'[u].step = "open" => work'[u].token < i
  BY DEF TokenBehindTasks, Unread
<1>2. QED
  BY <1>1 DEF Safe

LEMMA CursorKept ==
  ASSUME CursorBehindTasks, Fewer,
         \A i \in Owed' : feed[i].deck \in DOMAIN cursor' =>
           feed[i].deck \in DOMAIN cursor /\ cursor'[feed[i].deck] = cursor[feed[i].deck]
  PROVE  CursorBehindTasks'
BY DEF CursorBehindTasks, Fewer

\* A step that takes work away and leaves a post's scan as it is.
LEMMA AccountedKept ==
  ASSUME IInv, Fewer, NEW i \in Owed', sync'.scans[feed[i].deck] = sync.scans[feed[i].deck]
  PROVE  Accounted(i, Scan(feed[i].deck), tasks, skipped)'
<1>1. Accounted(i, Scan(feed[i].deck), tasks, skipped)
  BY DEF IInv, ScansAccount, Fewer
<1>2. QED
  BY <1>1 DEF Accounted, Scan, Fewer

\* No scan is under way.
LEMMA NoneScanned ==
  ASSUME TypeOK', sync'.scans = NoScans, sync'.step # "scan"
  PROVE  ScansAccount' /\ ScansShaped' /\ ScansAhead'
<1>1. \A d \in Decks : Scan(d)'.step = "none"
  BY DEF Scan, NoScans, NoScan
<1>2. ScansShaped'
  BY <1>1 DEF ScansShaped, Shape
<1>3. ScansAccount'
  <2>1. \A i \in Owed' : feed'[i].deck \in Decks
    BY PartialUse DEF Owed, TypeOK
  <2>2. QED
    BY <1>1, <2>1 DEF ScansAccount, Accounted
<1>4. QED
  BY <1>2, <1>3 DEF ScansAhead

\* The scans stay as they are.
LEMMA ScansKept ==
  ASSUME IInv, Fewer,
         sync'.step = sync.step, sync'.token = sync.token, sync'.scans = sync.scans
  PROVE  ScansAccount' /\ ScansShaped' /\ ScansAhead'
<1>1. ScansAccount'
  BY AccountedKept DEF ScansAccount, Fewer
<1>2. ScansShaped'
  BY DEF IInv, ScansShaped, Scan
<1>3. Unread' \subseteq Unread
  BY FewerUnread
<1>4. ScansAhead'
  BY <1>3 DEF IInv, ScansAhead, Scan, Fewer
<1>5. QED
  BY <1>1, <1>2, <1>4

\* A step that leaves the sync alone, but perhaps for its timer, and the cursors
\* of the decks that are still watched.
LEMMA QuietStep ==
  ASSUME IInv, TypeOK', Fewer,
         channel'.open => Safe(channel'.token),
         \A u \in Users : work'[u].step = "open" => Safe(work'[u].token),
         sync' = NoSync \/ /\ sync'.step = sync.step /\ sync'.token = sync.token
                           /\ sync'.scans = sync.scans,
         \A i \in Owed' : feed[i].deck \in DOMAIN cursor' =>
           feed[i].deck \in DOMAIN cursor /\ cursor'[feed[i].deck] = cursor[feed[i].deck]
  PROVE  CursorBehindTasks' /\ ScansAccount' /\ ScansShaped' /\ TokenBehindTasks' /\ ScansAhead'
<1>1. NoSync.step = "none" /\ NoSync.scans = NoScans
  BY DEF NoSync
<1>2. CursorBehindTasks'
  BY CursorKept DEF IInv
<1>3. ScansAccount' /\ ScansShaped' /\ ScansAhead'
  BY <1>1, NoneScanned, ScansKept
<1>4. TokenBehindTasks'
  <2>1. sync'.step = "list" => Safe(sync'.token)
    BY <1>1, TokensSafe DEF IInv
  <2>2. QED
    BY <2>1, FewerUnread, SafeTokens
<1>5. QED
  BY <1>2, <1>3, <1>4

\* What Remove leaves of the watches.
LEMMA RemoveKeeps ==
  ASSUME IInv, NEW D, Remove(D), feed' = feed, channel' = channel
  PROVE  StartedFirst' /\ AnsweredOpen' /\ Fewer
<1>1. /\ DOMAIN watches' = DOMAIN watches \ D
      /\ \A d \in DOMAIN watches \ D : watches'[d] = watches[d]
  BY WithoutValues DEF Remove
<1>2. StartedFirst' /\ AnsweredOpen'
  BY <1>1 DEF IInv, StartedFirst, AnsweredOpen
<1>3. QED
  BY <1>2, FewerRemoved DEF IInv

\* What a call or the sweep goes on to do opens no channel.
LEMMA DoesSafe ==
  ASSUME IInv, NEW u \in Users, NEW step, step # "open", Does(u, step)
  PROVE  \A v \in Users : work'[v].step = "open" => Safe(work'[v].token)
<1>1. \A v \in Users : v # u => work'[v] = work[v]
  BY DEF Does, IInv, TypeOK
<1>2. work'[u].step = step
  BY DEF Does, IInv, TypeOK, NoWork
<1>3. QED
  BY <1>1, <1>2, TokensSafe DEF IInv

-----------------------------------------------------------------------------
\* The steps.

\* A post that is new is in front of everything, and late for a scan between pages.
LEMMA ChangeStep ==
  ASSUME IInv, NEW d \in Busy, NEW isWork \in Kinds, Change(d, isWork)
  PROVE  IInv'
<1>1. /\ Now \in Nat /\ TypeOK' /\ Now' = Now + 1
      /\ \A i \in 1 .. Now : feed'[i] = feed[i]
      /\ feed'[Now + 1].deck = d
  <2>1. TypeOK' /\ Now' = Now + 1 /\ Now \in Nat
    BY ChangeType, NowNat DEF IInv
  <2>2. QED
    BY <2>1 DEF Change, IInv, TypeOK, Now
<1>2. \A i \in Owed' : i = Now + 1 \/ (i \in Owed /\ feed'[i] = feed[i])
  <2>1. SUFFICES ASSUME NEW i \in Owed', i # Now + 1
                 PROVE  i \in Owed /\ feed'[i] = feed[i]
    OBVIOUS
  <2>2. /\ i \in 1 .. Now' /\ feed'[i].work /\ feed'[i].deck \in DOMAIN watches
        /\ i > watches[feed'[i].deck].answered
    BY DEF Owed, Change
  <2>3. i \in 1 .. Now /\ feed'[i] = feed[i]
    BY <1>1, <2>1, <2>2
  <2>4. QED
    BY <2>2, <2>3 DEF Owed
<1>3. UNCHANGED <<watches, tasks, cursor, channel, work, missed, skipped>> /\ d \in Decks
  BY BoundAssumption DEF Change, history
<1>4. /\ \A e \in DOMAIN cursor : cursor[e] \in 0 .. Now
      /\ \A e \in Decks : Scan(e) \in Scans(Now)
  BY PartialUse DEF IInv, TypeOK, Sync, Scan
<1>5. /\ channel.token <= Now /\ sync.token <= Now
      /\ channel.token \in Nat /\ sync.token \in Nat
      /\ \A u \in Users : work[u].token <= Now /\ work[u].token \in Nat
  BY <1>1 DEF IInv, TypeOK, Sync, Work
<1>6. /\ sync'.step = sync.step /\ sync'.token = sync.token
      /\ \A e \in Decks : Scan(e)' = IF e = d /\ BetweenPages(d)
                                     THEN [Scan(d) EXCEPT !.late = @ \cup {Now + 1}] ELSE Scan(e)
  BY <1>3 DEF Change, Scan, BetweenPages, IInv, TypeOK, Sync
<1>7. StartedFirst' /\ AnsweredOpen'
  BY <1>3 DEF IInv, StartedFirst, AnsweredOpen
<1>8. CursorBehindTasks'
  <2>1. SUFFICES ASSUME NEW i \in Owed', i \notin skipped, feed'[i].deck \in DOMAIN cursor,
                        i <= cursor[feed'[i].deck]
                 PROVE  i \in tasks
    BY <1>3 DEF CursorBehindTasks
  <2>2. CASE i = Now + 1
    BY <1>1, <1>4, <2>1, <2>2
  <2>3. CASE i \in Owed /\ feed'[i] = feed[i]
    BY <2>1, <2>3 DEF IInv, CursorBehindTasks
  <2>4. QED
    BY <1>2, <2>2, <2>3
<1>9. ScansShaped'
  <2>1. \A e \in Decks : /\ Scan(e)'.step = Scan(e).step
                         /\ Scan(e)'.page = Scan(e).page /\ Scan(e)'.left = Scan(e).left
    BY <1>4, <1>6 DEF Scans
  <2>2. QED
    BY <2>1 DEF IInv, ScansShaped, Shape
<1>10. ASSUME NEW i \in Owed' 
       PROVE  Accounted(i, Scan(feed[i].deck), tasks, skipped)'
  <2>1. i \in 1 .. Now' /\ feed'[i].deck \in DOMAIN watches
    BY <1>3 DEF Owed
  <2>2. i \in Nat /\ feed'[i].deck \in Decks
    BY <1>1, <2>1, PartialUse DEF IInv, TypeOK
  <2>3. PICK e \in Decks : e = feed'[i].deck
    BY <2>2
  <2>4. /\ Scan(e)'.step = Scan(e).step /\ Scan(e)'.from = Scan(e).from
        /\ Scan(e)'.newest = Scan(e).newest /\ Scan(e)'.page = Scan(e).page
        /\ Scan(e)'.left = Scan(e).left /\ Scan(e).late \subseteq Scan(e)'.late
        /\ BetweenPages(d) /\ e = d => Now + 1 \in Scan(e)'.late
    BY <1>4, <1>6 DEF Scans
  <2>5. SUFFICES Accounted(i, Scan(e)', tasks, skipped)
    BY <1>3, <2>3 DEF Accounted, Scan
  <2>6. CASE i = Now + 1
    <3>1. e = d /\ ~ i <= Scan(e).from /\ ~ i <= Scan(e).newest
      BY <1>1, <1>4, <2>3, <2>6 DEF Scans
    <3>2. Scan(e).step \in {"page", "next"} => i \in Scan(e)'.late
      BY <2>4, <2>6, <3>1 DEF BetweenPages, Scan
    <3>3. QED
      BY <2>4, <3>1, <3>2 DEF Accounted
  <2>7. CASE i \in Owed /\ feed'[i] = feed[i]
    <3>1. Accounted(i, Scan(e), tasks, skipped)
      BY <2>3, <2>7 DEF IInv, ScansAccount
    <3>2. QED
      BY <2>4, <3>1 DEF Accounted
  <2>8. QED
    BY <1>2, <2>6, <2>7
<1>11. TokenBehindTasks'
  <2>1. SUFFICES ASSUME NEW i \in Owed', i \notin tasks \cup missed \cup skipped
                 PROVE  /\ channel.open => channel.token < i
                        /\ sync.step = "list" => sync.token < i
                        /\ \A u \in Users : work[u].step = "open" => work[u].token < i
    BY <1>3, <1>6 DEF TokenBehindTasks, Unread
  <2>2. CASE i = Now + 1
    BY <1>1, <1>5, <2>2
  <2>3. CASE i \in Owed /\ feed'[i] = feed[i]
    BY <2>1, <2>3 DEF IInv, TokenBehindTasks, Unread
  <2>4. QED
    BY <1>2, <2>2, <2>3
<1>12. ScansAhead'
  <2>1. SUFFICES ASSUME NEW i \in Owed', i \notin tasks \cup missed \cup skipped,
                        sync.step = "scan"
                 PROVE  sync.token < i \/ ToRead(i, Scan(feed[i].deck))'
    BY <1>3, <1>6 DEF ScansAhead, Unread
  <2>2. CASE i = Now + 1
    BY <1>1, <1>5, <2>2
  <2>3. CASE i \in Owed /\ feed'[i] = feed[i]
    <3>1. PICK e \in Decks : e = feed[i].deck /\ e = feed'[i].deck
      BY <2>3, OwedUse DEF IInv
    <3>2. sync.token < i \/ ToRead(i, Scan(e))
      BY <2>1, <2>3, <3>1 DEF IInv, ScansAhead, Unread
    <3>3. ToRead(i, Scan(e)) => ToRead(i, Scan(e)')
      BY <1>4, <1>6 DEF ToRead, Scans
    <3>4. QED
      BY <3>1, <3>2, <3>3 DEF ToRead, Scan
  <2>4. QED
    BY <1>2, <2>2, <2>3
<1>13. ScansAccount'
  BY <1>10 DEF ScansAccount
<1>14. QED
  BY <1>1, <1>7, <1>8, <1>9, <1>11, <1>12, <1>13 DEF IInv

\* Steps that only change what is under way.
LEMMA SameStep ==
  ASSUME IInv, TypeOK', UNCHANGED <<feed, watches, tasks, cursor, channel, missed, skipped>>,
         \A u \in Users : work'[u].step = "open" => Safe(work'[u].token),
         /\ sync'.step = sync.step /\ sync'.token = sync.token /\ sync'.scans = sync.scans
  PROVE  IInv'
<1>1. Owed' = Owed
  BY OwedKept
<1>2. Fewer
  BY <1>1 DEF Fewer
<1>3. channel'.open => Safe(channel'.token)
  BY TokensSafe DEF IInv
<1>4. StartedFirst' /\ AnsweredOpen'
  BY DEF IInv, StartedFirst, AnsweredOpen
<1>5. CursorBehindTasks' /\ ScansAccount' /\ ScansShaped' /\ TokenBehindTasks' /\ ScansAhead'
  BY <1>2, <1>3, QuietStep
<1>6. QED
  BY <1>4, <1>5 DEF IInv

LEMMA AskStep ==
  ASSUME IInv, TypeOK', NEW c \in Calls, NEW d \in Decks, WatchAsks(c, d) \/ WatchRefused(c)
  PROVE  IInv'
<1>1. c \in Users
  BY DEF Users
<1>2. work'[c].step # "open" /\ \A u \in Users : u # c => work'[u] = work[u]
  BY <1>1 DEF WatchAsks, WatchRefused, NoWork, IInv, TypeOK
<1>3. \A u \in Users : work'[u].step = "open" => Safe(work'[u].token)
  BY <1>2, TokensSafe DEF IInv
<1>4. QED
  BY <1>3, SameStep DEF WatchAsks, WatchRefused, history

\* A watch that is not answered for yet owes nothing.
LEMMA FileReadStep ==
  ASSUME IInv, TypeOK', NEW c \in Calls, FileRead(c)
  PROVE  IInv'
<1> DEFINE d == work[c].deck
           watch == [since |-> work[c].since, answered |-> NotAnswered]
<1>1. Now \in Nat /\ Now <= MaxChanges /\ MaxChanges \in Nat /\ c \in Users
  BY NowNat DEF IInv, Users
<1>2. UNCHANGED <<feed, tasks, cursor, channel, sync, missed, skipped>> /\ Does(c, "ensure")
  BY DEF FileRead, history
<1>3. \A u \in Users : work'[u].step = "open" => Safe(work'[u].token)
  BY <1>1, <1>2, DoesSafe
<1>4. CASE watches' = watches
  BY <1>2, <1>3, <1>4, SameStep
<1>5. CASE watches' = With(watches, d, watch)
  <2>1. /\ DOMAIN watches' = DOMAIN watches \cup {d}
        /\ \A e \in DOMAIN watches' : watches'[e] = IF e = d THEN watch ELSE watches[e]
    BY <1>5 DEF With
  <2>2. work[c].since \in 0 .. Now
    BY <1>1 DEF IInv, TypeOK, Work
  <2>3. StartedFirst'
    BY <1>1, <2>1, <2>2 DEF IInv, StartedFirst, NotAnswered
  <2>4. AnsweredOpen'
    BY <1>2, <2>1 DEF IInv, AnsweredOpen
  <2>5. \A i \in Owed' : i \in Owed
    <3>1. SUFFICES ASSUME NEW i \in Owed' PROVE i \in Owed
      OBVIOUS
    <3>2. i \in 1 .. Now /\ feed[i].work /\ feed[i].deck \in DOMAIN watches'
          /\ i > watches'[feed[i].deck].answered
      BY <1>2 DEF Owed, Now
    <3>3. feed[i].deck # d
      BY <1>1, <2>1, <3>2 DEF NotAnswered
    <3>4. QED
      BY <2>1, <3>2, <3>3 DEF Owed
  <2>6. Fewer
    BY <1>2, <2>5 DEF Fewer
  <2>7. channel'.open => Safe(channel'.token)
    BY <1>2, TokensSafe DEF IInv
  <2>8. CursorBehindTasks' /\ ScansAccount' /\ ScansShaped' /\ TokenBehindTasks' /\ ScansAhead'
    BY <1>2, <1>3, <2>6, <2>7, QuietStep
  <2>9. QED
    BY <2>3, <2>4, <2>8 DEF IInv
<1>6. QED
  BY <1>4, <1>5 DEF FileRead

\* Watches end: by a call, by the sweep, in a crash, or because a new watch got
\* no channel.
LEMMA RemoveStep ==
  ASSUME IInv, TypeOK', NEW D, Remove(D), UNCHANGED <<feed, cursor, channel>>,
         sync' = sync \/ sync' = NoSync,
         \A u \in Users : work'[u].step = "open" => Safe(work'[u].token)
  PROVE  IInv'
<1>1. StartedFirst' /\ AnsweredOpen' /\ Fewer
  BY RemoveKeeps
<1>2. channel'.open => Safe(channel'.token)
  BY TokensSafe DEF IInv
<1>3. CursorBehindTasks' /\ ScansAccount' /\ ScansShaped' /\ TokenBehindTasks' /\ ScansAhead'
  BY <1>1, <1>2, QuietStep
<1>4. QED
  BY <1>1, <1>3 DEF IInv

\* Work goes on with a removal.
LEMMA RemovingSafe ==
  ASSUME IInv, NEW u \in Users, NEW D, work' = [work EXCEPT ![u] = Removing(D)]
  PROVE  \A v \in Users : work'[v].step = "open" => Safe(work'[v].token)
<1>1. \A v \in Users : v # u => work'[v] = work[v]
  BY DEF IInv, TypeOK
<1>2. work'[u].step = "remove"
  BY DEF Removing, IInv, TypeOK, NoWork
<1>3. QED
  BY <1>1, <1>2, TokensSafe DEF IInv

\* A call or the sweep has its channel.
LEMMA EnsuredStep ==
  ASSUME IInv, TypeOK', NEW u \in Users, Ensured(u),
         UNCHANGED <<feed, tasks, cursor, missed, skipped>>,
         watches' = watches \/ channel'.open,
         channel' = channel \/ channel'.open,
         channel'.open => Safe(channel'.token)
  PROVE  IInv'
<1>1. Fewer /\ StartedFirst'
  BY FewerEnsured, OwedEnsured DEF IInv
<1>2. AnsweredOpen'
  BY DEF IInv, AnsweredOpen
<1>3. work'[u].step # "open" /\ \A v \in Users : v # u => work'[v] = work[v]
  BY DEF Ensured, NoWork, IInv, TypeOK
<1>4. \A v \in Users : work'[v].step = "open" => Safe(work'[v].token)
  BY <1>3, TokensSafe DEF IInv
<1>5. /\ sync'.step = sync.step /\ sync'.token = sync.token
      /\ sync'.scans = sync.scans
  BY DEF Ensured, IInv, TypeOK, Sync
<1>6. CursorBehindTasks' /\ ScansAccount' /\ ScansShaped' /\ TokenBehindTasks' /\ ScansAhead'
  BY <1>1, <1>4, <1>5, QuietStep
<1>7. QED
  BY <1>1, <1>2, <1>6 DEF IInv

LEMMA ChannelStepKeeps ==
  ASSUME IInv, TypeOK', NEW u \in Users, ChannelStep(u)
  PROVE  IInv'
<1>1. CASE EnsureChannel(u)
  BY <1>1, EnsuredStep, TokensSafe DEF EnsureChannel, history, IInv
<1>2. CASE ChannelMissing(u)
  <2>1. work'[u].token = IF channel.open THEN channel.token ELSE Now
    BY <1>2 DEF ChannelMissing, IInv, TypeOK, Work
  <2>2. \A v \in Users : v # u => work'[v] = work[v]
    BY <1>2 DEF ChannelMissing, IInv, TypeOK
  <2>3. Safe(work'[u].token)
    <3>1. CASE channel.open
      BY <2>1, <3>1, TokensSafe DEF IInv
    <3>2. CASE ~ channel.open
      BY <3>2, OwedOpen DEF IInv, Safe, Unread
    <3>3. QED
      BY <3>1, <3>2
  <2>4. \A v \in Users : work'[v].step = "open" => Safe(work'[v].token)
    BY <2>2, <2>3, TokensSafe DEF IInv
  <2>5. QED
    BY <1>2, <2>4, SameStep DEF ChannelMissing, history
<1>3. CASE ChannelOpened(u)
  <2>1. channel'.open /\ Safe(channel'.token)
    BY <1>3, TokensSafe DEF ChannelOpened, IInv
  <2>2. QED
    BY <1>3, <2>1, EnsuredStep DEF ChannelOpened, history
<1>4. CASE Removed(u)
  <2>1. \A v \in Users : work'[v].step = "open" => Safe(work'[v].token)
    BY <1>4, DoesSafe DEF Removed
  <2>2. UNCHANGED <<feed, watches, tasks, channel, missed, skipped>>
    BY <1>4 DEF Removed, history
  <2>3. Fewer
    BY <2>2, OwedKept DEF Fewer
  <2>4. sync'.step = sync.step /\ sync'.token = sync.token /\ sync'.scans = sync.scans
    BY <1>4 DEF Removed, IInv, TypeOK, Sync
  <2>5. \A i \in Owed' : feed[i].deck \in DOMAIN cursor' =>
          feed[i].deck \in DOMAIN cursor /\ cursor'[feed[i].deck] = cursor[feed[i].deck]
    <3>1. \A i \in Owed' : feed[i].deck \in DOMAIN watches
      BY <2>2 DEF Owed
    <3>2. cursor' = Without(cursor, work[u].gone \ DOMAIN watches)
      BY <1>4 DEF Removed
    <3>3. QED
      BY <3>1, <3>2 DEF Without, Restrict
  <2>6. StartedFirst' /\ AnsweredOpen'
    BY <2>2 DEF IInv, StartedFirst, AnsweredOpen
  <2>7. channel'.open => Safe(channel'.token)
    BY <2>2, TokensSafe DEF IInv
  <2>8. CursorBehindTasks' /\ ScansAccount' /\ ScansShaped' /\ TokenBehindTasks' /\ ScansAhead'
    BY <2>1, <2>3, <2>4, <2>5, <2>7, QuietStep
  <2>9. QED
    BY <2>6, <2>8 DEF IInv
<1>5. CASE IdleOwner(u)
  <2>1. \A v \in Users : work'[v].step = "open" => Safe(work'[v].token)
    BY <1>5, DoesSafe DEF IdleOwner
  <2>2. CASE channel' = channel
    BY <1>5, <2>1, <2>2, SameStep DEF IdleOwner, history
  <2>3. CASE DOMAIN watches = {} /\ channel' = Closed
    <3>1. Owed' = Owed /\ UNCHANGED <<feed, watches, tasks, cursor, sync, missed, skipped>>
      BY <1>5, OwedKept DEF IdleOwner, history
    <3>2. Fewer /\ ~ channel'.open
      BY <2>3, <3>1 DEF Fewer, Closed
    <3>3. StartedFirst' /\ AnsweredOpen'
      BY <2>3, <3>1 DEF IInv, StartedFirst, AnsweredOpen
    <3>4. CursorBehindTasks' /\ ScansAccount' /\ ScansShaped' /\ TokenBehindTasks' /\ ScansAhead'
      BY <2>1, <3>1, <3>2, QuietStep
    <3>5. QED
      BY <3>3, <3>4 DEF IInv
  <2>4. QED
    BY <1>5, <2>2, <2>3 DEF IdleOwner
<1>6. QED
  BY <1>1, <1>2, <1>3, <1>4, <1>5 DEF ChannelStep

LEMMA ChannelFailsKeeps ==
  ASSUME IInv, TypeOK', NEW u \in Users, ChannelFails(u)
  PROVE  IInv'
<1>1. CASE u = Sweep
  <2>1. /\ Ensured(u) /\ UNCHANGED <<feed, tasks, cursor, channel, missed, skipped>>
        /\ watches' = watches
    BY <1>1 DEF ChannelFails, Ensured, history
  <2>2. QED
    BY <2>1, EnsuredStep, TokensSafe DEF IInv
<1>2. CASE u # Sweep
  <2>1. PICK D : /\ Remove(D) /\ work' = [work EXCEPT ![u] = Removing(D)]
                 /\ UNCHANGED <<feed, cursor, channel, sync>>
    BY <1>2 DEF ChannelFails
  <2>2. \A v \in Users : work'[v].step = "open" => Safe(work'[v].token)
    BY <2>1, RemovingSafe
  <2>3. QED
    BY <2>1, <2>2, RemoveStep
<1>3. QED
  BY <1>1, <1>2

\* The decks D were listed: a post behind the new token that is not passed is
\* in a deck whose scan starts before it.
LEMMA ListedStep ==
  ASSUME IInv, TypeOK', NEW D, sync.step = "list", Listed(D),
         \A d \in sync.watched : Posts(d, sync.token) # {} => d \in D
  PROVE  IInv'
<1> DEFINE start(d) == IF d \in DOMAIN cursor THEN cursor[d] ELSE watches[d].since
<1>1. UNCHANGED <<feed, watches, tasks, cursor, channel, work, skipped>> /\ Now \in Nat
  BY NowNat DEF Listed, IInv
<1>2. Owed' = Owed /\ missed' = missed \cup UNION {Passed(d, sync.token) : d \in Decks \ sync.watched}
  BY <1>1, OwedKept DEF Listed
<1>3. Fewer
  BY <1>1, <1>2 DEF Fewer
<1>4. /\ sync'.step = "scan" /\ sync'.token = Now
      /\ \A d \in Decks : Scan(d)' = IF d \notin D \cap DOMAIN watches THEN NoScan
                                     ELSE NewScan(start(d))
  BY DEF Listed, Scan, IInv, TypeOK, Sync
<1>5. \A from : /\ NewScan(from).step = "first" /\ NewScan(from).from = from
                /\ NoScan.step = "none"
  BY DEF NewScan, NoScan
<1>6. ASSUME NEW i \in Owed, i \notin tasks \cup skipped
      PROVE  start(feed[i].deck) < i
  <2>1. /\ i \in Nat /\ feed[i].deck \in DOMAIN watches
        /\ watches[feed[i].deck] \in Watch(Now) /\ watches[feed[i].deck].answered < i
    BY OwedUse DEF IInv
  <2>2. watches[feed[i].deck].since < i
    BY <1>1, <2>1 DEF IInv, StartedFirst, Watch, NotAnswered
  <2>3. CASE feed[i].deck \in DOMAIN cursor
    <3>1. cursor[feed[i].deck] \in 0 .. Now /\ ~ i <= cursor[feed[i].deck]
      BY <1>6, <2>3, PartialUse DEF IInv, TypeOK, CursorBehindTasks
    <3>2. QED
      BY <1>1, <2>1, <2>3, <3>1
  <2>4. QED
    BY <2>2, <2>3
<1>7. StartedFirst' /\ AnsweredOpen'
  BY <1>1 DEF IInv, StartedFirst, AnsweredOpen
<1>8. CursorBehindTasks'
  BY <1>1, <1>3, CursorKept DEF IInv
<1>9. ScansShaped'
  BY <1>4, <1>5 DEF ScansShaped, Shape
<1>10. ScansAccount'
  <2>1. SUFFICES ASSUME NEW i \in Owed, feed[i].deck \in D \cap DOMAIN watches,
                        i <= start(feed[i].deck), i \notin tasks \cup skipped
                 PROVE  FALSE
    <3>1. \A i \in Owed : feed[i].deck \in Decks
      BY OwedUse DEF IInv
    <3>2. QED
      BY <1>1, <1>2, <1>4, <1>5, <3>1 DEF ScansAccount, Accounted
  <2>2. start(feed[i].deck) \in Nat
    <3>1. watches[feed[i].deck] \in Watch(Now)
      BY OwedUse DEF IInv
    <3>2. feed[i].deck \in DOMAIN cursor => cursor[feed[i].deck] \in 0 .. Now
      BY PartialUse DEF IInv, TypeOK
    <3>3. QED
      BY <1>1, <3>1, <3>2 DEF Watch
  <2>3. start(feed[i].deck) < i /\ i \in Nat
    BY <1>6, <2>1, OwedUse DEF IInv
  <2>4. QED
    BY <2>1, <2>2, <2>3
<1>11. TokenBehindTasks'
  <2>1. channel'.open => Safe(channel'.token)
    BY <1>1, TokensSafe DEF IInv
  <2>2. \A u \in Users : work'[u].step = "open" => Safe(work'[u].token)
    BY <1>1, TokensSafe DEF IInv
  <2>3. QED
    BY <1>3, <1>4, <2>1, <2>2, FewerUnread, SafeTokens
<1>12. ScansAhead'
  <2>1. SUFFICES ASSUME NEW i \in Owed, i \notin tasks, i \notin missed', i \notin skipped
                 PROVE  ToRead(i, Scan(feed[i].deck))'
    BY <1>1, <1>2 DEF ScansAhead, Unread
  <2>2. /\ i \in Nat /\ i >= 1 /\ i <= Now /\ feed[i].deck \in DOMAIN watches /\ feed[i].deck \in Decks
    BY OwedUse DEF IInv
  <2>3. sync.token < i /\ sync.token \in Nat
    BY <1>1, <1>2, <2>1 DEF IInv, TokenBehindTasks, Unread, TypeOK, Sync
  <2>4. i \in Posts(feed[i].deck, sync.token)
    BY <1>1, <2>2, <2>3 DEF Posts
  <2>5. feed[i].deck \in sync.watched
    BY <1>2, <2>1, <2>2, <2>4 DEF Passed
  <2>6. feed[i].deck \in D
    BY <2>4, <2>5
  <2>7. start(feed[i].deck) < i
    BY <1>6, <2>1
  <2>8. Scan(feed[i].deck)' = NewScan(start(feed[i].deck))
    BY <1>1, <1>4, <2>2, <2>6
  <2>9. QED
    BY <1>1, <1>5, <2>7, <2>8 DEF ToRead
<1>13. QED
  BY <1>7, <1>8, <1>9, <1>10, <1>11, <1>12 DEF IInv

\* A step of one scan, with its cursor or without.
LEMMA OneScanStep ==
  ASSUME IInv, TypeOK', NEW d \in Decks, NEW s, ScanIs(d, s),
         UNCHANGED <<feed, watches, channel, work>>, Fewer, CursorBehindTasks', Shape(s),
         \A i \in Owed : feed[i].deck = d => Accounted(i, s, tasks', skipped'),
         sync.step = "scan" =>
           \A i \in Unread' : feed[i].deck = d => sync.token < i \/ ToRead(i, s)
  PROVE  IInv'
<1>1. /\ sync'.step = sync.step /\ sync'.token = sync.token
      /\ \A e \in Decks : Scan(e)' = IF e = d THEN s ELSE Scan(e)
  BY DEF ScanIs, Scan, IInv, TypeOK, Sync
<1>2. Owed' = Owed /\ Unread' \subseteq Unread
  BY OwedKept, FewerUnread
<1>3. \A i \in Owed : feed[i].deck \in Decks
  BY OwedUse DEF IInv
<1>4. StartedFirst' /\ AnsweredOpen'
  BY DEF IInv, StartedFirst, AnsweredOpen
<1>5. ScansShaped'
  BY <1>1 DEF IInv, ScansShaped
<1>6. ScansAccount'
  <2>1. SUFFICES ASSUME NEW i \in Owed'
                 PROVE  Accounted(i, Scan(feed[i].deck), tasks, skipped)'
    BY DEF ScansAccount
  <2>2. CASE feed[i].deck = d
    BY <1>1, <1>2, <2>2 DEF Accounted
  <2>3. CASE feed[i].deck # d
    <3>1. Scan(feed[i].deck)' = Scan(feed[i].deck)
      BY <1>1, <1>2, <1>3, <2>3
    <3>2. QED
      BY <3>1, AccountedKept DEF Scan
  <2>4. QED
    BY <2>2, <2>3
<1>7. TokenBehindTasks'
  <2>1. /\ channel'.open => Safe(channel'.token)
        /\ sync'.step = "list" => Safe(sync'.token)
        /\ \A u \in Users : work'[u].step = "open" => Safe(work'[u].token)
    BY <1>1, TokensSafe DEF IInv
  <2>2. QED
    BY <1>2, <2>1, SafeTokens
<1>8. ScansAhead'
  <2>1. SUFFICES ASSUME NEW i \in Unread', sync.step = "scan"
                 PROVE  sync.token < i \/ ToRead(i, Scan(feed[i].deck))'
    BY <1>1 DEF ScansAhead
  <2>2. i \in Unread /\ feed[i].deck \in Decks
    BY <1>2, <1>3, <2>1 DEF Unread
  <2>3. CASE feed[i].deck = d
    BY <1>1, <2>1, <2>3 DEF ToRead
  <2>4. CASE feed[i].deck # d
    BY <1>1, <2>1, <2>2, <2>4 DEF IInv, ScansAhead, ToRead
  <2>5. QED
    BY <2>3, <2>4
<1>9. QED
  BY <1>4, <1>5, <1>6, <1>7, <1>8 DEF IInv

\* Work that is owed, on the scan's page, is recorded once nothing is left to record.
LEMMA Recorded ==
  ASSUME IInv, NEW d \in Decks, NEW s \in Scans(Now), Unrecorded(d, s) = {},
         NEW i \in Owed, feed[i].deck = d, s.from < i, i \in s.page
  PROVE  i \in tasks
<1>1. /\ i \in Nat /\ i >= 1 /\ i <= Now /\ feed[i].work /\ d \in DOMAIN watches /\ Now \in Nat
      /\ watches[d] \in Watch(Now) /\ watches[d].answered < i
  BY OwedUse, NowNat DEF IInv
<1>2. watches[d].since < i /\ watches[d].since \in Nat /\ s.from \in Nat
  BY <1>1 DEF IInv, StartedFirst, Watch, NotAnswered, Scans
<1>3. i \in WorkFor(d, watches[d].since, s.from)
  BY <1>1, <1>2 DEF WorkFor, Posts
<1>4. QED
  BY <1>1, <1>3 DEF Unrecorded

\* Going on from a page loses nothing.
LEMMA OnwardKeeps ==
  ASSUME IInv, NEW d \in Decks, NEW s \in Scans(Now), s.step \in {"page", "last"},
         s.step = "last" => s.left = {}
  PROVE  /\ Shape(Onward(d, s))
         /\ \A i \in Owed : feed[i].deck = d =>
              /\ Accounted(i, s, tasks, skipped) => Accounted(i, Onward(d, s), tasks, skipped)
              /\ i \notin tasks /\ ToRead(i, s) => ToRead(i, Onward(d, s))
<1>1. CASE Unrecorded(d, s) # {}
  BY <1>1 DEF Onward, Shape
<1>2. CASE Unrecorded(d, s) = {}
  <2> DEFINE o == Onward(d, s)
  <2>1. /\ o.page = {} /\ o.left = s.left /\ o.late = s.late
        /\ o.from = s.from /\ o.newest = s.newest
        /\ o.step = IF s.step = "page" THEN "next" ELSE "cursor"
    BY <1>2 DEF Onward, Scans
  <2> HIDE DEF o
  <2>2. Shape(o)
    BY <2>1 DEF Shape
  <2>3. ASSUME NEW i \in Owed, feed[i].deck = d, Accounted(i, s, tasks, skipped)
        PROVE  Accounted(i, o, tasks, skipped)
    <3>1. s.from < i /\ i \in s.page => i \in tasks
      BY <1>2, <2>3, Recorded
    <3>2. QED
      BY <2>1, <2>3, <3>1 DEF Accounted
  <2>4. ASSUME NEW i \in Owed, feed[i].deck = d, i \notin tasks, ToRead(i, s)
        PROVE  ToRead(i, o)
    <3>1. s.from < i /\ i \in s.page => i \in tasks
      BY <1>2, <2>4, Recorded
    <3>2. QED
      BY <2>1, <2>4, <3>1 DEF ToRead
  <2>5. QED
    BY <2>2, <2>3, <2>4 DEF o
<1>3. QED
  BY <1>1, <1>2

\* A page shows some of what is left, and some of what is late.
LEMMA PageReadStep ==
  ASSUME IInv, TypeOK', NEW d \in Decks, PageRead(d)
  PROVE  IInv'
<1> DEFINE s == Scan(d)
           left == IF s.step = "first" THEN Posts(d, s.from) ELSE s.left
<1>1. /\ UNCHANGED <<feed, watches, tasks, cursor, channel, work, missed, skipped>>
      /\ s.step \in {"first", "next"} /\ s \in Scans(Now) /\ Now \in Nat
  BY NowNat DEF PageRead, history, IInv, TypeOK, Sync, Scan
<1>2. PICK page \in SUBSET Posts(d, s.from), step \in {"page", "last"} :
        /\ step = "last" => left \subseteq page
        /\ \E newest \in {s.newest} \cup page :
             ScanIs(d, Onward(d, [s EXCEPT !.step = step, !.newest = newest, !.page = page,
                                           !.left = left \ page, !.late = @ \ page]))
  BY DEF PageRead
<1>3. PICK newest \in {s.newest} \cup page :
        ScanIs(d, Onward(d, [s EXCEPT !.step = step, !.newest = newest, !.page = page,
                                      !.left = left \ page, !.late = @ \ page]))
  BY <1>2
<1> DEFINE new == [s EXCEPT !.step = step, !.newest = newest, !.page = page,
                            !.left = left \ page, !.late = @ \ page]
<1>4. /\ new.step = step /\ new.from = s.from /\ new.page = page
      /\ new.left = left \ page /\ new.late = s.late \ page
  BY <1>1 DEF Scans
<1>5. new \in Scans(Now)
  <2>1. Posts(d, s.from) \subseteq 1 .. Now
    BY <1>1 DEF Posts, Scans
  <2>2. page \subseteq 1 .. Now /\ left \subseteq 1 .. Now /\ newest \in 0 .. Now
    BY <1>1, <2>1 DEF Scans
  <2> HIDE DEF left, s
  <2>3. QED
    BY <1>1, <2>2 DEF Scans
<1>6. new.step = "last" => new.left = {}
  BY <1>2, <1>4
<1>7. ASSUME NEW i \in Owed, feed[i].deck = d
      PROVE  /\ Accounted(i, new, tasks, skipped)
             /\ ToRead(i, s) => ToRead(i, new)
  <2>1. Accounted(i, s, tasks, skipped)
    BY <1>7 DEF IInv, ScansAccount
  <2>2. s.step = "first" /\ s.from < i => i \in left
    <3>1. i \in Nat /\ i >= 1 /\ i <= Now
      BY OwedUse DEF IInv
    <3>2. QED
      BY <1>1, <1>7, <3>1 DEF Posts, Scans
  <2>3. s.step = "next" => s.page = {} /\ left = s.left
    BY DEF IInv, ScansShaped, Shape
  <2> HIDE DEF left, s, new
  <2>4. Accounted(i, new, tasks, skipped)
    BY <1>1, <1>4, <2>1, <2>2, <2>3 DEF Accounted
  <2>5. ToRead(i, s) => ToRead(i, new)
    BY <1>1, <1>4, <2>2, <2>3 DEF ToRead
  <2>6. QED
    BY <2>4, <2>5
<1> HIDE DEF new, left
<1>8. /\ Shape(Onward(d, new))
      /\ \A i \in Owed : feed[i].deck = d =>
           /\ Accounted(i, new, tasks, skipped) => Accounted(i, Onward(d, new), tasks, skipped)
           /\ i \notin tasks /\ ToRead(i, new) => ToRead(i, Onward(d, new))
  BY <1>4, <1>5, <1>6, OnwardKeeps
<1>9. Owed' = Owed /\ Fewer
  BY <1>1, OwedKept DEF Fewer
<1>10. CursorBehindTasks'
  BY <1>1, <1>9, CursorKept DEF IInv
<1>11. ScanIs(d, Onward(d, new))
  BY <1>3 DEF new, left
<1>12. \A i \in Owed : feed[i].deck = d => Accounted(i, Onward(d, new), tasks', skipped')
  BY <1>1, <1>7, <1>8
<1>13. ASSUME sync.step = "scan", NEW i \in Unread', feed[i].deck = d
       PROVE  sync.token < i \/ ToRead(i, Onward(d, new))
  <2>1. i \in Unread /\ i \in Owed /\ i \notin tasks
    BY <1>1, <1>9, <1>13, FewerUnread DEF Unread
  <2>2. sync.token < i \/ ToRead(i, s)
    BY <1>13, <2>1 DEF IInv, ScansAhead
  <2>3. QED
    BY <1>7, <1>8, <1>13, <2>1, <2>2
<1>14. QED
  BY <1>1, <1>8, <1>9, <1>10, <1>11, <1>12, <1>13, OneScanStep

LEMMA PageDoneStep ==
  ASSUME IInv, TypeOK', NEW d \in Decks, PageDone(d)
  PROVE  IInv'
<1> DEFINE s == Scan(d)
<1>1. /\ UNCHANGED <<feed, watches, tasks, cursor, channel, work, missed, skipped>>
      /\ s.step \in {"page", "last"} /\ s \in Scans(Now) /\ ScanIs(d, Onward(d, s))
  BY DEF PageDone, history, IInv, TypeOK, Sync, Scan
<1>2. s.step = "last" => s.left = {}
  BY DEF IInv, ScansShaped, Shape
<1>3. /\ Shape(Onward(d, s))
      /\ \A i \in Owed : feed[i].deck = d =>
           /\ Accounted(i, s, tasks, skipped) => Accounted(i, Onward(d, s), tasks, skipped)
           /\ i \notin tasks /\ ToRead(i, s) => ToRead(i, Onward(d, s))
  BY <1>1, <1>2, OnwardKeeps
<1>4. Owed' = Owed /\ Fewer
  BY <1>1, OwedKept DEF Fewer
<1>5. CursorBehindTasks'
  BY <1>1, <1>4, CursorKept DEF IInv
<1>6. \A i \in Owed : feed[i].deck = d => Accounted(i, Onward(d, s), tasks', skipped')
  BY <1>1, <1>3 DEF IInv, ScansAccount
<1>7. ASSUME sync.step = "scan", NEW i \in Unread', feed[i].deck = d
      PROVE  sync.token < i \/ ToRead(i, Onward(d, s))
  <2>1. i \in Unread /\ i \in Owed /\ i \notin tasks
    BY <1>4, <1>7, FewerUnread DEF Unread
  <2>2. sync.token < i \/ ToRead(i, s)
    BY <1>7, <2>1 DEF IInv, ScansAhead
  <2>3. QED
    BY <1>3, <1>7, <2>1, <2>2
<1> HIDE DEF s
<1>8. QED
  BY <1>1, <1>3, <1>4, <1>5, <1>6, <1>7, OneScanStep

LEMMA TaskPutStep ==
  ASSUME IInv, TypeOK', NEW d \in Decks, TaskPut(d)
  PROVE  IInv'
<1>1. UNCHANGED <<feed, watches, cursor, channel, work, sync, skipped>>
  BY DEF TaskPut
<1>2. PICK i : tasks' = tasks \cup {i} /\ missed' = missed \ {i}
  BY DEF TaskPut
<1>3. Owed' = Owed /\ Fewer
  BY <1>1, <1>2, OwedKept DEF Fewer
<1>4. StartedFirst' /\ AnsweredOpen'
  BY <1>1 DEF IInv, StartedFirst, AnsweredOpen
<1>5. /\ channel'.open => Safe(channel'.token)
      /\ \A u \in Users : work'[u].step = "open" => Safe(work'[u].token)
  BY <1>1, TokensSafe DEF IInv
<1>6. CursorBehindTasks' /\ ScansAccount' /\ ScansShaped' /\ TokenBehindTasks' /\ ScansAhead'
  BY <1>1, <1>3, <1>5, QuietStep
<1>7. QED
  BY <1>4, <1>6 DEF IInv

\* The cursor passes what the scan has recorded, and the late posts up to its newest.
LEMMA CursorPutStep ==
  ASSUME IInv, TypeOK', NEW d \in Decks, CursorPut(d)
  PROVE  IInv'
<1> DEFINE s == Scan(d)
<1>1. /\ UNCHANGED <<feed, watches, tasks, channel, work, missed>>
      /\ s.step = "cursor" /\ s \in Scans(Now) /\ s.page = {} /\ s.left = {}
      /\ cursor' = With(cursor, d, s.newest) /\ ScanIs(d, NoScan)
      /\ skipped' = skipped \cup {i \in Owed \cap s.late : i <= s.newest}
  BY DEF CursorPut, IInv, TypeOK, Sync, Scan, ScansShaped, Shape
<1>2. Owed' = Owed /\ Fewer
  BY <1>1, OwedKept DEF Fewer
<1>3. ASSUME NEW i \in Owed, feed[i].deck = d, i <= s.newest
      PROVE  i \in tasks \cup skipped'
  <2>1. Accounted(i, s, tasks, skipped)
    BY <1>3 DEF IInv, ScansAccount
  <2>2. i \in Nat /\ s.from \in Nat
    BY <1>1, OwedUse, NowNat DEF IInv, Scans
  <2> HIDE DEF s
  <2>3. CASE i <= s.from
    BY <1>1, <2>1, <2>3 DEF Accounted
  <2>4. CASE s.from < i
    BY <1>1, <1>3, <2>1, <2>4 DEF Accounted
  <2>5. QED
    BY <2>2, <2>3, <2>4
<1>4. CursorBehindTasks'
  <2>1. SUFFICES ASSUME NEW i \in Owed, i \notin skipped', feed[i].deck \in DOMAIN cursor',
                        i <= cursor'[feed[i].deck]
                 PROVE  i \in tasks
    BY <1>1, <1>2 DEF CursorBehindTasks
  <2>2. CASE feed[i].deck = d
    <3>1. cursor'[d] = s.newest
      BY <1>1 DEF With
    <3>2. QED
      BY <1>3, <2>1, <2>2, <3>1
  <2>3. CASE feed[i].deck # d
    <3>1. feed[i].deck \in DOMAIN cursor /\ cursor'[feed[i].deck] = cursor[feed[i].deck]
      BY <1>1, <2>1, <2>3 DEF With
    <3>2. QED
      BY <1>1, <2>1, <3>1 DEF IInv, CursorBehindTasks
  <2>4. QED
    BY <2>2, <2>3
<1>5. ASSUME sync.step = "scan", NEW i \in Unread', feed[i].deck = d
      PROVE  sync.token < i
  <2>1. i \in Unread
    BY <1>2, <1>5, FewerUnread
  <2>2. sync.token < i \/ ToRead(i, s)
    BY <1>5, <2>1 DEF IInv, ScansAhead
  <2>3. QED
    BY <1>1, <2>2 DEF ToRead
<1>6. NoScan.step = "none"
  BY DEF NoScan
<1>7. Shape(NoScan) /\ \A i \in Owed : Accounted(i, NoScan, tasks', skipped')
  BY <1>6 DEF Shape, Accounted
<1> HIDE DEF s
<1>8. QED
  BY <1>1, <1>2, <1>4, <1>5, <1>7, OneScanStep

LEMMA ScanStepKeeps ==
  ASSUME IInv, TypeOK', NEW d \in Decks, ScanStep(d)
  PROVE  IInv'
BY PageReadStep, PageDoneStep, TaskPutStep, CursorPutStep DEF ScanStep

\* What a failed scan leaves behind the new token is passed.
LEMMA ScanFailsStep ==
  ASSUME IInv, TypeOK', NEW d \in Decks, ScanFails(d)
  PROVE  IInv'
<1> DEFINE s == Scan(d)
<1>1. /\ UNCHANGED <<feed, watches, tasks, cursor, channel, work, skipped>> /\ Now \in Nat
      /\ ScanIs(d, NoScan) /\ s \in Scans(Now)
      /\ missed' = missed \cup {i \in Passed(d, s.from) : i <= sync.token}
  BY NowNat DEF ScanFails, IInv, TypeOK, Sync, Scan
<1>2. Owed' = Owed /\ Fewer
  BY <1>1, OwedKept DEF Fewer
<1>3. CursorBehindTasks'
  BY <1>1, <1>2, CursorKept DEF IInv
<1>4. ASSUME sync.step = "scan", NEW i \in Unread', feed[i].deck = d
      PROVE  sync.token < i
  <2>1. i \in Unread /\ i \in Owed /\ i \notin tasks /\ i \notin missed'
    BY <1>1, <1>2, <1>4, FewerUnread DEF Unread
  <2>2. sync.token < i \/ s.from < i
    BY <1>4, <2>1 DEF IInv, ScansAhead, ToRead
  <2> HIDE DEF s
  <2>3. i \in Nat /\ i >= 1 /\ i <= Now /\ s.from \in Nat /\ sync.token \in Nat
    <3>1. i \in Nat /\ i >= 1 /\ i <= Now
      BY <2>1, OwedUse DEF IInv
    <3>2. s.from \in Nat
      BY <1>1 DEF Scans
    <3>3. sync.token \in Nat
      BY <1>1 DEF IInv, TypeOK, Sync
    <3>4. QED
      BY <3>1, <3>2, <3>3
  <2>4. CASE s.from < i /\ i <= sync.token
    <3>1. i \in Passed(d, s.from)
      BY <1>1, <1>4, <2>1, <2>3, <2>4 DEF Passed, Posts
    <3>2. QED
      BY <1>1, <2>1, <2>4, <3>1
  <2>5. QED
    BY <2>2, <2>3, <2>4
<1>5. NoScan.step = "none"
  BY DEF NoScan
<1>6. Shape(NoScan) /\ \A i \in Owed : Accounted(i, NoScan, tasks', skipped')
  BY <1>5 DEF Shape, Accounted
<1> HIDE DEF s
<1>7. QED
  BY <1>1, <1>2, <1>3, <1>4, <1>6, OneScanStep

\* A sync begins, or ends and perhaps begins once more, with a token that passes
\* nothing to be read.
LEMMA BegunStep ==
  ASSUME IInv, TypeOK', NEW s, NEW token, channel.open => Safe(token),
         sync' = Begun(s, token) \/ sync' = Ended(s, token),
         UNCHANGED <<feed, watches, tasks, cursor, missed, skipped, work>>,
         AnsweredOpen', channel'.open => Safe(channel'.token)
  PROVE  IInv'
<1>1. Owed' = Owed
  BY OwedKept
<1>2. Fewer
  BY <1>1 DEF Fewer
<1>3. \/ sync' = [NoSync EXCEPT !.timer = s.timer]
      \/ channel.open /\ sync' = [NoSync EXCEPT !.timer = s.timer, !.step = "list",
                                   !.watched = DOMAIN watches, !.token = token]
  BY DEF Begun, Ended
<1>4. /\ sync'.step = "none" \/ (sync'.step = "list" /\ channel.open /\ sync'.token = token)
      /\ sync'.scans = NoScans
  <2>1. CASE sync' = [NoSync EXCEPT !.timer = s.timer]
    BY <2>1 DEF NoSync
  <2>2. CASE channel.open /\ sync' = [NoSync EXCEPT !.timer = s.timer, !.step = "list",
                                      !.watched = DOMAIN watches, !.token = token]
    BY <2>2 DEF NoSync
  <2>3. QED
    BY <1>3, <2>1, <2>2
<1>5. StartedFirst'
  BY DEF IInv, StartedFirst
<1>6. CursorBehindTasks'
  BY <1>2, CursorKept DEF IInv
<1>7. ScansAccount' /\ ScansShaped' /\ ScansAhead'
  BY <1>4, NoneScanned
<1>8. TokenBehindTasks'
  <2>1. /\ sync'.step = "list" => Safe(sync'.token)
        /\ \A u \in Users : work'[u].step = "open" => Safe(work'[u].token)
    BY <1>4, TokensSafe DEF IInv
  <2>2. QED
    BY <1>2, <2>1, FewerUnread, SafeTokens
<1>9. QED
  BY <1>5, <1>6, <1>7, <1>8 DEF IInv

LEMMA SyncStepKeeps ==
  ASSUME IInv, TypeOK', TimerFires \/ ChangesListed \/ SyncFault \/ TokenSaved
  PROVE  IInv'
<1>1. channel.open => Safe(channel.token)
  BY TokensSafe DEF IInv
<1>2. CASE TimerFires
  <2>1. CASE sync.step = "none"
    <3>1. AnsweredOpen'
      BY <1>2 DEF TimerFires, IInv, AnsweredOpen
    <3>2. QED
      BY <1>1, <1>2, <2>1, <3>1, BegunStep DEF TimerFires, history
  <2>2. CASE sync.step # "none"
    <3>1. /\ sync'.step = sync.step /\ sync'.token = sync.token
          /\ sync'.scans = sync.scans
      BY <1>2, <2>2 DEF TimerFires, IInv, TypeOK, Sync
    <3>2. \A u \in Users : work'[u].step = "open" => Safe(work'[u].token)
      BY <1>2, TokensSafe DEF TimerFires, IInv
    <3>3. QED
      BY <1>2, <3>1, <3>2, SameStep DEF TimerFires, history
  <2>3. QED
    BY <2>1, <2>2
<1>3. CASE ChangesListed
  <2>1. Listed({d \in sync.watched : Posts(d, sync.token) # {}}) /\ sync.step = "list"
    BY <1>3 DEF ChangesListed, Listed
  <2>2. QED
    BY <2>1, ListedStep
<1>4. CASE TokenInvalid
  <2>1. Listed(sync.watched) /\ sync.step = "list"
    BY <1>4 DEF TokenInvalid, Listed
  <2>2. QED
    BY <2>1, ListedStep
<1>5. CASE ListFails
  <2>1. AnsweredOpen'
    BY <1>5 DEF ListFails, IInv, AnsweredOpen
  <2>2. QED
    BY <1>1, <1>5, <2>1, BegunStep DEF ListFails, history
<1>6. ASSUME NEW d \in Decks, ScanFails(d)
      PROVE  IInv'
  BY <1>6, ScanFailsStep
<1>7. CASE TokenSaved
  <2>1. Safe(sync.token)
    <3>1. \A i \in Unread : feed[i].deck \in Decks
      BY OwedUse DEF IInv, Unread
    <3>2. \A d \in Decks : Scan(d).step = "none"
      BY <1>7 DEF TokenSaved, Scan, NoScans, NoScan
    <3>3. QED
      BY <1>7, <3>1, <3>2 DEF TokenSaved, IInv, ScansAhead, ToRead, Safe
  <2>2. channel'.open => channel.open /\ channel'.token = sync.token
    BY <1>7 DEF TokenSaved, IInv, TypeOK
  <2>3. AnsweredOpen'
    BY <1>7 DEF TokenSaved, IInv, TypeOK, AnsweredOpen
  <2>4. QED
    BY <1>7, <2>1, <2>2, <2>3, BegunStep DEF TokenSaved, history
<1>8. QED
  BY <1>2, <1>3, <1>4, <1>5, <1>6, <1>7 DEF SyncFault

-----------------------------------------------------------------------------
LEMMA Start == Init => IInv
<1> SUFFICES ASSUME Init PROVE IInv
  OBVIOUS
<1>1. TypeOK
  BY TypeInit
<1>2. Owed = {} /\ Unread = {} /\ DOMAIN watches = {}
  BY DEF Init, Owed, Unread, Now, NoEntries
<1>3. \A d \in Decks : Scan(d).step = "none"
  BY DEF Init, Scan, NoSync, NoScans, NoScan
<1>4. QED
  BY <1>1, <1>2, <1>3 DEF IInv, StartedFirst, AnsweredOpen, CursorBehindTasks,
       ScansAccount, ScansShaped, Shape, TokenBehindTasks, ScansAhead

LEMMA Step == IInv /\ [Next]_vars => IInv'
<1> SUFFICES ASSUME IInv, [Next]_vars PROVE IInv'
  OBVIOUS
<1>1. TypeOK'
  BY TypeStep DEF IInv
<1>2. ASSUME NEW d \in Busy, NEW isWork \in Kinds, Change(d, isWork)
      PROVE  IInv'
  BY <1>2, ChangeStep
<1>3. CASE PushArrives
  <2>1. sync'.step = sync.step /\ sync'.token = sync.token /\ sync'.scans = sync.scans
    BY <1>3 DEF PushArrives, IInv, TypeOK, Sync
  <2>2. \A u \in Users : work'[u].step = "open" => Safe(work'[u].token)
    BY <1>3, TokensSafe DEF PushArrives, IInv
  <2>3. QED
    BY <1>1, <1>3, <2>1, <2>2, SameStep DEF PushArrives, history
<1>4. ASSUME NEW c \in Calls, CallStep(c)
      PROVE  IInv'
  <2>1. ASSUME NEW d \in Decks, WatchAsks(c, d)
        PROVE  IInv'
    BY <1>1, <2>1, AskStep
  <2>2. CASE WatchRefused(c)
    BY <1>1, <2>2, DecksAssumption, AskStep
  <2>3. CASE FileRead(c)
    BY <1>1, <2>3, FileReadStep
  <2>4. ASSUME NEW D, WatchesEnd(c, D)
        PROVE  IInv'
    <3>1. \A v \in Users : work'[v].step = "open" => Safe(work'[v].token)
      BY <2>4, RemovingSafe DEF WatchesEnd, Users
    <3>2. QED
      BY <1>1, <2>4, <3>1, RemoveStep DEF WatchesEnd
  <2>5. QED
    BY <1>4, <2>1, <2>2, <2>3, <2>4 DEF CallStep
<1>5. ASSUME NEW u \in Users, ChannelStep(u) \/ ChannelFails(u)
      PROVE  IInv'
  BY <1>1, <1>5, ChannelStepKeeps, ChannelFailsKeeps
<1>6. ASSUME NEW D, SweepFires(D)
      PROVE  IInv'
  <2>1. \A v \in Users : work'[v].step = "open" => Safe(work'[v].token)
    BY <1>6, DoesSafe, RemovingSafe DEF SweepFires, Users
  <2>2. QED
    BY <1>1, <1>6, <2>1, RemoveStep DEF SweepFires
<1>7. ASSUME NEW D, Crash(D)
      PROVE  IInv'
  <2>1. \A v \in Users : work'[v].step # "open"
    BY <1>7 DEF Crash, Removing, NoWork
  <2>2. QED
    BY <1>1, <1>7, <2>1, RemoveStep DEF Crash
<1>8. CASE TimerFires \/ ChangesListed \/ SyncFault \/ TokenSaved
  BY <1>1, <1>8, SyncStepKeeps
<1>9. ASSUME NEW d \in Decks, ScanStep(d)
      PROVE  IInv'
  BY <1>1, <1>9, ScanStepKeeps
<1>10. CASE UNCHANGED vars
  <2>1. \A u \in Users : work'[u].step = "open" => Safe(work'[u].token)
    BY <1>10, TokensSafe DEF vars, IInv
  <2>2. QED
    BY <1>1, <1>10, <2>1, SameStep DEF vars, history
<1>11. QED
  BY <1>2, <1>3, <1>4, <1>5, <1>6, <1>7, <1>8, <1>9, <1>10 DEF Next, SweepStep

\* Whatever fails, ends or restarts, the invariant holds.
THEOREM Progress == Spec => []IInv
<1>1. Init => IInv
  BY Start
<1>2. IInv /\ [Next]_vars => IInv'
  BY Step
<1>3. QED
  BY <1>1, <1>2, PTL DEF Spec

\* No deck's cursor passes work that is not recorded, but for a post made between two
\* pages of a listing and on neither (scanDeck), for any decks, calls, changes and
\* faults: not that of a scan that failed at a page, that was interrupted between its
\* tasks and its cursor, or that began under an earlier watch of the deck.
THEOREM CursorsPassNothing == Spec => []CursorBehindTasks
<1>1. IInv => CursorBehindTasks
  BY DEF IInv
<1>2. QED
  BY <1>1, Progress, PTL

\* No page token, in the channel, in a sync or in the hands of who replaces the
\* channel, passes work that is neither recorded nor passed, by a sync that did not
\* read it or between two pages (syncOnce, ensureChannel).
THEOREM TokensPassNothing == Spec => []TokenBehindTasks
<1>1. IInv => TokenBehindTasks
  BY DEF IInv
<1>2. QED
  BY <1>1, Progress, PTL

-----------------------------------------------------------------------------
\* A deck that was answered for has the sweep.

Answered == \E d \in DOMAIN watches : watches[d].answered # NotAnswered

SweepRuns == Answered => armed \/ work[Sweep].step # "none"

\* Nothing but its answer makes a watch one that is answered for.
LEMMA AnsweredKept ==
  ASSUME TypeOK, watches' = watches \/ (\E D : Remove(D)) \/ (\E c \in Calls : FileRead(c))
  PROVE  Answered' => Answered
<1>1. CASE watches' = watches
  BY <1>1 DEF Answered
<1>2. ASSUME NEW D, Remove(D)
      PROVE  Answered' => Answered
  <2>1. watches' = Without(watches, D)
    BY <1>2 DEF Remove
  <2>2. QED
    BY <2>1 DEF Answered, Without, Restrict
<1>3. ASSUME NEW c \in Calls, FileRead(c)
      PROVE  Answered' => Answered
  BY <1>3 DEF FileRead, With, Answered
<1>4. QED
  BY <1>1, <1>2, <1>3

LEMMA SweepRunsStep == TypeOK /\ SweepRuns /\ [Next]_vars => SweepRuns'
<1> SUFFICES ASSUME TypeOK, SweepRuns, [Next]_vars PROVE SweepRuns'
  OBVIOUS
<1>1. Sweep \in Users /\ \A c \in Calls : c # Sweep /\ c \in Users
  BY DecksAssumption DEF Users
<1>2. ASSUME Answered' => Answered, armed' = armed, work'[Sweep] = work[Sweep]
      PROVE  SweepRuns'
  BY <1>2 DEF SweepRuns
<1>3. ASSUME NEW u \in Users, Ensured(u)
      PROVE  SweepRuns'
  BY <1>3 DEF Ensured, SweepRuns, Answered
<1>4. ASSUME NEW u \in Users, NEW step, Does(u, step)
      PROVE  /\ u # Sweep => work'[Sweep] = work[Sweep]
             /\ u = Sweep => work'[Sweep].step = step
  BY <1>1, <1>4 DEF Does, TypeOK, NoWork
<1>5. ASSUME NEW u \in Users, NEW D, work' = [work EXCEPT ![u] = Removing(D)]
      PROVE  /\ u # Sweep => work'[Sweep] = work[Sweep]
             /\ u = Sweep => work'[Sweep].step = "remove"
  BY <1>1, <1>5 DEF Removing, TypeOK, NoWork
<1>6. ASSUME NEW c \in Calls, CallStep(c)
      PROVE  SweepRuns'
  <2>1. armed' = armed
    BY <1>6 DEF CallStep, WatchAsks, WatchRefused, FileRead, WatchesEnd
  <2>2. work'[Sweep] = work[Sweep]
    <3>1. CASE (\E d \in Decks : WatchAsks(c, d)) \/ WatchRefused(c)
      BY <1>1, <3>1 DEF WatchAsks, WatchRefused, TypeOK
    <3>2. CASE FileRead(c)
      BY <1>1, <1>4, <3>2 DEF FileRead
    <3>3. ASSUME NEW D, WatchesEnd(c, D)
          PROVE  work'[Sweep] = work[Sweep]
      BY <1>1, <1>5, <3>3 DEF WatchesEnd
    <3>4. QED
      BY <1>6, <3>1, <3>2, <3>3 DEF CallStep
  <2>3. watches' = watches \/ (\E D : Remove(D)) \/ FileRead(c)
    BY <1>6 DEF CallStep, WatchAsks, WatchRefused, WatchesEnd
  <2>4. QED
    BY <1>2, <2>1, <2>2, <2>3, AnsweredKept
<1>7. ASSUME NEW u \in Users, ChannelStep(u)
      PROVE  SweepRuns'
  <2>1. CASE EnsureChannel(u) \/ ChannelOpened(u)
    BY <1>3, <2>1 DEF EnsureChannel, ChannelOpened
  <2>2. CASE ChannelMissing(u)
    <3>1. watches' = watches /\ armed' = armed /\ (u # Sweep => work'[Sweep] = work[Sweep])
      BY <1>1, <2>2 DEF ChannelMissing, TypeOK
    <3>2. u = Sweep => work'[Sweep].step # "none"
      BY <1>1, <2>2 DEF ChannelMissing, TypeOK, Work
    <3>3. QED
      BY <1>2, <3>1, <3>2, AnsweredKept DEF SweepRuns
  <2>3. CASE Removed(u) \/ IdleOwner(u)
    <3>1. watches' = watches
      BY <2>3 DEF Removed, IdleOwner
    <3>2. CASE DOMAIN watches = {}
      BY <3>1, <3>2 DEF SweepRuns, Answered
    <3>3. CASE DOMAIN watches # {}
      <4>1. armed' = armed /\ Does(u, IF u = Sweep THEN "ensure" ELSE "none")
        BY <2>3, <3>3 DEF Removed, IdleOwner
      <4>2. QED
        BY <1>2, <1>4, <3>1, <4>1, AnsweredKept DEF SweepRuns
    <3>4. QED
      BY <3>2, <3>3
  <2>4. QED
    BY <1>7, <2>1, <2>2, <2>3 DEF ChannelStep
<1>8. ASSUME NEW u \in Users, ChannelFails(u)
      PROVE  SweepRuns'
  <2>1. CASE u = Sweep
    BY <1>3, <1>8, <2>1 DEF ChannelFails
  <2>2. CASE u # Sweep
    <3>1. PICK D : Remove(D) /\ work' = [work EXCEPT ![u] = Removing(D)] /\ armed' = armed
      BY <1>8, <2>2 DEF ChannelFails
    <3>2. QED
      BY <1>2, <1>5, <2>2, <3>1, AnsweredKept
  <2>3. QED
    BY <2>1, <2>2
<1>9. ASSUME NEW D, SweepFires(D)
      PROVE  SweepRuns'
  <2>1. CASE DOMAIN watches = {}
    BY <1>9, <2>1 DEF SweepFires, Remove, Without, Restrict, SweepRuns, Answered
  <2>2. CASE DOMAIN watches # {}
    <3>1. Does(Sweep, "ensure") \/ work' = [work EXCEPT ![Sweep] = Removing(D)]
      BY <1>9, <2>2 DEF SweepFires
    <3>2. QED
      BY <1>1, <1>4, <1>5, <3>1 DEF SweepRuns
  <2>3. QED
    BY <2>1, <2>2
<1>10. ASSUME NEW D, Crash(D)
       PROVE  SweepRuns'
  BY <1>1, <1>10 DEF Crash, Removing, NoWork, SweepRuns
<1>11. CASE \/ \E d \in Busy, isWork \in Kinds : Change(d, isWork)
            \/ PushArrives \/ TimerFires \/ ChangesListed \/ SyncFault \/ TokenSaved
            \/ \E d \in Decks : ScanStep(d)
            \/ UNCHANGED vars
  <2>1. UNCHANGED <<watches, armed, work>>
    BY <1>11 DEF Change, PushArrives, TimerFires, ChangesListed, Listed, SyncFault,
         TokenInvalid, ListFails, ScanFails, TokenSaved, ScanStep, PageRead, TaskPut,
         PageDone, CursorPut, vars
  <2>2. QED
    BY <1>2, <2>1, AnsweredKept
<1>12. QED
  BY <1>6, <1>7, <1>8, <1>9, <1>10, <1>11 DEF Next, SweepStep

\* A deck whose watch was answered for has its owner's channel, and the sweep
\* that comes back to it is set or under way, whatever ends at the same time.
THEOREM AnsweredIsFollowed == Spec => []Followed
<1>1. Init => SweepRuns
  BY DEF Init, SweepRuns, Answered, NoEntries
<1>2. IInv /\ SweepRuns /\ [Next]_vars => SweepRuns'
  BY SweepRunsStep DEF IInv
<1>3. IInv /\ SweepRuns => Followed
  BY DEF IInv, AnsweredOpen, SweepRuns, Answered, Followed
<1>4. QED
  BY <1>1, <1>2, <1>3, Progress, PTL DEF Spec
=============================================================================
