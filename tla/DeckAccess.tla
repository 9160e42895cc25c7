----------------------------- MODULE DeckAccess -----------------------------
(***************************************************************************)
(* Who may open a deck, and as what (decks/deck-manager.ts): one deck's    *)
(* record with its cache, its file and its index entry, changed through    *)
(* the registry's serialised updateRecord, and the sockets whose roles     *)
(* must follow it while they are being admitted, used and closed.          *)
(*                                                                         *)
(* Only the owner may share, and the owner never changes, so a change is   *)
(* never refused for its requester's role; an account leaves by itself     *)
(* through the same change.  Titles, times and addresses are left out.     *)
(***************************************************************************)
EXTENDS Naturals, Sequences, FiniteSets, SequencesExt, Subsequences

CONSTANTS
  Accounts,               \* every account, also those not yet opened
  Owner,                  \* the deck's owner
  GivenRoles,             \* the roles that can be given
  LinkRoles,              \* the roles link sharing can give
  Sockets,                \* websockets of the deck
  MaxMembers,             \* maximumMembersPerDeck
  MaxAccountConnections,  \* maximumConnectionsPerAccount
  MaxDeckConnections,     \* maximumConnectionsPerDeck
  MaxInFlight,            \* bound: requests under way at once, queued or looking up an address
  MaxFaults               \* bound: writes and reads of names that fail, records read too late

ASSUME OwnerAssumption == Owner \in Accounts
ASSUME SocketsAssumption == IsFiniteSet(Sockets)
ASSUME RolesAssumption ==
  GivenRoles \subseteq {"editor", "commenter", "viewer"} /\ LinkRoles \subseteq {"commenter", "viewer"}
ASSUME LimitsAssumption ==
  /\ MaxMembers \in Nat /\ MaxInFlight \in Nat \ {0}
  /\ MaxAccountConnections \in Nat /\ MaxDeckConnections \in Nat
ASSUME FaultsAssumption == MaxFaults \in Nat

VARIABLES
  stored,     \* deck.sealed
  index,      \* the deck's entry of index.json: the record it was made from
  cache,      \* records.get(deckId)
  reading,    \* a read of deck.sealed that others overtake: "no", "asked", "read", and what it read
  queue,      \* the changes given to updateRecord, the one that runs first
  stage,      \* of the change that runs: "idle", "storing", "indexing", "showing"
  current,    \* the record it was made to
  next,       \* what it writes
  inviting,   \* invitations whose address is being looked up
  registered, \* accounts that exist
  deletion,   \* deleteDeck: "no", "files", "index" (to do next), "done"
  loaded,     \* the deck's room is loaded
  sockets,    \* per socket: its phase, account and role
  faults      \* how many writes, or reads of names, have failed, or records came too late

recordVars == <<stored, index, cache, reading>>
updateVars == <<queue, stage, current, next>>
vars == <<recordVars, updateVars, inviting, registered, deletion, loaded, sockets, faults>>

-----------------------------------------------------------------------------
\* Records.

NoRecord == [members |-> <<>>, invited |-> {}, link |-> "off"]

Roles == GivenRoles \cup {"owner"}

Member == [account: Accounts, role: Roles]

Invitation == [account: Accounts, role: GivenRoles]

Links == {"off"} \cup LinkRoles

NotReading == [phase |-> "no", record |-> NoRecord]

IsRecord(record) == record \in [members: Seq(Member), invited: SUBSET Invitation, link: Links]

BlankRecord ==
  [members |-> <<[account |-> Owner, role |-> "owner"]>>, invited |-> {}, link |-> "off"]

MembersOf(record) == {member.account : member \in Range(record.members)}

\* The first member entry decides, then link sharing; "none" may not read the deck.
RoleOf(record, account) ==
  IF account \in MembersOf(record)
  THEN record.members[SelectInSeq(record.members, LAMBDA member : member.account = account)].role
  ELSE IF record = NoRecord \/ record.link = "off" THEN "none" ELSE record.link

\* The changes to a record.
Change == [kind: {"add", "invite"}, account: Accounts, role: GivenRoles]
          \cup [kind: {"setRole"}, account: Accounts, role: GivenRoles]
          \cup [kind: {"remove", "uninvite", "accept"}, account: Accounts]
          \cup [kind: {"link"}, link: Links]
          \cup [kind: {"touch"}]

WithMember(record, account, role) ==
  [record EXCEPT !.members = Append(@, [account |-> account, role |-> role])]

WithoutInvitation(record, account) ==
  [record EXCEPT !.invited = {invitation \in @ : invitation.account # account}]

Accepted(record, account) ==
  LET invitation == CHOOSE some \in record.invited : some.account = account
      rest == WithoutInvitation(record, account)
  IN  IF account \in MembersOf(record) THEN rest ELSE WithMember(rest, account, invitation.role)

Apply(change, record) ==
  CASE change.kind = "add" -> WithMember(record, change.account, change.role)
    [] change.kind = "invite" ->
         [WithoutInvitation(record, change.account) EXCEPT
            !.invited = @ \cup {[account |-> change.account, role |-> change.role]}]
    [] change.kind = "setRole" ->
         [record EXCEPT !.members = [i \in DOMAIN @ |->
            IF @[i].account = change.account THEN [@[i] EXCEPT !.role = change.role] ELSE @[i]]]
    [] change.kind = "remove" ->
         [record EXCEPT !.members = Kept(@, {member \in Range(@) : member.account # change.account})]
    [] change.kind = "uninvite" -> WithoutInvitation(record, change.account)
    [] change.kind = "accept" -> Accepted(record, change.account)
    [] change.kind = "link" -> [record EXCEPT !.link = change.link]
    [] change.kind = "touch" -> record

\* A change that returns the record itself is not written.
Changes(change, record) ==
  change.kind = "accept" => \E invitation \in record.invited : invitation.account = change.account

-----------------------------------------------------------------------------
\* Sockets.

NoSocket == [phase |-> "closed", account |-> Owner, role |-> "none"]

\* connectionsOfDeck: what the room knows of.
Registered == {s \in Sockets : sockets[s].phase \in {"joined", "open"}}

\* countConnecting: connections being opened.
Connecting == {s \in Sockets : sockets[s].phase \in {"admitted", "joined"}}

OfAccount(some, account) == {s \in some : sockets[s].account = account}

\* Mutant of BelowLimits: connections being opened are not counted.
RegisteredBelowLimits(account) ==
  /\ Cardinality(OfAccount(Registered, account)) < MaxAccountConnections
  /\ Cardinality(Registered) < MaxDeckConnections

BelowLimits(account) ==
  /\ Cardinality(OfAccount(Registered, account)) + Cardinality(OfAccount(Connecting, account))
       < MaxAccountConnections
  /\ Cardinality(Registered) + Cardinality(Connecting) < MaxDeckConnections

\* Mutant of RolesPushed: a socket that may no longer read is kept, without a role.
RolesSet(record) ==
  [s \in Sockets |->
     IF s \in Registered THEN [sockets[s] EXCEPT !.role = RoleOf(record, sockets[s].account)] ELSE sockets[s]]

\* pushAccess.
RolesPushed(record) ==
  [s \in Sockets |->
     IF s \notin Registered THEN sockets[s]
     ELSE IF RoleOf(record, sockets[s].account) = "none" THEN NoSocket
     ELSE [sockets[s] EXCEPT !.role = RoleOf(record, sockets[s].account)]]

-----------------------------------------------------------------------------
TypeOK ==
  /\ \A record \in {stored, index, cache, reading.record, current, next} : IsRecord(record)
  /\ reading.phase \in {"no", "asked", "read"}
  /\ queue \in Seq(Change) /\ Len(queue) + Cardinality(inviting) <= MaxInFlight
  /\ stage \in {"idle", "storing", "indexing", "showing"}
  /\ inviting \subseteq [account: Accounts, role: GivenRoles, member: BOOLEAN]
  /\ registered \subseteq Accounts
  /\ deletion \in {"no", "files", "index", "done"}
  /\ loaded \in BOOLEAN
  /\ sockets \in [Sockets -> [phase: {"closed", "admitted", "joined", "open"},
                             account: Accounts, role: Roles \cup {"none"} \cup Links]]
  /\ \A s \in Sockets : sockets[s].phase # "closed" => sockets[s].role # "none"
  /\ faults \in 0..MaxFaults

Init ==
  /\ stored = BlankRecord /\ index = BlankRecord /\ cache = BlankRecord
  /\ reading = NotReading
  /\ queue = <<>> /\ stage = "idle" /\ current = NoRecord /\ next = NoRecord
  /\ inviting = {} /\ registered = {Owner}
  /\ deletion = "no" /\ loaded = FALSE
  /\ sockets = [s \in Sockets |-> NoSocket]
  /\ faults = 0

\* readRecord: the cache, else the file of a deck the index names.
Current ==
  IF cache # NoRecord THEN cache ELSE IF index # NoRecord THEN stored ELSE NoRecord

\* Reading fills the cache: a read that nothing comes between.
ReadRecord == cache' = Current /\ UNCHANGED reading

\* Bound: the requests under way at once, an awaited read among them, and one at
\* a time after a fault.
MayBegin ==
  Len(queue) + Cardinality(inviting) + (IF reading = NotReading THEN 0 ELSE 1)
    < (IF faults = 0 THEN MaxInFlight ELSE 1)

\* readRecord misses the cache and awaits the file; bound: one such read at a
\* time, none across a deletion.
ReadAsked ==
  /\ cache = NoRecord /\ index # NoRecord /\ reading = NotReading
  /\ deletion = "no"
  /\ MayBegin
  /\ reading' = [phase |-> "asked", record |-> NoRecord]
  /\ UNCHANGED <<stored, index, cache, updateVars, inviting, registered, deletion, loaded, sockets>>

FileRead ==
  /\ reading.phase = "asked"
  /\ reading' = [phase |-> "read", record |-> stored]
  /\ UNCHANGED <<stored, index, cache, updateVars, inviting, registered, deletion, loaded, sockets>>

\* The awaited record is cached, whatever was cached meanwhile; its reader then
\* goes on as one who finds it in the cache.
ReadReturns ==
  /\ reading.phase = "read"
  /\ reading' = NotReading
  /\ cache' = IF reading.record = NoRecord THEN cache ELSE reading.record
  /\ IF cache \in {NoRecord, cache'}
     THEN UNCHANGED faults
     ELSE faults < MaxFaults /\ faults' = faults + 1
  /\ UNCHANGED <<stored, index, updateVars, inviting, registered, deletion, loaded, sockets>>

-----------------------------------------------------------------------------
\* Requests.

\* updateRecord: the change waits for those before it.
Enqueue(change) == queue' = Append(queue, change)

\* Mutant of Changeable: the owner's own entry is not spared.
EveryMember(record) == MembersOf(record)

\* Whose role may be changed or taken.
Changeable(record) == MembersOf(record) \ {Owner}

\* setLinkSharing, changeMember, removeMember, removeInvitation, eraseAccount's
\* removal: a check on the record as read, then updateRecord.
Request(change) ==
  /\ Current # NoRecord
  /\ \/ change.kind = "link"
     \/ change.kind \in {"setRole", "remove"} /\ change.account \in Changeable(Current)
     \/ change.kind = "uninvite" /\ \E invitation \in Current.invited : invitation.account = change.account
  /\ MayBegin /\ Enqueue(change)
  /\ ReadRecord
  /\ UNCHANGED <<stored, index, stage, current, next, inviting, registered, deletion, loaded, sockets>>

\* touchRecord, after a flush: the title and time of the cached record.
Touch ==
  /\ cache # NoRecord
  /\ MayBegin /\ Enqueue([kind |-> "touch"])
  /\ UNCHANGED <<recordVars, stage, current, next, inviting, registered, deletion, loaded, sockets>>

\* invite, up to the await of findByEmail; bound: no copy of the record
\* is already beyond the limit, where faults could make it longer and longer.
Invite(account, role) ==
  /\ \A record \in {stored, index, cache, next} : Len(record.members) <= MaxMembers
  /\ Current # NoRecord
  /\ Len(Current.members) + Cardinality(Current.invited) < MaxMembers
  /\ MayBegin
  /\ inviting' = inviting \cup {[account |-> account, role |-> role, member |-> account \in MembersOf(Current)]}
  /\ ReadRecord
  /\ UNCHANGED <<stored, index, updateVars, registered, deletion, loaded, sockets>>

\* invite, once the address is known to be an account's or nobody's.
InviteeFound(invite) ==
  /\ invite \in inviting
  /\ inviting' = inviting \ {invite}
  /\ IF invite.account \in registered
     THEN IF invite.member
          THEN UNCHANGED queue
          ELSE Enqueue([kind |-> "add", account |-> invite.account, role |-> invite.role])
     ELSE Enqueue([kind |-> "invite", account |-> invite.account, role |-> invite.role])
  /\ UNCHANGED <<recordVars, stage, current, next, registered, deletion, loaded, sockets>>

\* A sign-in, opening the account at the first: acceptInvitations asks the index.
SignIn(account) ==
  /\ registered' = registered \cup {account}
  /\ IF \E invitation \in index.invited : invitation.account = account
     THEN MayBegin /\ Enqueue([kind |-> "accept", account |-> account])
     ELSE UNCHANGED queue
  /\ UNCHANGED <<recordVars, stage, current, next, inviting, deletion, loaded, sockets>>

-----------------------------------------------------------------------------
\* updateRecord, one change at a time.

\* The change is over, with or without a result; the next one runs.
Over ==
  /\ queue' = Tail(queue)
  /\ stage' = "idle"
  /\ current' = NoRecord /\ next' = NoRecord

\* readRecord and the change itself.
UpdateBegins ==
  /\ stage = "idle" /\ queue # <<>>
  /\ ReadRecord
  /\ IF Current # NoRecord /\ Changes(Head(queue), Current)
     THEN /\ current' = Current
          /\ next' = Apply(Head(queue), Current)
          /\ stage' = "storing"
          /\ UNCHANGED <<queue, sockets>>
     ELSE /\ Over
          /\ sockets' = IF Current = NoRecord THEN sockets ELSE RolesPushed(Current)
  /\ UNCHANGED <<stored, index, inviting, registered, deletion, loaded>>

\* writeRecord: the file, in a directory that is made when it is missing.
RecordStored ==
  /\ stage = "storing"
  /\ stored' = next
  /\ stage' = "indexing"
  /\ UNCHANGED <<index, cache, reading, queue, current, next, inviting, registered, deletion, loaded, sockets>>

PeopleChanged == current.members # next.members \/ current.invited # next.invited

\* Mutant of WriteThrough: the cache keeps the record it had.
WriteAround == cache

WriteThrough == next

\* writeRecord: the index, then the cache; a loaded room is shown the new people
\* first, else the open sockets' roles follow at once; a touch changes neither.
RecordIndexed ==
  /\ stage = "indexing"
  /\ index' = next
  /\ cache' = WriteThrough
  /\ IF loaded /\ PeopleChanged
     THEN stage' = "showing" /\ UNCHANGED <<queue, current, next, sockets>>
     ELSE /\ Over
          /\ sockets' = IF Head(queue).kind = "touch" THEN sockets ELSE RolesPushed(next)
  /\ UNCHANGED <<stored, reading, inviting, registered, deletion, loaded>>

\* membersOf has read every name: the room has the new people, the sockets their roles.
MembersShown ==
  /\ stage = "showing"
  /\ Over
  /\ sockets' = RolesPushed(next)
  /\ UNCHANGED <<recordVars, inviting, registered, deletion, loaded>>

\* A write throws: nothing is cached or pushed, and the next change runs.
WriteFails ==
  /\ faults < MaxFaults /\ faults' = faults + 1
  /\ \/ stage = "storing" /\ stored' \in {stored, next} /\ index' = index
     \/ stage = "indexing" /\ stored' = stored /\ index' \in {index, next}
  /\ Over
  /\ UNCHANGED <<cache, reading, inviting, registered, deletion, loaded, sockets>>

\* membersOf throws: the record is changed, and nothing is pushed.
MembersFail ==
  /\ faults < MaxFaults /\ faults' = faults + 1
  /\ stage = "showing"
  /\ Over
  /\ UNCHANGED <<recordVars, inviting, registered, deletion, loaded, sockets>>

-----------------------------------------------------------------------------
\* Opening and closing a socket.

\* connect: the caller's role and the limits, then the await of the caller's name.
Admit(s, account) ==
  /\ sockets[s].phase = "closed" /\ account \in registered
  /\ RoleOf(Current, account) # "none"
  /\ BelowLimits(account)
  /\ sockets' = [sockets EXCEPT ![s] =
       [phase |-> "admitted", account |-> account, role |-> RoleOf(Current, account)]]
  /\ ReadRecord
  /\ UNCHANGED <<stored, index, updateVars, inviting, registered, deletion, loaded>>

\* registry.connect: the room, loaded if need be, has the connection with the
\* role read before; a deck that is gone meanwhile refuses it.
Join(s) ==
  /\ sockets[s].phase = "admitted"
  /\ \/ /\ loaded \/ Current # NoRecord
        /\ loaded' = TRUE
        /\ sockets' = [sockets EXCEPT ![s].phase = "joined"]
        /\ cache' = IF loaded THEN cache ELSE Current
     \/ /\ ~loaded /\ Current = NoRecord
        /\ sockets' = [sockets EXCEPT ![s] = NoSocket]
        /\ UNCHANGED <<cache, loaded>>
  /\ UNCHANGED <<stored, index, reading, updateVars, inviting, registered, deletion>>

\* Mutant of RoleRead: the role read before the awaits is good enough.
RoleKept(s) == sockets[s].role

\* The role is read again once the connection is registered.
RoleRead(s) == RoleOf(Current, sockets[s].account)

\* connect, after the room has the connection.
Opened(s) ==
  /\ sockets[s].phase = "joined"
  /\ sockets' = [sockets EXCEPT ![s] =
       IF RoleRead(s) = "none" THEN NoSocket ELSE [@ EXCEPT !.phase = "open", !.role = RoleRead(s)]]
  /\ ReadRecord
  /\ UNCHANGED <<stored, index, updateVars, inviting, registered, deletion, loaded>>

\* The client goes, or an await of connect throws.
Disconnect(s) ==
  /\ sockets[s].phase # "closed"
  /\ sockets' = [sockets EXCEPT ![s] = NoSocket]
  /\ UNCHANGED <<recordVars, updateVars, inviting, registered, deletion, loaded>>

\* A room nobody is connected to is unloaded.
Unload ==
  /\ loaded /\ Registered = {}
  /\ loaded' = FALSE
  /\ UNCHANGED <<recordVars, updateVars, inviting, registered, deletion, sockets>>

-----------------------------------------------------------------------------
\* Deleting the deck, and the server ending.

\* deleteDeck: the room is forgotten with its sockets, and the cached record;
\* bound: no read of the file is under way.
Delete ==
  /\ deletion = "no" /\ reading = NotReading
  /\ Current # NoRecord
  /\ deletion' = "files"
  /\ loaded' = FALSE
  /\ cache' = NoRecord
  /\ sockets' = [s \in Sockets |-> IF loaded /\ s \in Registered THEN NoSocket ELSE sockets[s]]
  /\ UNCHANGED <<stored, index, reading, updateVars, inviting, registered>>

FilesDeleted ==
  /\ deletion = "files"
  /\ deletion' = "index"
  /\ stored' = NoRecord
  /\ UNCHANGED <<index, cache, reading, updateVars, inviting, registered, loaded, sockets>>

IndexDeleted ==
  /\ deletion = "index"
  /\ deletion' = "done"
  /\ index' = NoRecord
  /\ UNCHANGED <<stored, cache, reading, updateVars, inviting, registered, loaded, sockets>>

\* The server stops at any point and starts again.
Restart ==
  /\ cache' = NoRecord /\ reading' = NotReading
  /\ queue' = <<>> /\ stage' = "idle" /\ current' = NoRecord /\ next' = NoRecord
  /\ inviting' = {}
  /\ deletion' = IF deletion \in {"files", "index"} THEN "no" ELSE deletion
  /\ loaded' = FALSE
  /\ sockets' = [s \in Sockets |-> NoSocket]
  /\ UNCHANGED <<stored, index, registered>>

Access ==
  \/ ReadAsked \/ FileRead
  \/ \E change \in Change : Request(change)
  \/ Touch
  \/ \E account \in Accounts, role \in GivenRoles : Invite(account, role)
  \/ \E invite \in inviting : InviteeFound(invite)
  \/ \E account \in Accounts : SignIn(account)
  \/ UpdateBegins \/ RecordStored \/ RecordIndexed \/ MembersShown
  \/ \E s \in Sockets, account \in Accounts : Admit(s, account)
  \/ \E s \in Sockets : Join(s) \/ Opened(s) \/ Disconnect(s)
  \/ Unload
  \/ Delete \/ FilesDeleted \/ IndexDeleted \/ Restart

Next ==
  \/ Access /\ UNCHANGED faults
  \/ ReadReturns \/ WriteFails \/ MembersFail

Spec == Init /\ [][Next]_vars

-----------------------------------------------------------------------------
\* Properties.

\* deck-manager.ts:10-12: "A CHANGE OF ACCESS REACHES OPEN SOCKETS AT ONCE": an
\* open socket has the role the record gives its account, even if a change came
\* while it was admitted; but while a change is still shown to the room, once the
\* deck's deletion began, and after a failed write or a record read too late.
SocketsFollowRecord ==
  faults = 0 /\ deletion = "no" /\ cache # NoRecord /\ stage # "showing" =>
    \A s \in Sockets :
      sockets[s].phase = "open" => sockets[s].role = RoleOf(cache, sockets[s].account)

\* deck-manager.ts:24-26: a burst of upgrades passes no connection limit.
ConnectionsWithinLimits ==
  /\ Cardinality(Registered) <= MaxDeckConnections
  /\ \A account \in Accounts : Cardinality(OfAccount(Registered, account)) <= MaxAccountConnections

\* deck-registry.ts:19-20: changes are serialised: each is made to the record as
\* the one before left it on disk, so no invitation or removal is undone, until a
\* write fails or a read of the file comes back after a change and is cached over it.
ChangesBuildOnEachOther ==
  [][faults = 0 /\ deletion = "no" /\ deletion' = "no" /\ stored' # stored
       => \E change \in Change : Changes(change, stored) /\ stored' = Apply(change, stored)]_vars

\* The owner is never removed, demoted or joined by another owner.
OwnerStays ==
  \A record \in {stored, index, cache, next} \ {NoRecord} :
    \A account \in Accounts : RoleOf(record, account) = "owner" <=> account = Owner

\* deck-registry.ts:88: a deleted deck's record and index entry are gone.
DeletedStaysDeleted ==
  deletion = "done" => stored = NoRecord /\ index = NoRecord /\ cache = NoRecord
=============================================================================
