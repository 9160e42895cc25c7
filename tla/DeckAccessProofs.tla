-------------------------- MODULE DeckAccessProofs --------------------------
(***************************************************************************)
(* Theorems about DeckAccess, for any accounts, sockets, limits and number *)
(* of requests and faults.                                                 *)
(***************************************************************************)
EXTENDS DeckAccess, CollectionProofs, FiniteSetTheorems

-----------------------------------------------------------------------------
\* Records and roles.

\* The role of a member is that of one of its entries, anyone else's comes from link sharing.
LEMMA RoleComesFrom ==
  ASSUME NEW record, IsRecord(record), NEW account \in Accounts
  PROVE  IF account \in MembersOf(record)
         THEN \E member \in Range(record.members) : member.account = account /\ RoleOf(record, account) = member.role
         ELSE RoleOf(record, account) \in LinkRoles \cup {"none"}
<1> DEFINE members == record.members
           I == {i \in 1 .. Len(members) : members[i].account = account}
<1>1. members \in Seq(Member) /\ DOMAIN members = 1 .. Len(members) /\ Len(members) \in Nat
  BY DEF IsRecord
<1>2. CASE account \in MembersOf(record)
  <2>1. PICK i \in 1 .. Len(members) : members[i].account = account
    BY <1>1, <1>2 DEF MembersOf, Range
  <2>2. I \in SUBSET Nat /\ I # {}
    BY <2>1, <1>1
  <2>3. \E least \in I : \A n \in I : least <= n
    BY <2>2, LeastNumber
  <2>4. Min(I) \in I
    BY <2>3 DEF Min
  <2>5. RoleOf(record, account) = members[Min(I)].role
    BY <1>2, <2>2 DEF RoleOf, SelectInSeq
  <2>6. members[Min(I)] \in Range(members) /\ members[Min(I)].account = account
    BY <2>4, <1>1 DEF Range
  <2>7. QED
    BY <1>2, <2>5, <2>6
<1>3. CASE account \notin MembersOf(record)
  BY <1>3 DEF RoleOf, IsRecord, Links
<1>4. QED
  BY <1>2, <1>3

\* The roles a record gives.
LEMMA RoleTyped ==
  ASSUME NEW record, IsRecord(record), NEW account \in Accounts
  PROVE  RoleOf(record, account) \in Roles \cup LinkRoles \cup {"none"}
<1>1. \A member \in Range(record.members) : member \in Member
  BY DEF IsRecord, Range
<1>2. QED
  BY <1>1, RoleComesFrom DEF Member

\* A member more.
LEMMA WithMemberTyped ==
  ASSUME NEW record, IsRecord(record), NEW account \in Accounts, NEW role \in GivenRoles
  PROVE  IsRecord(WithMember(record, account, role))
<1> DEFINE entry == [account |-> account, role |-> role]
           longer == Append(record.members, entry)
<1>1. entry \in Member /\ record.members \in Seq(Member)
  BY DEF IsRecord, Member, Roles
<1>2. longer \in Seq(Member)
  BY <1>1
<1>3. WithMember(record, account, role) = [record EXCEPT !.members = longer]
  BY DEF WithMember
<1> HIDE DEF longer
<1>4. QED
  BY <1>2, <1>3 DEF IsRecord

\* An invitation less.
LEMMA WithoutInvitationTyped ==
  ASSUME NEW record, IsRecord(record), NEW account
  PROVE  IsRecord(WithoutInvitation(record, account))
BY DEF IsRecord, WithoutInvitation

\* What an accepted invitation makes of a record.
LEMMA AcceptedIs ==
  ASSUME NEW record, IsRecord(record), NEW account \in Accounts,
         \E invitation \in record.invited : invitation.account = account
  PROVE  \E role \in GivenRoles :
           Accepted(record, account) =
             IF account \in MembersOf(record) THEN WithoutInvitation(record, account)
             ELSE WithMember(WithoutInvitation(record, account), account, role)
<1> DEFINE invitation == CHOOSE some \in record.invited : some.account = account
<1>1. invitation \in record.invited
  OBVIOUS
<1>2. invitation.role \in GivenRoles
  BY <1>1 DEF IsRecord, Invitation
<1>3. QED
  BY <1>2 DEF Accepted

\* A change makes a record of a record.
LEMMA ApplyTyped ==
  ASSUME NEW record, IsRecord(record), NEW change \in Change, Changes(change, record)
  PROVE  IsRecord(Apply(change, record))
<1>1. CASE change.kind = "add"
  BY <1>1, WithMemberTyped DEF Apply, Change
<1>2. CASE change.kind = "invite"
  <2> DEFINE rest == WithoutInvitation(record, change.account)
             entry == [account |-> change.account, role |-> change.role]
  <2>1. IsRecord(rest) /\ entry \in Invitation
    BY <1>2, WithoutInvitationTyped DEF Change, Invitation
  <2>2. Apply(change, record) = [rest EXCEPT !.invited = @ \cup {entry}]
    BY <1>2 DEF Apply
  <2> HIDE DEF rest, entry
  <2>3. QED
    BY <2>1, <2>2 DEF IsRecord
<1>3. CASE change.kind = "setRole"
  <2> DEFINE members == record.members
             after == [i \in DOMAIN members |->
               IF members[i].account = change.account THEN [members[i] EXCEPT !.role = change.role] ELSE members[i]]
  <2>1. members \in Seq(Member) /\ change.role \in Roles
    BY <1>3 DEF IsRecord, Change, Roles
  <2>2. \A i \in DOMAIN members : members[i] \in Member
    BY <2>1
  <2>3. \A i \in DOMAIN members : after[i] \in Member
    BY <2>1, <2>2 DEF Member
  <2>4. after \in Seq(Member)
    <3>1. DOMAIN members = 1 .. Len(members) /\ Len(members) \in Nat
      BY <2>1
    <3>2. after \in [1 .. Len(members) -> Member]
      BY <3>1, <2>3
    <3>3. QED
      BY <3>1, <3>2
  <2>5. Apply(change, record) = [record EXCEPT !.members = after]
    BY <1>3 DEF Apply
  <2>6. QED
    BY <2>4, <2>5 DEF IsRecord
<1>4. CASE change.kind = "remove"
  <2> DEFINE left == Kept(record.members, {member \in Range(record.members) : member.account # change.account})
  <2>1. left \in Seq(Member)
    BY KeptElements DEF IsRecord
  <2>2. Apply(change, record) = [record EXCEPT !.members = left]
    BY <1>4 DEF Apply
  <2>3. QED
    BY <2>1, <2>2 DEF IsRecord
<1>5. CASE change.kind = "uninvite"
  BY <1>5, WithoutInvitationTyped DEF Apply
<1>6. CASE change.kind = "accept"
  <2>1. change.account \in Accounts /\ Apply(change, record) = Accepted(record, change.account)
    BY <1>6 DEF Apply, Change
  <2>2. IsRecord(WithoutInvitation(record, change.account))
    BY WithoutInvitationTyped
  <2>3. \E invitation \in record.invited : invitation.account = change.account
    BY <1>6 DEF Changes
  <2>4. QED
    BY <2>1, <2>2, <2>3, AcceptedIs, WithMemberTyped
<1>7. CASE change.kind = "link"
  BY <1>7 DEF Apply, Change, IsRecord
<1>8. CASE change.kind = "touch"
  BY <1>8 DEF Apply
<1>9. QED
  BY <1>1, <1>2, <1>3, <1>4, <1>5, <1>6, <1>7, <1>8 DEF Change

-----------------------------------------------------------------------------
\* Types.  The parts of TypeOK, with what they need to be kept: finitely many addresses
\* are looked up, and a change that runs is the first of the queue.

RecordsTyped ==
  /\ IsRecord(stored) /\ IsRecord(index) /\ IsRecord(cache) /\ IsRecord(current) /\ IsRecord(next)
  /\ reading.phase \in {"no", "asked", "read"} /\ IsRecord(reading.record)

RequestsTyped ==
  /\ queue \in Seq(Change)
  /\ inviting \subseteq [account: Accounts, role: GivenRoles, member: BOOLEAN] /\ IsFiniteSet(inviting)
  /\ Len(queue) + Cardinality(inviting) <= MaxInFlight

StageTyped == stage \in {"idle", "storing", "indexing", "showing"} /\ (stage # "idle" => queue # <<>>)

SocketStates == [phase: {"closed", "admitted", "joined", "open"}, account: Accounts, role: Roles \cup {"none"} \cup Links]

SocketsTyped ==
  /\ sockets \in [Sockets -> SocketStates]
  /\ \A s \in Sockets : sockets[s].phase # "closed" => sockets[s].role # "none"

OthersTyped ==
  /\ registered \subseteq Accounts
  /\ deletion \in {"no", "files", "index", "done"}
  /\ loaded \in BOOLEAN
  /\ faults \in 0 .. MaxFaults

Typed == RecordsTyped /\ RequestsTyped /\ StageTyped /\ SocketsTyped /\ OthersTyped

LEMMA NoRecordTyped == IsRecord(NoRecord)
BY DEF IsRecord, NoRecord, Links

LEMMA BlankRecordTyped == IsRecord(BlankRecord)
<1>1. [account |-> Owner, role |-> "owner"] \in Member
  BY OwnerAssumption DEF Member, Roles
<1>2. <<[account |-> Owner, role |-> "owner"]>> \in Seq(Member)
  BY <1>1
<1>3. QED
  BY <1>2 DEF IsRecord, BlankRecord, Links

LEMMA CurrentTyped ==
  ASSUME RecordsTyped
  PROVE  IsRecord(Current)
BY NoRecordTyped DEF RecordsTyped, Current

LEMMA NoSocketTyped == NoSocket \in SocketStates
BY OwnerAssumption DEF NoSocket, SocketStates

\* The sockets after their roles were set to those of a record.
LEMMA RolesPushedTyped ==
  ASSUME SocketsTyped, NEW record, IsRecord(record)
  PROVE  /\ RolesPushed(record) \in [Sockets -> SocketStates]
         /\ \A s \in Sockets : RolesPushed(record)[s].phase # "closed" => RolesPushed(record)[s].role # "none"
<1>1. ASSUME NEW s \in Sockets
      PROVE  /\ RolesPushed(record)[s] \in SocketStates
             /\ RolesPushed(record)[s].phase # "closed" => RolesPushed(record)[s].role # "none"
  <2>1. sockets[s] \in SocketStates /\ (sockets[s].phase # "closed" => sockets[s].role # "none")
    BY DEF SocketsTyped
  <2> DEFINE role == RoleOf(record, sockets[s].account)
  <2>2. role \in Roles \cup LinkRoles \cup {"none"}
    BY <2>1, RoleTyped DEF SocketStates
  <2>3. [sockets[s] EXCEPT !.role = role] \in SocketStates
    BY <2>1, <2>2 DEF SocketStates, Links
  <2>4. RolesPushed(record)[s] = IF s \notin Registered THEN sockets[s]
            ELSE IF role = "none" THEN NoSocket ELSE [sockets[s] EXCEPT !.role = role]
    BY DEF RolesPushed
  <2>5. [sockets[s] EXCEPT !.role = role].role = role
    BY <2>1 DEF SocketStates
  <2> HIDE DEF role
  <2>6. QED
    BY <2>1, <2>3, <2>4, <2>5, NoSocketTyped DEF NoSocket
<1>2. RolesPushed(record) = [s \in Sockets |-> RolesPushed(record)[s]]
  BY DEF RolesPushed
<1>3. QED
  BY <1>1, <1>2

\* One more request, while there may be one.
LEMMA EnqueueTyped ==
  ASSUME Typed, MayBegin, NEW change \in Change, Enqueue(change), UNCHANGED <<inviting, stage>>
  PROVE  RequestsTyped' /\ StageTyped'
<1>1. Cardinality(inviting) \in Nat /\ Len(queue) \in Nat
  BY FS_CardinalityType DEF Typed, RequestsTyped
<1>2. Len(queue) + Cardinality(inviting) < MaxInFlight
  BY <1>1, LimitsAssumption DEF MayBegin
<1>3. queue' \in Seq(Change) /\ Len(queue') = Len(queue) + 1 /\ queue' # <<>>
  BY DEF Enqueue, Typed, RequestsTyped
<1>4. Len(queue') + Cardinality(inviting') <= MaxInFlight
  BY <1>1, <1>2, <1>3, LimitsAssumption
<1>5. QED
  BY <1>3, <1>4 DEF Typed, RequestsTyped, StageTyped

\* One request less.
LEMMA OverTyped ==
  ASSUME Typed, queue # <<>>, Over, UNCHANGED inviting
  PROVE  RequestsTyped' /\ StageTyped' /\ IsRecord(next') /\ IsRecord(current')
<1>1. Cardinality(inviting) \in Nat
  BY FS_CardinalityType DEF Typed, RequestsTyped
<1>2. queue' \in Seq(Change) /\ Len(queue') = Len(queue) - 1 /\ Len(queue) \in Nat
  BY DEF Over, Typed, RequestsTyped
<1>3. Len(queue') + Cardinality(inviting') <= MaxInFlight
  BY <1>1, <1>2, LimitsAssumption DEF Typed, RequestsTyped
<1>4. QED
  BY <1>2, <1>3, NoRecordTyped DEF Typed, RequestsTyped, StageTyped, Over

\* A request whose address is looked up.
LEMMA InviteTyped ==
  ASSUME Typed, NEW account \in Accounts, NEW role \in GivenRoles, Invite(account, role)
  PROVE  RequestsTyped'
<1> DEFINE invite == [account |-> account, role |-> role, member |-> account \in MembersOf(Current)]
<1>1. invite \in [account: Accounts, role: GivenRoles, member: BOOLEAN]
  OBVIOUS
<1> HIDE DEF invite
<1>2. inviting' = inviting \cup {invite} /\ queue' = queue /\ MayBegin
  BY DEF Invite, updateVars, invite
<1>3. Cardinality(inviting) \in Nat /\ Len(queue) \in Nat /\ IsFiniteSet(inviting)
  BY FS_CardinalityType DEF Typed, RequestsTyped
<1>4. IsFiniteSet(inviting') /\ Cardinality(inviting') <= Cardinality(inviting) + 1 /\ Cardinality(inviting') \in Nat
  <2>1. /\ IsFiniteSet(inviting \cup {invite})
        /\ Cardinality(inviting \cup {invite}) = IF invite \in inviting THEN Cardinality(inviting) ELSE Cardinality(inviting) + 1
    BY <1>3, FS_AddElement
  <2>2. QED
    BY <1>2, <1>3, <2>1
<1>5. Len(queue) + Cardinality(inviting) < MaxInFlight
  BY <1>2, <1>3, LimitsAssumption DEF MayBegin
<1>6. Len(queue') + Cardinality(inviting') <= MaxInFlight
  BY <1>2, <1>3, <1>4, <1>5, LimitsAssumption
<1>7. QED
  BY <1>1, <1>2, <1>4, <1>6 DEF Typed, RequestsTyped

\* A looked up address.
LEMMA InviteeFoundTyped ==
  ASSUME Typed, NEW invite \in inviting, InviteeFound(invite)
  PROVE  RequestsTyped' /\ StageTyped'
<1>1. inviting' = inviting \ {invite} /\ stage' = stage
  BY DEF InviteeFound
<1>2. Cardinality(inviting) \in Nat /\ Len(queue) \in Nat /\ IsFiniteSet(inviting)
  BY FS_CardinalityType DEF Typed, RequestsTyped
<1>3. IsFiniteSet(inviting') /\ Cardinality(inviting') = Cardinality(inviting) - 1
  BY <1>1, <1>2, FS_RemoveElement
<1>4. PICK change \in Change : UNCHANGED queue \/ Enqueue(change)
  <2>1. invite.account \in Accounts /\ invite.role \in GivenRoles
    BY DEF Typed, RequestsTyped
  <2>2. /\ [kind |-> "add", account |-> invite.account, role |-> invite.role] \in Change
        /\ [kind |-> "invite", account |-> invite.account, role |-> invite.role] \in Change
    BY <2>1 DEF Change
  <2>3. QED
    BY <2>2 DEF InviteeFound
<1>5. queue' \in Seq(Change) /\ Len(queue') <= Len(queue) + 1 /\ Len(queue') \in Nat /\ (queue # <<>> => queue' # <<>>)
  BY <1>4 DEF Enqueue, Typed, RequestsTyped
<1>6. Len(queue') + Cardinality(inviting') <= MaxInFlight
  BY <1>2, <1>3, <1>5, LimitsAssumption DEF Typed, RequestsTyped
<1>7. QED
  BY <1>1, <1>3, <1>5, <1>6 DEF Typed, RequestsTyped, StageTyped

\* What the changes of one socket keep.
LEMMA SocketSetTyped ==
  ASSUME SocketsTyped, NEW s \in Sockets, NEW socket \in SocketStates,
         socket.phase # "closed" => socket.role # "none", sockets' = [sockets EXCEPT ![s] = socket]
  PROVE  SocketsTyped'
BY DEF SocketsTyped

LEMMA InitTyped == Init => Typed
<1> SUFFICES ASSUME Init PROVE Typed
  OBVIOUS
<1>1. RecordsTyped
  BY BlankRecordTyped, NoRecordTyped DEF Init, RecordsTyped, NotReading
<1>2. RequestsTyped
  BY FS_EmptySet, LimitsAssumption DEF Init, RequestsTyped
<1>3. SocketsTyped
  BY NoSocketTyped DEF Init, SocketsTyped, NoSocket
<1>4. StageTyped
  BY DEF Init, StageTyped
<1>5. OthersTyped
  <2>1. 0 \in 0 .. MaxFaults
    BY FaultsAssumption
  <2>2. QED
    BY <2>1, OwnerAssumption DEF Init, OthersTyped
<1>6. QED
  BY <1>1, <1>2, <1>3, <1>4, <1>5 DEF Typed

\* Every step keeps the types.
LEMMA StepTyped ==
  ASSUME Typed, [Next]_vars
  PROVE  Typed'
<1> USE DEF Typed
<1>0. IsRecord(Current) /\ (ReadRecord => IsRecord(cache') /\ UNCHANGED reading)
  BY CurrentTyped DEF ReadRecord
<1>1. CASE UNCHANGED vars
  BY <1>1 DEF vars, recordVars, updateVars, RecordsTyped, RequestsTyped, StageTyped, SocketsTyped, OthersTyped
<1>2. ASSUME NEW change \in Change, Request(change), UNCHANGED faults
      PROVE  Typed'
  <2>1. RequestsTyped' /\ StageTyped'
    BY <1>2, EnqueueTyped DEF Request
  <2>2. QED
    BY <1>0, <1>2, <2>1 DEF Request, RecordsTyped, SocketsTyped, OthersTyped
<1>3. CASE Touch /\ UNCHANGED faults
  <2>1. [kind |-> "touch"] \in Change
    BY DEF Change
  <2>2. RequestsTyped' /\ StageTyped'
    BY <1>3, <2>1, EnqueueTyped DEF Touch
  <2>3. QED
    BY <1>3, <2>2 DEF Touch, recordVars, RecordsTyped, SocketsTyped, OthersTyped
<1>4. ASSUME NEW account \in Accounts, NEW role \in GivenRoles, Invite(account, role), UNCHANGED faults
      PROVE  Typed'
  <2>1. RequestsTyped'
    BY <1>4, InviteTyped
  <2>2. QED
    BY <1>0, <1>4, <2>1 DEF Invite, updateVars, RecordsTyped, StageTyped, SocketsTyped, OthersTyped
<1>5. ASSUME NEW invite \in inviting, InviteeFound(invite), UNCHANGED faults
      PROVE  Typed'
  <2>1. RequestsTyped' /\ StageTyped'
    BY <1>5, InviteeFoundTyped
  <2>2. QED
    BY <1>5, <2>1 DEF InviteeFound, recordVars, RecordsTyped, SocketsTyped, OthersTyped
<1>6. ASSUME NEW account \in Accounts, SignIn(account), UNCHANGED faults
      PROVE  Typed'
  <2>1. [kind |-> "accept", account |-> account] \in Change
    BY DEF Change
  <2>2. RequestsTyped' /\ StageTyped'
    BY <1>6, <2>1, EnqueueTyped DEF SignIn, RequestsTyped, StageTyped
  <2>3. QED
    BY <1>6, <2>2 DEF SignIn, recordVars, RecordsTyped, SocketsTyped, OthersTyped
<1>7. CASE UpdateBegins /\ UNCHANGED faults
  <2>1. CASE Current # NoRecord /\ Changes(Head(queue), Current)
    <3>1. Head(queue) \in Change
      BY <1>7 DEF UpdateBegins, RequestsTyped
    <3>2. IsRecord(next') /\ current' = Current
      BY <1>0, <1>7, <2>1, <3>1, ApplyTyped DEF UpdateBegins
    <3>3. QED
      BY <1>0, <1>7, <2>1, <3>2 DEF UpdateBegins, RecordsTyped, RequestsTyped, StageTyped, SocketsTyped, OthersTyped
  <2>2. CASE ~ (Current # NoRecord /\ Changes(Head(queue), Current))
    <3>1. RequestsTyped' /\ StageTyped' /\ IsRecord(next') /\ IsRecord(current')
      BY <1>7, <2>2, OverTyped DEF UpdateBegins
    <3>2. SocketsTyped'
      BY <1>0, <1>7, <2>2, RolesPushedTyped DEF UpdateBegins, SocketsTyped
    <3>3. QED
      BY <1>0, <1>7, <3>1, <3>2 DEF UpdateBegins, RecordsTyped, OthersTyped
  <2>3. QED
    BY <2>1, <2>2
<1>8. CASE RecordStored /\ UNCHANGED faults
  BY <1>8 DEF RecordStored, RecordsTyped, RequestsTyped, StageTyped, SocketsTyped, OthersTyped
<1>9. CASE RecordIndexed /\ UNCHANGED faults
  <2>1. queue # <<>> /\ IsRecord(next)
    BY <1>9 DEF RecordIndexed, StageTyped, RecordsTyped
  <2>2. RecordsTyped' /\ RequestsTyped' /\ StageTyped'
    <3>1. CASE loaded /\ PeopleChanged
      BY <1>9, <2>1, <3>1 DEF RecordIndexed, WriteThrough, RecordsTyped, RequestsTyped, StageTyped
    <3>2. CASE ~ (loaded /\ PeopleChanged)
      BY <1>9, <2>1, <3>2, OverTyped DEF RecordIndexed, WriteThrough, RecordsTyped
    <3>3. QED
      BY <3>1, <3>2
  <2>3. SocketsTyped'
    BY <1>9, <2>1, RolesPushedTyped DEF RecordIndexed, SocketsTyped
  <2>4. QED
    BY <1>9, <2>2, <2>3 DEF RecordIndexed, OthersTyped
<1>10. CASE MembersShown /\ UNCHANGED faults
  <2>1. queue # <<>> /\ IsRecord(next)
    BY <1>10 DEF MembersShown, StageTyped, RecordsTyped
  <2>2. RequestsTyped' /\ StageTyped' /\ IsRecord(next') /\ IsRecord(current')
    BY <1>10, <2>1, OverTyped DEF MembersShown
  <2>3. SocketsTyped'
    BY <1>10, <2>1, RolesPushedTyped DEF MembersShown, SocketsTyped
  <2>4. QED
    BY <1>10, <2>2, <2>3 DEF MembersShown, recordVars, RecordsTyped, OthersTyped
<1>11. CASE WriteFails \/ MembersFail
  <2>1. queue # <<>> /\ faults' \in 0 .. MaxFaults
    BY <1>11, FaultsAssumption DEF WriteFails, MembersFail, StageTyped, OthersTyped
  <2>2. RequestsTyped' /\ StageTyped' /\ IsRecord(next') /\ IsRecord(current')
    BY <1>11, <2>1, OverTyped DEF WriteFails, MembersFail
  <2>3. QED
    BY <1>11, <2>1, <2>2 DEF WriteFails, MembersFail, recordVars, RecordsTyped, SocketsTyped, OthersTyped
<1>12. ASSUME NEW s \in Sockets, NEW account \in Accounts, Admit(s, account), UNCHANGED faults
      PROVE  Typed'
  <2> DEFINE role == RoleOf(Current, account)
             socket == [phase |-> "admitted", account |-> account, role |-> role]
  <2>1. role \in Roles \cup LinkRoles \cup {"none"} /\ role # "none"
    BY <1>0, <1>12, RoleTyped DEF Admit
  <2>2. socket \in SocketStates /\ socket.role # "none"
    BY <2>1 DEF SocketStates, Links
  <2>3. SocketsTyped'
    BY <1>12, <2>2, SocketSetTyped DEF Admit
  <2>4. QED
    BY <1>0, <1>12, <2>3 DEF Admit, updateVars, RecordsTyped, RequestsTyped, StageTyped, OthersTyped
<1>13. ASSUME NEW s \in Sockets, Join(s), UNCHANGED faults
      PROVE  Typed'
  <2> DEFINE joined == [sockets[s] EXCEPT !.phase = "joined"]
  <2>1. sockets[s] \in SocketStates /\ sockets[s].role # "none"
    BY <1>13 DEF Join, SocketsTyped
  <2>2. joined \in SocketStates /\ joined.role # "none" /\ NoSocket \in SocketStates /\ NoSocket.phase = "closed"
    BY <2>1, NoSocketTyped DEF SocketStates, NoSocket
  <2>3. sockets' = [sockets EXCEPT ![s] = joined] \/ sockets' = [sockets EXCEPT ![s] = NoSocket]
    BY <1>13 DEF Join, SocketsTyped
  <2>4. SocketsTyped'
    BY <2>2, <2>3, SocketSetTyped
  <2>5. QED
    BY <1>0, <1>13, <2>4 DEF Join, updateVars, RecordsTyped, RequestsTyped, StageTyped, OthersTyped
<1>14. ASSUME NEW s \in Sockets, Opened(s), UNCHANGED faults
      PROVE  Typed'
  <2> DEFINE role == RoleRead(s)
             opened == [sockets[s] EXCEPT !.phase = "open", !.role = role]
  <2>1. sockets[s] \in SocketStates
    BY DEF SocketsTyped
  <2>2. role \in Roles \cup LinkRoles \cup {"none"}
    BY <1>0, <2>1, RoleTyped DEF RoleRead, SocketStates
  <2>3. opened \in SocketStates /\ opened.role = role /\ NoSocket \in SocketStates /\ NoSocket.phase = "closed"
    BY <2>1, <2>2, NoSocketTyped DEF SocketStates, NoSocket, Links
  <2>4. \/ role # "none" /\ sockets' = [sockets EXCEPT ![s] = opened]
        \/ sockets' = [sockets EXCEPT ![s] = NoSocket]
    BY <1>14 DEF Opened, SocketsTyped
  <2> HIDE DEF role, opened
  <2>5. SocketsTyped'
    BY <2>3, <2>4, SocketSetTyped
  <2>6. QED
    BY <1>0, <1>14, <2>5 DEF Opened, updateVars, RecordsTyped, RequestsTyped, StageTyped, OthersTyped
<1>15. ASSUME NEW s \in Sockets, Disconnect(s), UNCHANGED faults
      PROVE  Typed'
  <2>1. SocketsTyped'
    BY <1>15, NoSocketTyped, SocketSetTyped DEF Disconnect, NoSocket
  <2>2. QED
    BY <1>15, <2>1 DEF Disconnect, recordVars, updateVars, RecordsTyped, RequestsTyped, StageTyped, OthersTyped
<1>16. CASE Unload /\ UNCHANGED faults
  BY <1>16 DEF Unload, recordVars, updateVars, RecordsTyped, RequestsTyped, StageTyped, SocketsTyped, OthersTyped
<1>17. CASE Delete /\ UNCHANGED faults
  <2>1. SocketsTyped'
    BY <1>17, NoSocketTyped DEF Delete, SocketsTyped, NoSocket
  <2>2. QED
    BY <1>17, <2>1, NoRecordTyped DEF Delete, updateVars, RecordsTyped, RequestsTyped, StageTyped, OthersTyped
<1>18. CASE (FilesDeleted \/ IndexDeleted) /\ UNCHANGED faults
  BY <1>18, NoRecordTyped
     DEF FilesDeleted, IndexDeleted, updateVars, RecordsTyped, RequestsTyped, StageTyped, SocketsTyped, OthersTyped
<1>19. CASE Restart /\ UNCHANGED faults
  <2>1. RequestsTyped'
    BY <1>19, FS_EmptySet, LimitsAssumption DEF Restart, RequestsTyped
  <2>2. SocketsTyped'
    BY <1>19, NoSocketTyped DEF Restart, SocketsTyped, NoSocket
  <2>3. QED
    BY <1>19, <2>1, <2>2, NoRecordTyped DEF Restart, NotReading, RecordsTyped, StageTyped, OthersTyped
<1>20. CASE (ReadAsked \/ FileRead) /\ UNCHANGED faults
  BY <1>20, NoRecordTyped
     DEF ReadAsked, FileRead, updateVars, RecordsTyped, RequestsTyped, StageTyped, SocketsTyped, OthersTyped
<1>21. CASE ReadReturns
  <2>1. faults' \in 0 .. MaxFaults
    BY <1>21, FaultsAssumption DEF ReadReturns, OthersTyped
  <2>2. QED
    BY <1>21, <2>1, NoRecordTyped
       DEF ReadReturns, NotReading, updateVars, RecordsTyped, RequestsTyped, StageTyped, SocketsTyped, OthersTyped
<1>22. QED
  BY <1>1, <1>2, <1>3, <1>4, <1>5, <1>6, <1>7, <1>8, <1>9, <1>10, <1>11, <1>12, <1>13, <1>14, <1>15, <1>16,
     <1>17, <1>18, <1>19, <1>20, <1>21 DEF Next, Access

LEMMA AlwaysTyped == Spec => []Typed
<1>1. QED
  BY InitTyped, StepTyped, PTL DEF Spec

\* Whatever is shared, read, written, opened, deleted or restarted, the record's copies stay records,
\* the requests under way stay below their bound, and no socket in use is without a role.
THEOREM TypesHold == Spec => []TypeOK
<1>1. Typed => TypeOK
  BY DEF Typed, RecordsTyped, RequestsTyped, StageTyped, SocketsTyped, SocketStates, OthersTyped, TypeOK
<1>2. QED
  BY <1>1, AlwaysTyped, PTL

-----------------------------------------------------------------------------
\* The owner.  Inductive: in every copy of the record the owner has an entry and the owner's
\* entries, and no others, say "owner"; no change that waits would add, demote or remove the
\* owner; and an invitation of the owner is known to be one of a member.

OwnerAmong(members) ==
  /\ \E member \in Range(members) : member.account = Owner
  /\ \A member \in Range(members) : member.role = "owner" <=> member.account = Owner

OwnerAlone(record) == record = NoRecord \/ OwnerAmong(record.members)

SparesOwner(change) == change.kind \in {"add", "setRole", "remove"} => change.account # Owner

OwnerInv ==
  /\ OwnerAlone(stored) /\ OwnerAlone(index) /\ OwnerAlone(cache) /\ OwnerAlone(next)
  /\ OwnerAlone(reading.record)
  /\ \A i \in 1 .. Len(queue) : SparesOwner(queue[i])
  /\ \A invite \in inviting : invite.account = Owner => invite.member

\* A member that is not the owner joins.
LEMMA OwnerAndMember ==
  ASSUME NEW record, IsRecord(record), OwnerAmong(record.members),
         NEW account \in Accounts, account # Owner, NEW role \in GivenRoles
  PROVE  OwnerAmong(WithMember(record, account, role).members)
<1> DEFINE entry == [account |-> account, role |-> role]
<1>1. entry \in Member /\ record.members \in Seq(Member)
  BY DEF Member, Roles, IsRecord
<1>2. WithMember(record, account, role).members = Append(record.members, entry)
  BY DEF WithMember, IsRecord
<1>3. Range(WithMember(record, account, role).members) = Range(record.members) \cup {entry}
  BY <1>1, <1>2, RangeOfAppend
<1>4. entry.role # "owner" /\ entry.account # Owner
  BY RolesAssumption
<1>5. QED
  BY <1>3, <1>4 DEF OwnerAmong

\* The owner is still alone after a change that spares the owner.
LEMMA OwnerAfterChange ==
  ASSUME NEW record, IsRecord(record), OwnerAmong(record.members),
         NEW change \in Change, Changes(change, record), SparesOwner(change)
  PROVE  OwnerAmong(Apply(change, record).members)
<1>0. \A account : WithoutInvitation(record, account).members = record.members
  BY DEF WithoutInvitation, IsRecord
<1>1. CASE change.kind = "add"
  <2>1. change.account \in Accounts /\ change.account # Owner /\ change.role \in GivenRoles
    BY <1>1 DEF Change, SparesOwner
  <2>2. QED
    BY <1>1, <2>1, OwnerAndMember DEF Apply
<1>2. CASE change.kind = "invite"
  <2> DEFINE rest == WithoutInvitation(record, change.account)
             entry == [account |-> change.account, role |-> change.role]
  <2>1. IsRecord(rest) /\ rest.members = record.members
    BY <1>0, WithoutInvitationTyped
  <2>2. Apply(change, record) = [rest EXCEPT !.invited = @ \cup {entry}]
    BY <1>2 DEF Apply
  <2> HIDE DEF rest, entry
  <2>3. QED
    BY <2>1, <2>2 DEF IsRecord
<1>3. CASE change.kind = "setRole"
  <2> DEFINE members == record.members
             after == [i \in DOMAIN members |->
               IF members[i].account = change.account THEN [members[i] EXCEPT !.role = change.role] ELSE members[i]]
  <2>1. Apply(change, record).members = after
    BY <1>3 DEF Apply, IsRecord
  <2>2. change.account # Owner /\ change.role # "owner"
    BY <1>3, RolesAssumption DEF Change, SparesOwner
  <2>3. \A i \in DOMAIN members : members[i] \in Member
    BY DEF IsRecord
  <2>4. DOMAIN after = DOMAIN members
    OBVIOUS
  <2>5. \A i \in DOMAIN members : /\ after[i].account = members[i].account
                                   /\ after[i].role = IF members[i].account = change.account
                                                      THEN change.role ELSE members[i].role
    BY <2>3 DEF Member
  <2> HIDE DEF after
  <2>6. QED
    BY <2>1, <2>2, <2>4, <2>5 DEF OwnerAmong, Range
<1>4. CASE change.kind = "remove"
  <2> DEFINE others == {member \in Range(record.members) : member.account # change.account}
  <2>1. Apply(change, record).members = Kept(record.members, others)
    BY <1>4 DEF Apply, IsRecord
  <2>2. Range(Kept(record.members, others)) = Range(record.members) \cap others
    BY RangeOfKept DEF IsRecord
  <2>3. change.account # Owner
    BY <1>4 DEF SparesOwner
  <2>4. QED
    BY <2>1, <2>2, <2>3 DEF OwnerAmong
<1>5. CASE change.kind = "uninvite"
  BY <1>0, <1>5 DEF Apply
<1>6. CASE change.kind = "accept"
  <2>1. change.account \in Accounts /\ Apply(change, record) = Accepted(record, change.account)
    BY <1>6 DEF Apply, Change
  <2>2. IsRecord(WithoutInvitation(record, change.account))
    BY WithoutInvitationTyped
  <2>3. \E invitation \in record.invited : invitation.account = change.account
    BY <1>6 DEF Changes
  <2>4. change.account \notin MembersOf(record) => change.account # Owner
    BY DEF OwnerAmong, MembersOf
  <2>5. OwnerAmong(WithoutInvitation(record, change.account).members)
    BY <1>0
  <2>6. \A role \in GivenRoles : change.account # Owner =>
           OwnerAmong(WithMember(WithoutInvitation(record, change.account), change.account, role).members)
    BY <2>1, <2>2, <2>5, OwnerAndMember
  <2>7. QED
    BY <2>1, <2>3, <2>4, <2>5, <2>6, AcceptedIs
<1>7. CASE change.kind = "link"
  BY <1>7 DEF Apply, Change, IsRecord
<1>8. CASE change.kind = "touch"
  BY <1>8 DEF Apply
<1>9. QED
  BY <1>1, <1>2, <1>3, <1>4, <1>5, <1>6, <1>7, <1>8 DEF Change

LEMMA OwnerOfNobody == OwnerAlone(NoRecord)
BY DEF OwnerAlone

\* The queue after one more change, or one less.
LEMMA SparingQueue ==
  ASSUME Typed, \A i \in 1 .. Len(queue) : SparesOwner(queue[i]),
         \/ UNCHANGED queue
         \/ \E change \in Change : SparesOwner(change) /\ Enqueue(change)
         \/ queue # <<>> /\ queue' = Tail(queue)
         \/ queue' = <<>>
  PROVE  \A i \in 1 .. Len(queue') : SparesOwner(queue'[i])
<1>1. queue \in Seq(Change)
  BY DEF Typed, RequestsTyped
<1>2. CASE UNCHANGED queue
  BY <1>2
<1>3. ASSUME NEW change \in Change, SparesOwner(change), queue' = Append(queue, change)
      PROVE  \A i \in 1 .. Len(queue') : SparesOwner(queue'[i])
  <2>1. Len(queue') = Len(queue) + 1 /\ \A i \in 1 .. Len(queue') : queue'[i] = IF i <= Len(queue) THEN queue[i] ELSE change
    BY <1>1, <1>3
  <2>2. QED
    BY <1>1, <1>3, <2>1
<1>4. CASE queue # <<>> /\ queue' = Tail(queue)
  <2>1. Len(queue') = Len(queue) - 1 /\ \A i \in 1 .. Len(queue') : queue'[i] = queue[i + 1]
    BY <1>1, <1>4
  <2>2. QED
    BY <1>1, <2>1
<1>5. CASE queue' = <<>>
  BY <1>5
<1>6. QED
  BY <1>2, <1>3, <1>4, <1>5 DEF Enqueue

LEMMA InitOwner == Init => OwnerInv
<1> SUFFICES ASSUME Init PROVE OwnerInv
  OBVIOUS
<1> DEFINE entry == [account |-> Owner, role |-> "owner"]
<1>1. Range(BlankRecord.members) = {entry}
  BY DEF BlankRecord, Range
<1>2. OwnerAlone(BlankRecord)
  BY <1>1 DEF OwnerAlone, OwnerAmong
<1>3. QED
  BY <1>2, OwnerOfNobody DEF Init, NotReading, OwnerInv

LEMMA StepOwner ==
  ASSUME Typed, OwnerInv, [Next]_vars
  PROVE  OwnerInv'
<1>0. OwnerAlone(Current) /\ (ReadRecord => OwnerAlone(cache') /\ UNCHANGED reading) /\ IsRecord(Current)
  BY OwnerOfNobody, CurrentTyped DEF OwnerInv, ReadRecord, Current, Typed
<1>1. CASE UNCHANGED vars
  BY <1>1 DEF vars, recordVars, updateVars, OwnerInv
<1>2. ASSUME NEW change \in Change, Request(change)
      PROVE  OwnerInv'
  <2>1. SparesOwner(change)
    BY <1>2 DEF Request, SparesOwner, Changeable
  <2>2. \A i \in 1 .. Len(queue') : SparesOwner(queue'[i])
    BY <1>2, <2>1, SparingQueue DEF Request, OwnerInv
  <2>3. QED
    BY <1>0, <1>2, <2>2 DEF Request, OwnerInv
<1>3. CASE Touch
  <2>1. [kind |-> "touch"] \in Change /\ SparesOwner([kind |-> "touch"])
    BY DEF Change, SparesOwner
  <2>2. \A i \in 1 .. Len(queue') : SparesOwner(queue'[i])
    BY <1>3, <2>1, SparingQueue DEF Touch, OwnerInv
  <2>3. QED
    BY <1>3, <2>2 DEF Touch, recordVars, OwnerInv
<1>4. ASSUME NEW account \in Accounts, NEW role \in GivenRoles, Invite(account, role)
      PROVE  OwnerInv'
  <2>1. Owner \in MembersOf(Current)
    BY <1>0, <1>4 DEF Invite, OwnerAlone, OwnerAmong, MembersOf
  <2> DEFINE invite == [account |-> account, role |-> role, member |-> account \in MembersOf(Current)]
  <2>2. invite.account = Owner => invite.member
    BY <2>1
  <2>3. inviting' = inviting \cup {invite}
    BY <1>4 DEF Invite
  <2> HIDE DEF invite
  <2>4. QED
    BY <1>0, <1>4, <2>2, <2>3 DEF Invite, updateVars, OwnerInv
<1>5. ASSUME NEW invite \in inviting, InviteeFound(invite)
      PROVE  OwnerInv'
  <2> DEFINE add == [kind |-> "add", account |-> invite.account, role |-> invite.role]
             ask == [kind |-> "invite", account |-> invite.account, role |-> invite.role]
  <2>1. invite.account \in Accounts /\ invite.role \in GivenRoles
    BY DEF Typed, RequestsTyped
  <2>2. add \in Change /\ ask \in Change /\ SparesOwner(ask) /\ (~ invite.member => SparesOwner(add))
    BY <2>1 DEF Change, SparesOwner, OwnerInv
  <2>3. UNCHANGED queue \/ \E change \in Change : SparesOwner(change) /\ Enqueue(change)
    BY <1>5, <2>2 DEF InviteeFound
  <2>4. \A i \in 1 .. Len(queue') : SparesOwner(queue'[i])
    BY <2>3, SparingQueue DEF OwnerInv
  <2>5. QED
    BY <1>5, <2>4 DEF InviteeFound, recordVars, OwnerInv
<1>6. ASSUME NEW account \in Accounts, SignIn(account)
      PROVE  OwnerInv'
  <2>1. [kind |-> "accept", account |-> account] \in Change /\ SparesOwner([kind |-> "accept", account |-> account])
    BY DEF Change, SparesOwner
  <2>2. \A i \in 1 .. Len(queue') : SparesOwner(queue'[i])
    BY <1>6, <2>1, SparingQueue DEF SignIn, OwnerInv
  <2>3. QED
    BY <1>6, <2>2 DEF SignIn, recordVars, OwnerInv
<1>7. CASE UpdateBegins
  <2>1. CASE Current # NoRecord /\ Changes(Head(queue), Current)
    <3>1. Head(queue) \in Change /\ SparesOwner(Head(queue))
      <4>1. queue \in Seq(Change) /\ queue # <<>>
        BY <1>7 DEF UpdateBegins, Typed, RequestsTyped
      <4>2. Head(queue) = queue[1] /\ 1 \in 1 .. Len(queue)
        BY <4>1
      <4>3. QED
        BY <4>1, <4>2 DEF OwnerInv
    <3>2. OwnerAmong(Apply(Head(queue), Current).members)
      BY <1>0, <2>1, <3>1, OwnerAfterChange DEF OwnerAlone
    <3>3. QED
      BY <1>0, <1>7, <2>1, <3>2 DEF UpdateBegins, OwnerInv, OwnerAlone
  <2>2. CASE ~ (Current # NoRecord /\ Changes(Head(queue), Current))
    <3>1. \A i \in 1 .. Len(queue') : SparesOwner(queue'[i])
      BY <1>7, <2>2, SparingQueue DEF UpdateBegins, Over, OwnerInv
    <3>2. QED
      BY <1>0, <1>7, <2>2, <3>1, OwnerOfNobody DEF UpdateBegins, Over, OwnerInv
  <2>3. QED
    BY <2>1, <2>2
<1>8. CASE RecordStored
  BY <1>8 DEF RecordStored, OwnerInv
<1>9. CASE RecordIndexed \/ MembersShown \/ WriteFails \/ MembersFail
  <2>1. UNCHANGED queue \/ (queue # <<>> /\ queue' = Tail(queue))
    BY <1>9 DEF RecordIndexed, MembersShown, WriteFails, MembersFail, Over, Typed, StageTyped
  <2>2. \A i \in 1 .. Len(queue') : SparesOwner(queue'[i])
    BY <2>1, SparingQueue DEF OwnerInv
  <2>3. QED
    BY <1>9, <2>2, OwnerOfNobody
       DEF RecordIndexed, MembersShown, WriteFails, MembersFail, WriteThrough, Over, recordVars, OwnerInv
<1>10. ASSUME NEW s \in Sockets, (\E account \in Accounts : Admit(s, account)) \/ Join(s) \/ Opened(s) \/ Disconnect(s)
       PROVE  OwnerInv'
  BY <1>0, <1>10 DEF Admit, Join, Opened, Disconnect, recordVars, updateVars, ReadRecord, OwnerInv
<1>11. CASE Unload
  BY <1>11 DEF Unload, recordVars, updateVars, OwnerInv
<1>12. CASE Delete \/ FilesDeleted \/ IndexDeleted
  BY <1>12, OwnerOfNobody DEF Delete, FilesDeleted, IndexDeleted, updateVars, OwnerInv
<1>13. CASE Restart
  BY <1>13, OwnerOfNobody DEF Restart, NotReading, OwnerInv
<1>14. CASE ReadAsked \/ FileRead \/ ReadReturns
  BY <1>14, OwnerOfNobody DEF ReadAsked, FileRead, ReadReturns, NotReading, updateVars, OwnerInv
<1>15. QED
  BY <1>1, <1>2, <1>3, <1>4, <1>5, <1>6, <1>7, <1>8, <1>9, <1>10, <1>11, <1>12, <1>13, <1>14 DEF Next, Access

\* In every copy of the record, whatever was shared, accepted, demoted, removed or lost by a
\* failed write or a restart: the owner, and nobody else, has the role "owner".
THEOREM OwnerHolds == Spec => []OwnerStays
<1>1. ASSUME Typed, OwnerInv
      PROVE  OwnerStays
  <2>1. SUFFICES ASSUME NEW record \in {stored, index, cache, next} \ {NoRecord}, NEW account \in Accounts
                PROVE  RoleOf(record, account) = "owner" <=> account = Owner
    BY DEF OwnerStays
  <2>2. IsRecord(record) /\ OwnerAmong(record.members)
    BY <1>1 DEF Typed, RecordsTyped, OwnerInv, OwnerAlone
  <2>3. CASE account \in MembersOf(record)
    BY <2>2, <2>3, RoleComesFrom DEF OwnerAmong
  <2>4. CASE account \notin MembersOf(record)
    <3>1. account # Owner
      BY <2>2, <2>4 DEF OwnerAmong, MembersOf
    <3>2. RoleOf(record, account) \in LinkRoles \cup {"none"}
      BY <2>2, <2>4, RoleComesFrom
    <3>3. QED
      BY <3>1, <3>2, RolesAssumption
  <2>5. QED
    BY <2>3, <2>4
<1>2. QED
  BY <1>1, InitOwner, StepOwner, AlwaysTyped, PTL DEF Spec

-----------------------------------------------------------------------------
\* Connection limits.  Inductive: they hold of every socket in use, the ones being opened
\* with the ones the room knows of.

InUse == {s \in Sockets : sockets[s].phase # "closed"}

LimitsInv ==
  /\ Cardinality(InUse) <= MaxDeckConnections
  /\ \A account \in Accounts : Cardinality(OfAccount(InUse, account)) <= MaxAccountConnections

\* No socket comes into use or changes hands.
NoSocketMore ==
  \A s \in Sockets : sockets'[s].phase # "closed" =>
    sockets[s].phase # "closed" /\ sockets'[s].account = sockets[s].account

\* A set that is no larger than one within a limit.
LEMMA SmallerWithin ==
  ASSUME NEW S \in SUBSET Sockets, NEW T \in SUBSET S, NEW n \in Nat, Cardinality(S) <= n
  PROVE  Cardinality(T) <= n
<1>1. IsFiniteSet(S)
  BY SocketsAssumption, FS_Subset
<1>2. Cardinality(T) <= Cardinality(S) /\ IsFiniteSet(T)
  BY <1>1, FS_Subset
<1>3. Cardinality(T) \in Nat /\ Cardinality(S) \in Nat
  BY <1>1, <1>2, FS_CardinalityType
<1>4. QED
  BY <1>2, <1>3

\* A socket more, where two sets that cover the others are together below a limit.
LEMMA OneMoreWithin ==
  ASSUME NEW S \in SUBSET Sockets, NEW T \in SUBSET Sockets, NEW s, NEW n \in Nat,
         Cardinality(S) + Cardinality(T) < n
  PROVE  Cardinality((S \cup T) \cup {s}) <= n
<1>1. IsFiniteSet(S) /\ IsFiniteSet(T) /\ IsFiniteSet(S \cap T)
  BY SocketsAssumption, FS_Subset
<1>2. /\ IsFiniteSet(S \cup T)
      /\ Cardinality(S \cup T) = Cardinality(S) + Cardinality(T) - Cardinality(S \cap T)
  BY <1>1, FS_Union
<1>3. Cardinality(S) \in Nat /\ Cardinality(T) \in Nat /\ Cardinality(S \cap T) \in Nat /\ Cardinality(S \cup T) \in Nat
  BY <1>1, <1>2, FS_CardinalityType
<1>4. Cardinality((S \cup T) \cup {s}) = IF s \in S \cup T THEN Cardinality(S \cup T) ELSE Cardinality(S \cup T) + 1
  BY <1>2, FS_AddElement
<1>5. QED
  BY <1>2, <1>3, <1>4

\* What RolesPushed does to a socket.
LEMMA PushedSocket ==
  ASSUME SocketsTyped, NEW record, NEW s \in Sockets
  PROVE  \/ RolesPushed(record)[s] = NoSocket
         \/ /\ RolesPushed(record)[s].phase = sockets[s].phase
            /\ RolesPushed(record)[s].account = sockets[s].account
BY DEF SocketsTyped, SocketStates, RolesPushed

\* A socket comes into use only by being admitted.
LEMMA StepSockets ==
  ASSUME Typed, [Next]_vars
  PROVE  NoSocketMore \/ \E s \in Sockets, account \in Accounts : Admit(s, account)
<1>0. SocketsTyped
  BY DEF Typed
<1>1. ASSUME UNCHANGED sockets
      PROVE  NoSocketMore
  BY <1>1 DEF NoSocketMore
<1>2. ASSUME NEW record, sockets' = RolesPushed(record)
      PROVE  NoSocketMore
  BY <1>0, <1>2, PushedSocket DEF NoSocketMore, NoSocket
<1>3. ASSUME NEW s \in Sockets, NEW socket, sockets' = [sockets EXCEPT ![s] = socket],
             socket.phase # "closed" => sockets[s].phase # "closed" /\ socket.account = sockets[s].account
      PROVE  NoSocketMore
  BY <1>0, <1>3 DEF NoSocketMore, SocketsTyped
<1>4. CASE UNCHANGED vars
  BY <1>1, <1>4 DEF vars
<1>5. CASE \/ \E change \in Change : Request(change)
           \/ Touch
           \/ \E account \in Accounts, role \in GivenRoles : Invite(account, role)
           \/ \E invite \in inviting : InviteeFound(invite)
           \/ \E account \in Accounts : SignIn(account)
           \/ RecordStored \/ WriteFails \/ MembersFail \/ Unload \/ FilesDeleted \/ IndexDeleted
           \/ ReadAsked \/ FileRead \/ ReadReturns
  BY <1>1, <1>5 DEF Request, Touch, Invite, InviteeFound, SignIn, RecordStored, WriteFails, MembersFail, Unload,
                    FilesDeleted, IndexDeleted, ReadAsked, FileRead, ReadReturns
<1>6. CASE UpdateBegins \/ RecordIndexed \/ MembersShown
  BY <1>1, <1>2, <1>6 DEF UpdateBegins, RecordIndexed, MembersShown
<1>7. ASSUME NEW s \in Sockets, Join(s)
      PROVE  NoSocketMore
  <2>1. sockets[s] \in SocketStates /\ sockets[s].phase # "closed"
    BY <1>0, <1>7 DEF Join, SocketsTyped
  <2>2. \/ sockets' = [sockets EXCEPT ![s] = [sockets[s] EXCEPT !.phase = "joined"]]
        \/ sockets' = [sockets EXCEPT ![s] = NoSocket]
    BY <1>0, <1>7 DEF Join, SocketsTyped
  <2>3. [sockets[s] EXCEPT !.phase = "joined"].account = sockets[s].account
    BY <2>1 DEF SocketStates
  <2>4. QED
    BY <1>3, <2>1, <2>2, <2>3 DEF NoSocket
<1>8. ASSUME NEW s \in Sockets, Opened(s)
      PROVE  NoSocketMore
  <2> DEFINE opened == [sockets[s] EXCEPT !.phase = "open", !.role = RoleRead(s)]
  <2>1. sockets[s] \in SocketStates /\ sockets[s].phase # "closed"
    BY <1>0, <1>8 DEF Opened, SocketsTyped
  <2>2. sockets' = [sockets EXCEPT ![s] = opened] \/ sockets' = [sockets EXCEPT ![s] = NoSocket]
    BY <1>0, <1>8 DEF Opened, SocketsTyped
  <2>3. opened.account = sockets[s].account
    BY <2>1 DEF SocketStates
  <2> HIDE DEF opened
  <2>4. QED
    BY <1>3, <2>1, <2>2, <2>3 DEF NoSocket
<1>9. ASSUME NEW s \in Sockets, Disconnect(s)
      PROVE  NoSocketMore
  BY <1>3, <1>9 DEF Disconnect, NoSocket
<1>10. CASE Delete \/ Restart
  BY <1>0, <1>10 DEF Delete, Restart, NoSocketMore, NoSocket, SocketsTyped
<1>11. QED
  BY <1>4, <1>5, <1>6, <1>7, <1>8, <1>9, <1>10 DEF Next, Access

LEMMA InitLimits == Init => LimitsInv
<1> SUFFICES ASSUME Init PROVE LimitsInv
  OBVIOUS
<1>1. InUse = {} /\ \A account \in Accounts : OfAccount(InUse, account) = {}
  BY DEF Init, InUse, NoSocket, OfAccount
<1>2. QED
  BY <1>1, FS_EmptySet, LimitsAssumption DEF LimitsInv

LEMMA StepLimits ==
  ASSUME Typed, LimitsInv, [Next]_vars
  PROVE  LimitsInv'
<1>0. SocketsTyped
  BY DEF Typed
<1>1. CASE NoSocketMore
  <2>1. InUse' \in SUBSET InUse /\ InUse \in SUBSET Sockets
    BY <1>1 DEF NoSocketMore, InUse
  <2>2. \A account \in Accounts : OfAccount(InUse, account)' \in SUBSET OfAccount(InUse, account)
    BY <1>1, <2>1 DEF NoSocketMore, OfAccount, InUse
  <2>3. \A account \in Accounts : OfAccount(InUse, account) \in SUBSET Sockets
    BY <2>1 DEF OfAccount
  <2>4. QED
    BY <2>1, <2>2, <2>3, SmallerWithin, LimitsAssumption DEF LimitsInv
<1>2. ASSUME NEW s \in Sockets, NEW account \in Accounts, Admit(s, account)
      PROVE  LimitsInv'
  <2>1. /\ sockets' = [sockets EXCEPT ![s] = [phase |-> "admitted", account |-> account, role |-> RoleOf(Current, account)]]
        /\ BelowLimits(account)
    BY <1>2 DEF Admit
  <2>2. \A t \in Sockets : /\ sockets'[t] = IF t = s THEN [phase |-> "admitted", account |-> account, role |-> RoleOf(Current, account)]
                                             ELSE sockets[t]
                           /\ sockets[t].phase # "closed" => t \in Registered \cup Connecting
    BY <1>0, <2>1 DEF SocketsTyped, SocketStates, Registered, Connecting
  <2>3. InUse' = (Registered \cup Connecting) \cup {s}
    BY <2>2 DEF InUse, Registered, Connecting
  <2>4. OfAccount(InUse, account)' = (OfAccount(Registered, account) \cup OfAccount(Connecting, account)) \cup {s}
    BY <2>2, <2>3 DEF OfAccount, Registered, Connecting
  <2>5. \A other \in Accounts \ {account} : OfAccount(InUse, other)' \in SUBSET OfAccount(InUse, other)
    BY <2>2 DEF OfAccount, InUse
  <2>6. /\ Registered \in SUBSET Sockets /\ Connecting \in SUBSET Sockets
        /\ \A other : OfAccount(Registered, other) \in SUBSET Sockets /\ OfAccount(Connecting, other) \in SUBSET Sockets
        /\ \A other : OfAccount(InUse, other) \in SUBSET Sockets
    BY DEF Registered, Connecting, OfAccount, InUse
  <2>7. Cardinality(InUse') <= MaxDeckConnections
    BY <2>1, <2>3, <2>6, OneMoreWithin, LimitsAssumption DEF BelowLimits
  <2>8. Cardinality(OfAccount(InUse, account)') <= MaxAccountConnections
    BY <2>1, <2>4, <2>6, OneMoreWithin, LimitsAssumption DEF BelowLimits
  <2>9. \A other \in Accounts \ {account} : Cardinality(OfAccount(InUse, other)') <= MaxAccountConnections
    BY <2>5, <2>6, SmallerWithin, LimitsAssumption DEF LimitsInv
  <2>10. QED
    BY <2>7, <2>8, <2>9 DEF LimitsInv
<1>3. QED
  BY <1>1, <1>2, StepSockets

\* However many upgrades are under way at once, and whatever their awaits let in between, the
\* deck's room and each account stay within their limits.
THEOREM LimitsHold == Spec => []ConnectionsWithinLimits
<1>1. ASSUME Typed, LimitsInv
      PROVE  ConnectionsWithinLimits
  <2>1. Registered \in SUBSET InUse /\ InUse \in SUBSET Sockets
    BY DEF Registered, InUse
  <2>2. \A account \in Accounts : /\ OfAccount(Registered, account) \in SUBSET OfAccount(InUse, account)
                                   /\ OfAccount(InUse, account) \in SUBSET Sockets
    BY <2>1 DEF OfAccount
  <2>3. QED
    BY <1>1, <2>1, <2>2, SmallerWithin, LimitsAssumption DEF ConnectionsWithinLimits, LimitsInv
<1>2. QED
  BY <1>1, InitLimits, StepLimits, AlwaysTyped, PTL DEF Spec

-----------------------------------------------------------------------------
\* Serialised changes.  Inductive, before the first fault: a change that runs was made to the one
\* record that the file and the cache hold, and the file holds it until the change is stored;
\* only the deletion takes the record from either.  No change runs while nothing is cached, unless
\* the deck is being deleted, and then no read is under way: so a read that finds nothing cached
\* when it returns read the record as it is.

\* The change that runs was made to this record.
RunsOn(record) ==
  /\ record # NoRecord /\ Changes(Head(queue), record)
  /\ next = Apply(Head(queue), record) /\ next # NoRecord

IdleInv == cache = NoRecord \/ stored = NoRecord \/ cache = stored

StoringInv ==
  \E record : /\ RunsOn(record)
              /\ cache \in {NoRecord, record} /\ stored \in {NoRecord, record}
              /\ deletion = "no" => stored = record

IndexingInv ==
  /\ \E record : RunsOn(record) /\ cache \in {NoRecord, record, next}
  /\ stored \in {NoRecord, next}
  /\ deletion = "no" => stored = next

ShowingInv ==
  /\ next # NoRecord
  /\ cache \in {NoRecord, next} /\ stored \in {NoRecord, next}
  /\ deletion = "no" => stored = next

SerialInv ==
  faults = 0 =>
    /\ stage = "idle" => IdleInv
    /\ stage = "storing" => StoringInv
    /\ stage = "indexing" => IndexingInv
    /\ stage = "showing" => ShowingInv
    /\ deletion = "no" /\ cache # NoRecord => stored # NoRecord

ReadsInv ==
  /\ reading # NotReading => deletion = "no"
  /\ faults = 0 =>
       /\ deletion = "no" /\ stage # "idle" => cache # NoRecord
       /\ reading.phase = "read" /\ cache = NoRecord => reading.record = stored

LEMMA InitReads == Init => ReadsInv
BY DEF Init, NotReading, ReadsInv

LEMMA StepReads ==
  ASSUME Typed, ReadsInv, SerialInv, [Next]_vars
  PROVE  ReadsInv'
<1>0. ReadRecord => UNCHANGED reading /\ (cache # NoRecord => cache' = cache)
  BY DEF ReadRecord, Current
<1>a. faults \in Nat
  BY FaultsAssumption DEF Typed, OthersTyped
<1>1. CASE UNCHANGED vars
  BY <1>1 DEF vars, recordVars, updateVars, ReadsInv
<1>2. ASSUME UNCHANGED <<faults, stored, stage, deletion, reading>>, cache # NoRecord => cache' = cache
      PROVE  ReadsInv'
  BY <1>2 DEF ReadsInv
<1>3. ASSUME \/ \E change \in Change : Request(change)
             \/ Touch
             \/ \E account \in Accounts, role \in GivenRoles : Invite(account, role)
             \/ \E invite \in inviting : InviteeFound(invite)
             \/ \E account \in Accounts : SignIn(account)
             \/ \E s \in Sockets, account \in Accounts : Admit(s, account)
             \/ \E s \in Sockets : Opened(s) \/ Disconnect(s)
             \/ Unload,
             UNCHANGED faults
      PROVE  ReadsInv'
  BY <1>0, <1>2, <1>3 DEF Request, Touch, Invite, InviteeFound, SignIn, Admit, Opened, Disconnect, Unload,
                          recordVars, updateVars
<1>4. ASSUME NEW s \in Sockets, Join(s), UNCHANGED faults
      PROVE  ReadsInv'
  <2>1. cache # NoRecord => cache' = cache
    BY <1>4 DEF Join, Current
  <2>2. QED
    BY <1>2, <1>4, <2>1 DEF Join, updateVars
<1>5. CASE UpdateBegins /\ UNCHANGED faults
  <2>1. UNCHANGED <<stored, deletion, reading>> /\ cache' = Current /\ (cache # NoRecord => cache' = cache)
    BY <1>0, <1>5 DEF UpdateBegins, ReadRecord
  <2>2. stage' # "idle" => cache' # NoRecord
    BY <1>5, <2>1 DEF UpdateBegins, Over
  <2>3. QED
    BY <1>5, <2>1, <2>2 DEF ReadsInv
<1>6. CASE RecordStored /\ UNCHANGED faults
  BY <1>6 DEF RecordStored, ReadsInv, NotReading
<1>7. CASE RecordIndexed /\ UNCHANGED faults
  <2>1. UNCHANGED <<stored, deletion, reading>> /\ cache' = next /\ stage = "indexing"
    BY <1>7 DEF RecordIndexed, WriteThrough
  <2>2. faults = 0 => next # NoRecord
    BY <2>1 DEF SerialInv, IndexingInv, RunsOn
  <2>3. QED
    BY <1>7, <2>1, <2>2 DEF ReadsInv
<1>8. CASE (MembersShown /\ UNCHANGED faults) \/ WriteFails \/ MembersFail
  BY <1>8, <1>a DEF MembersShown, WriteFails, MembersFail, Over, recordVars, ReadsInv, NotReading
<1>9. CASE (Delete \/ FilesDeleted \/ IndexDeleted) /\ UNCHANGED faults
  BY <1>9 DEF Delete, FilesDeleted, IndexDeleted, updateVars, ReadsInv, NotReading
<1>10. CASE Restart /\ UNCHANGED faults
  BY <1>10 DEF Restart, ReadsInv, NotReading
<1>11. CASE ((ReadAsked \/ FileRead) /\ UNCHANGED faults) \/ ReadReturns
  BY <1>11, <1>a DEF ReadAsked, FileRead, ReadReturns, updateVars, ReadsInv, NotReading
<1>12. QED
  BY <1>1, <1>3, <1>4, <1>5, <1>6, <1>7, <1>8, <1>9, <1>10, <1>11 DEF Next, Access

\* Nothing or the record of the file is cached, where nothing was, by a step before a fault.
ReadsThrough == cache' = cache \/ (cache = NoRecord /\ cache' \in {NoRecord, stored})

LEMMA CurrentReadsThrough ==
  ASSUME cache' = Current
  PROVE  ReadsThrough
BY DEF Current, ReadsThrough

LEMMA ReturnReadsThrough ==
  ASSUME Typed, ReadsInv, ReadReturns, faults' = 0
  PROVE  ReadsThrough /\ faults = 0 /\ UNCHANGED <<stored, index, updateVars, deletion, loaded, sockets>>
<1>1. faults \in Nat
  BY FaultsAssumption DEF Typed, OthersTyped
<1>2. QED
  BY <1>1 DEF ReadReturns, ReadsInv, ReadsThrough

\* A step that does not touch the file or the change that runs, and at most reads the record.
LEMMA OnlyReads ==
  ASSUME SerialInv, faults = 0, UNCHANGED <<stored, next, stage, deletion>>,
         ReadsThrough, stage # "idle" => Head(queue') = Head(queue)
  PROVE  SerialInv'
<1>1. cache' \in {cache, stored, NoRecord} /\ (cache # NoRecord => cache' = cache)
  BY DEF ReadsThrough
<1>2. ASSUME stage = "idle"
      PROVE  IdleInv'
  BY <1>1, <1>2 DEF SerialInv, IdleInv
<1>3. ASSUME stage = "storing"
      PROVE  StoringInv'
  <2>1. PICK record : /\ RunsOn(record)
                      /\ cache \in {NoRecord, record} /\ stored \in {NoRecord, record}
                      /\ deletion = "no" => stored = record
    BY <1>3 DEF SerialInv, StoringInv
  <2>2. RunsOn(record)'
    BY <1>3, <2>1 DEF RunsOn
  <2>3. QED
    BY <1>1, <2>1, <2>2 DEF StoringInv
<1>4. ASSUME stage = "indexing"
      PROVE  IndexingInv'
  <2>1. PICK record : RunsOn(record) /\ cache \in {NoRecord, record, next}
    BY <1>4 DEF SerialInv, IndexingInv
  <2>2. RunsOn(record)'
    BY <1>4, <2>1 DEF RunsOn
  <2>3. stored \in {NoRecord, next} /\ (deletion = "no" => stored = next)
    BY <1>4 DEF SerialInv, IndexingInv
  <2>4. QED
    BY <1>1, <2>1, <2>2, <2>3 DEF IndexingInv
<1>5. ASSUME stage = "showing"
      PROVE  ShowingInv'
  BY <1>1, <1>5 DEF SerialInv, ShowingInv
<1>6. QED
  BY <1>1, <1>2, <1>3, <1>4, <1>5 DEF SerialInv

LEMMA InitSerial == Init => SerialInv
BY DEF Init, SerialInv, IdleInv

LEMMA StepSerial ==
  ASSUME Typed, OwnerInv, ReadsInv, SerialInv, [Next]_vars
  PROVE  SerialInv'
<1> SUFFICES ASSUME faults' = 0
             PROVE  SerialInv'
  BY DEF SerialInv
<1>0. queue \in Seq(Change)
  BY DEF Typed, RequestsTyped
<1>a. faults \in Nat
  BY FaultsAssumption DEF Typed, OthersTyped
<1>b. stage # "idle" => queue # <<>>
  BY DEF Typed, StageTyped
<1>c. ASSUME NEW change \in Change, Enqueue(change), stage # "idle"
      PROVE  Head(queue') = Head(queue)
  BY <1>0, <1>b, <1>c DEF Enqueue
<1>d. cache' = cache \/ ReadRecord \/ (\E s \in Sockets : Join(s)) => ReadsThrough
  BY CurrentReadsThrough DEF ReadRecord, Join, ReadsThrough
<1>1. CASE UNCHANGED vars
  BY <1>1, <1>d, OnlyReads DEF vars, recordVars, updateVars
<1>2. ASSUME NEW change \in Change, Request(change), UNCHANGED faults
      PROVE  SerialInv'
  BY <1>2, <1>c, <1>d, OnlyReads DEF Request
<1>3. CASE Touch /\ UNCHANGED faults
  <2>1. [kind |-> "touch"] \in Change
    BY DEF Change
  <2>2. QED
    BY <1>3, <1>c, <1>d, <2>1, OnlyReads DEF Touch, recordVars
<1>4. ASSUME NEW account \in Accounts, NEW role \in GivenRoles, Invite(account, role), UNCHANGED faults
      PROVE  SerialInv'
  BY <1>4, <1>d, OnlyReads DEF Invite, updateVars
<1>5. ASSUME NEW invite \in inviting, InviteeFound(invite), UNCHANGED faults
      PROVE  SerialInv'
  <2>1. /\ [kind |-> "add", account |-> invite.account, role |-> invite.role] \in Change
        /\ [kind |-> "invite", account |-> invite.account, role |-> invite.role] \in Change
    BY DEF Change, Typed, RequestsTyped
  <2>2. stage # "idle" => Head(queue') = Head(queue)
    BY <1>5, <1>c, <2>1 DEF InviteeFound
  <2>3. QED
    BY <1>5, <1>d, <2>2, OnlyReads DEF InviteeFound, recordVars
<1>6. ASSUME NEW account \in Accounts, SignIn(account), UNCHANGED faults
      PROVE  SerialInv'
  <2>1. [kind |-> "accept", account |-> account] \in Change
    BY DEF Change
  <2>2. stage # "idle" => Head(queue') = Head(queue)
    BY <1>6, <1>c, <2>1 DEF SignIn
  <2>3. QED
    BY <1>6, <1>d, <2>2, OnlyReads DEF SignIn, recordVars
<1>7. CASE UpdateBegins /\ UNCHANGED faults
  <2>1. Current \in {cache, stored, NoRecord} /\ (cache # NoRecord => Current = cache) /\ cache' = Current /\ stage = "idle"
    BY <1>7 DEF Current, UpdateBegins, ReadRecord
  <2>2. IdleInv /\ (deletion = "no" /\ cache # NoRecord => stored # NoRecord)
    BY <1>7, <2>1 DEF SerialInv
  <2>3. CASE Current # NoRecord /\ Changes(Head(queue), Current)
    <3>1. queue # <<>> /\ next' = Apply(Head(queue), Current) /\ stage' = "storing" /\ UNCHANGED <<queue, stored, deletion>>
      BY <1>7, <2>3 DEF UpdateBegins
    <3>2. Head(queue) \in Change /\ SparesOwner(Head(queue))
      <4>1. Head(queue) = queue[1] /\ 1 \in 1 .. Len(queue)
        BY <1>0, <3>1
      <4>2. QED
        BY <1>0, <4>1 DEF OwnerInv
    <3>3. IsRecord(Current) /\ OwnerAmong(Current.members)
      BY <2>3, OwnerOfNobody, CurrentTyped DEF OwnerInv, OwnerAlone, Current, Typed
    <3>4. next' # NoRecord
      <4>1. OwnerAmong(next'.members)
        BY <2>3, <3>1, <3>2, <3>3, OwnerAfterChange
      <4>2. NoRecord.members = <<>> /\ Range(<<>>) = {}
        BY DEF NoRecord, Range
      <4>3. QED
        BY <4>1, <4>2 DEF OwnerAmong
    <3>5. RunsOn(Current)'
      <4>1. Current' = Current
        BY <2>1, <2>2, <2>3, <3>1 DEF Current
      <4>2. QED
        BY <2>3, <3>1, <3>4, <4>1 DEF RunsOn
    <3>6. \E record : RunsOn(record)' /\ record = Current
      <4>1. Current' = Current
        BY <2>1, <2>2, <2>3, <3>1 DEF Current
      <4>2. QED
        BY <3>5, <4>1
    <3>7. stored \in {NoRecord, Current} /\ (deletion = "no" => stored = Current)
      BY <2>1, <2>2, <2>3 DEF IdleInv
    <3>8. StoringInv'
      BY <2>1, <3>1, <3>6, <3>7 DEF StoringInv
    <3>9. QED
      BY <2>1, <2>3, <3>1, <3>7, <3>8 DEF SerialInv
  <2>4. CASE ~ (Current # NoRecord /\ Changes(Head(queue), Current))
    <3>1. stage' = "idle" /\ UNCHANGED <<stored, deletion>>
      BY <1>7, <2>4 DEF UpdateBegins, Over
    <3>2. QED
      BY <2>1, <2>2, <3>1 DEF SerialInv, IdleInv
  <2>5. QED
    BY <2>3, <2>4
<1>8. CASE RecordStored /\ UNCHANGED faults
  <2>1. PICK record : RunsOn(record) /\ cache \in {NoRecord, record}
    BY <1>8 DEF RecordStored, SerialInv, StoringInv
  <2>2. RunsOn(record)'
    BY <1>8, <2>1 DEF RecordStored, RunsOn
  <2>3. stage' = "indexing" /\ stored' = next /\ next' = next /\ cache' = cache /\ next # NoRecord
    BY <1>8, <2>1 DEF RecordStored, RunsOn
  <2>4. IndexingInv'
    BY <2>1, <2>2, <2>3 DEF IndexingInv
  <2>5. QED
    BY <2>3, <2>4 DEF SerialInv
<1>9. CASE RecordIndexed /\ UNCHANGED faults
  <2>1. next # NoRecord /\ stored \in {NoRecord, next} /\ (deletion = "no" => stored = next)
    BY <1>9 DEF RecordIndexed, SerialInv, IndexingInv, RunsOn
  <2>2. cache' = next /\ stored' = stored /\ deletion' = deletion
    BY <1>9 DEF RecordIndexed, WriteThrough
  <2>3. (stage' = "showing" /\ next' = next) \/ stage' = "idle"
    BY <1>9 DEF RecordIndexed, Over
  <2>4. QED
    BY <2>1, <2>2, <2>3 DEF SerialInv, IdleInv, ShowingInv
<1>10. CASE MembersShown /\ UNCHANGED faults
  BY <1>10 DEF MembersShown, Over, recordVars, SerialInv, ShowingInv, IdleInv
<1>11. CASE WriteFails \/ MembersFail
  BY <1>11, <1>a DEF WriteFails, MembersFail
<1>12. ASSUME NEW s \in Sockets, UNCHANGED faults,
              (\E account \in Accounts : Admit(s, account)) \/ Join(s) \/ Opened(s) \/ Disconnect(s)
       PROVE  SerialInv'
  BY <1>12, <1>d, OnlyReads DEF Admit, Join, Opened, Disconnect, recordVars, updateVars
<1>13. CASE Unload /\ UNCHANGED faults
  BY <1>13, <1>d, OnlyReads DEF Unload, recordVars, updateVars
<1>14. CASE (Delete \/ FilesDeleted \/ IndexDeleted) /\ UNCHANGED faults
  <2>1. /\ UNCHANGED <<stage, next, queue>> /\ deletion' # "no"
        /\ cache' \in {cache, NoRecord} /\ stored' \in {stored, NoRecord}
    BY <1>14 DEF Delete, FilesDeleted, IndexDeleted, updateVars
  <2>2. \A record : RunsOn(record)' <=> RunsOn(record)
    BY <2>1 DEF RunsOn
  <2>3. faults = 0
    BY <1>14
  <2>4. (stage = "idle" => IdleInv') /\ (stage = "showing" => ShowingInv')
    BY <2>1, <2>3 DEF SerialInv, IdleInv, ShowingInv
  <2>5. stage = "storing" => StoringInv'
    BY <2>1, <2>2, <2>3 DEF SerialInv, StoringInv
  <2>6. stage = "indexing" => IndexingInv'
    BY <2>1, <2>2, <2>3 DEF SerialInv, IndexingInv
  <2>7. QED
    BY <2>1, <2>4, <2>5, <2>6 DEF SerialInv
<1>15. CASE Restart /\ UNCHANGED faults
  BY <1>15 DEF Restart, SerialInv, IdleInv
<1>16. CASE ReadReturns
  BY <1>16, ReturnReadsThrough, OnlyReads DEF updateVars
<1>17. CASE (ReadAsked \/ FileRead) /\ UNCHANGED faults
  BY <1>17, <1>d, OnlyReads DEF ReadAsked, FileRead, updateVars
<1>18. QED
  BY <1>1, <1>2, <1>3, <1>4, <1>5, <1>6, <1>7, <1>8, <1>9, <1>10, <1>11, <1>12, <1>13, <1>14, <1>15, <1>16,
     <1>17 DEF Next, Access

LEMMA AlwaysSerial == Spec => [](Typed /\ OwnerInv /\ ReadsInv /\ SerialInv)
<1>1. ASSUME Typed, OwnerInv, ReadsInv, SerialInv, [Next]_vars
      PROVE  Typed' /\ OwnerInv' /\ ReadsInv' /\ SerialInv'
  BY <1>1, StepTyped, StepOwner, StepReads, StepSerial
<1>2. QED
  BY <1>1, InitTyped, InitOwner, InitReads, InitSerial, PTL DEF Spec

\* Until a write fails or a record is cached that was read before a change, and outside a deletion,
\* every change of the file is a requested change made to the record the file held: no change
\* overwrites another one it has not seen.
THEOREM ChangesSerialised == Spec => ChangesBuildOnEachOther
<1> DEFINE Built == faults = 0 /\ deletion = "no" /\ deletion' = "no" /\ stored' # stored
                      => \E change \in Change : Changes(change, stored) /\ stored' = Apply(change, stored)
<1>1. ASSUME Typed, OwnerInv, SerialInv, Next
      PROVE  Built
  <2> SUFFICES ASSUME faults = 0, deletion = "no", deletion' = "no", stored' # stored
               PROVE  \E change \in Change : Changes(change, stored) /\ stored' = Apply(change, stored)
    OBVIOUS
  <2>1. stage = "storing" /\ stored' = next
    BY <1>1 DEF Next, Access, Request, Touch, Invite, InviteeFound, SignIn, UpdateBegins, RecordStored, RecordIndexed,
                MembersShown, WriteFails, MembersFail, Admit, Join, Opened, Disconnect, Unload, Delete, FilesDeleted,
                IndexDeleted, Restart, ReadAsked, FileRead, ReadReturns, recordVars
  <2>2. RunsOn(stored)
    BY <1>1, <2>1 DEF SerialInv, StoringInv
  <2>3. Head(queue) \in Change
    BY <1>1, <2>1 DEF Typed, RequestsTyped, StageTyped
  <2>4. QED
    BY <2>1, <2>2, <2>3 DEF RunsOn
<1>2. Typed /\ OwnerInv /\ SerialInv /\ [Next]_vars => [Built]_vars
  BY <1>1
<1>3. QED
  BY <1>2, AlwaysSerial, PTL DEF Spec, ChangesBuildOnEachOther

-----------------------------------------------------------------------------
\* Roles of open sockets.  Inductive, before the first fault: a loaded room's record is cached, the
\* room knows of no socket unless it is loaded, and, until a change is shown to the room, the open
\* sockets have the roles of the cached record.

\* The open sockets have this record's roles.
Follow(record) ==
  \A s \in Sockets : sockets[s].phase = "open" => sockets[s].role = RoleOf(record, sockets[s].account)

FollowInv ==
  faults = 0 =>
    /\ loaded => cache # NoRecord
    /\ Registered # {} => loaded
    /\ cache # NoRecord /\ stage # "showing" => Follow(cache)

LEMMA PushedFollow ==
  ASSUME SocketsTyped, NEW record, sockets' = RolesPushed(record)
  PROVE  /\ \A s \in Sockets : sockets'[s].phase = "open" => sockets'[s].role = RoleOf(record, sockets'[s].account)
         /\ Registered' \subseteq Registered
<1>1. ASSUME NEW s \in Sockets
      PROVE  /\ sockets'[s].phase = "open" => sockets'[s].role = RoleOf(record, sockets'[s].account)
             /\ s \in Registered' => s \in Registered
  <2>1. sockets[s] \in SocketStates
    BY DEF SocketsTyped
  <2> DEFINE role == RoleOf(record, sockets[s].account)
             pushed == [sockets[s] EXCEPT !.role = role]
  <2>2. sockets'[s] = IF s \notin Registered THEN sockets[s] ELSE IF role = "none" THEN NoSocket ELSE pushed
    BY DEF RolesPushed
  <2>3. pushed.role = role /\ pushed.account = sockets[s].account /\ pushed.phase = sockets[s].phase
    BY <2>1 DEF SocketStates
  <2>4. CASE s \notin Registered
    BY <2>2, <2>4 DEF Registered
  <2>5. CASE s \in Registered /\ role = "none"
    BY <2>2, <2>5 DEF NoSocket
  <2>6. CASE s \in Registered /\ role # "none"
    <3>1. sockets'[s] = pushed
      BY <2>2, <2>6
    <3> HIDE DEF pushed
    <3>2. QED
      BY <2>3, <2>6, <3>1
  <2>7. QED
    BY <2>4, <2>5, <2>6
<1>2. QED
  BY <1>1 DEF Registered

\* No socket is open while nothing is cached.
LEMMA NoneOpen ==
  ASSUME FollowInv, faults = 0, cache = NoRecord
  PROVE  ~ loaded /\ Registered = {} /\ \A s \in Sockets : sockets[s].phase # "open"
BY DEF FollowInv, Registered

\* A step that at most reads the record and opens no socket.
LEMMA ReadFollows ==
  ASSUME FollowInv, faults = 0, cache # NoRecord => cache' = cache,
         \A s \in Sockets : sockets'[s].phase = "open" => sockets'[s] = sockets[s],
         Registered' \subseteq Registered,
         loaded' = loaded \/ (~ loaded' /\ Registered = {}), stage' = "showing" <=> stage = "showing"
  PROVE  FollowInv'
<1>2. CASE cache = NoRecord
  BY <1>2, NoneOpen DEF FollowInv, Follow
<1>3. CASE cache # NoRecord
  BY <1>3 DEF FollowInv, Follow
<1>4. QED
  BY <1>2, <1>3

LEMMA InitFollow == Init => FollowInv
<1> SUFFICES ASSUME Init PROVE FollowInv
  OBVIOUS
<1>1. Registered = {} /\ \A s \in Sockets : sockets[s].phase = "closed"
  BY DEF Init, Registered, NoSocket
<1>2. QED
  BY <1>1 DEF Init, FollowInv, Follow

LEMMA StepFollow ==
  ASSUME Typed, ReadsInv, SerialInv, FollowInv, [Next]_vars
  PROVE  FollowInv'
<1> SUFFICES ASSUME faults' = 0
             PROVE  FollowInv'
  BY DEF FollowInv
<1>0. SocketsTyped
  BY DEF Typed
<1>a. faults \in Nat
  BY FaultsAssumption DEF Typed, OthersTyped
<1>b. ASSUME UNCHANGED sockets
      PROVE  Registered' = Registered
  BY <1>b DEF Registered
<1>1. CASE UNCHANGED vars
  BY <1>1, <1>b, ReadFollows DEF vars, recordVars, updateVars
<1>2. CASE /\ \/ \E change \in Change : Request(change)
              \/ Touch
              \/ \E account \in Accounts, role \in GivenRoles : Invite(account, role)
              \/ \E invite \in inviting : InviteeFound(invite)
              \/ \E account \in Accounts : SignIn(account)
              \/ RecordStored \/ FilesDeleted \/ IndexDeleted \/ ReadAsked \/ FileRead
           /\ UNCHANGED faults
  <2>1. /\ UNCHANGED <<sockets, loaded>> /\ cache' \in {cache, Current}
        /\ stage' = "showing" <=> stage = "showing"
    BY <1>2 DEF Request, Touch, Invite, InviteeFound, SignIn, RecordStored, FilesDeleted, IndexDeleted, ReadAsked,
                FileRead, recordVars, updateVars, ReadRecord
  <2>2. cache # NoRecord => cache' = cache
    BY <2>1 DEF Current
  <2>3. QED
    BY <1>2, <1>b, <2>1, <2>2, ReadFollows
<1>3. CASE UpdateBegins /\ UNCHANGED faults
  <2>1. cache' = Current /\ UNCHANGED loaded /\ stage = "idle" /\ stage' # "showing" /\ faults = 0
    BY <1>3 DEF UpdateBegins, ReadRecord, Over
  <2>2. CASE UNCHANGED sockets
    BY <1>b, <2>1, <2>2, ReadFollows DEF Current
  <2>3. CASE sockets' = RolesPushed(Current) /\ Current # NoRecord
    <3>1. Follow(cache)' /\ Registered' \subseteq Registered
      BY <1>0, <2>1, <2>3, PushedFollow DEF Follow
    <3>2. QED
      BY <2>1, <2>3, <3>1 DEF FollowInv
  <2>4. QED
    BY <1>3, <2>2, <2>3 DEF UpdateBegins
<1>4. CASE RecordIndexed /\ UNCHANGED faults
  <2>1. cache' = next /\ UNCHANGED loaded /\ faults = 0 /\ stage = "indexing"
    BY <1>4 DEF RecordIndexed, WriteThrough
  <2>2. PICK record : RunsOn(record) /\ cache \in {NoRecord, record, next}
    BY <2>1 DEF SerialInv, IndexingInv
  <2>3. next # NoRecord
    BY <2>2 DEF RunsOn
  <2>4. CASE sockets' = RolesPushed(next)
    <3>1. Follow(cache)' /\ Registered' \subseteq Registered
      BY <1>0, <2>1, <2>4, PushedFollow DEF Follow
    <3>2. QED
      BY <2>1, <2>3, <3>1 DEF FollowInv
  <2>5. CASE UNCHANGED sockets /\ stage' = "showing"
    BY <1>b, <2>1, <2>3, <2>5 DEF FollowInv
  <2>6. CASE UNCHANGED sockets /\ Head(queue).kind = "touch"
    <3>1. next = record
      BY <2>2, <2>6 DEF RunsOn, Apply
    <3>2. CASE cache = NoRecord
      BY <1>b, <2>1, <2>3, <2>6, <3>2, NoneOpen DEF FollowInv, Follow
    <3>3. CASE cache = next
      BY <1>b, <2>1, <2>3, <2>6, <3>3 DEF FollowInv, Follow
    <3>4. QED
      BY <2>2, <3>1, <3>2, <3>3
  <2>7. QED
    BY <1>4, <2>4, <2>5, <2>6 DEF RecordIndexed
<1>5. CASE MembersShown /\ UNCHANGED faults
  <2>1. UNCHANGED <<cache, loaded>> /\ faults = 0 /\ cache \in {NoRecord, next} /\ sockets' = RolesPushed(next)
    BY <1>5 DEF MembersShown, recordVars, SerialInv, ShowingInv
  <2>2. Registered' \subseteq Registered
    BY <1>0, <2>1, PushedFollow
  <2>3. cache # NoRecord => Follow(cache)'
    BY <1>0, <2>1, PushedFollow DEF Follow
  <2>4. QED
    BY <2>1, <2>2, <2>3 DEF FollowInv
<1>6. CASE WriteFails \/ MembersFail
  BY <1>6, <1>a DEF WriteFails, MembersFail
<1>7. ASSUME NEW s \in Sockets, UNCHANGED faults, (\E account \in Accounts : Admit(s, account)) \/ Disconnect(s)
      PROVE  FollowInv'
  <2>1. cache' \in {cache, Current} /\ UNCHANGED <<loaded, stage>>
    BY <1>7 DEF Admit, Disconnect, recordVars, updateVars, ReadRecord
  <2>2. \A t \in Sockets : sockets'[t] = sockets[t] \/ sockets'[t].phase \in {"closed", "admitted"}
    BY <1>0, <1>7 DEF Admit, Disconnect, NoSocket, SocketsTyped
  <2>3. Registered' \subseteq Registered
    BY <2>2 DEF Registered
  <2>4. QED
    BY <1>7, <2>1, <2>2, <2>3, ReadFollows DEF Current
<1>8. ASSUME NEW s \in Sockets, UNCHANGED faults, Join(s)
      PROVE  FollowInv'
  <2>1. sockets[s] \in SocketStates /\ stage' = stage /\ faults = 0
    BY <1>0, <1>8 DEF Join, SocketsTyped, updateVars
  <2>2. CASE loaded' /\ (loaded \/ Current # NoRecord) /\ cache' = (IF loaded THEN cache ELSE Current)
             /\ sockets' = [sockets EXCEPT ![s].phase = "joined"]
    <3>1. \A t \in Sockets : sockets'[t].phase = "open" => sockets'[t] = sockets[t]
      <4>1. \A t \in Sockets : t # s => sockets'[t] = sockets[t]
        BY <1>0, <2>2 DEF SocketsTyped
      <4>2. sockets'[s].phase = "joined"
        BY <1>0, <2>1, <2>2 DEF SocketsTyped, SocketStates
      <4>3. QED
        BY <4>1, <4>2
    <3>2. cache' # NoRecord
      BY <2>1, <2>2 DEF FollowInv
    <3>3. CASE cache = NoRecord
      BY <2>1, <2>2, <3>1, <3>2, <3>3, NoneOpen DEF FollowInv, Follow
    <3>4. CASE cache # NoRecord
      <4>1. cache' = cache
        BY <2>2, <3>4 DEF Current
      <4>2. QED
        BY <2>1, <2>2, <3>1, <3>4, <4>1 DEF FollowInv, Follow
    <3>5. QED
      BY <3>3, <3>4
  <2>3. CASE sockets' = [sockets EXCEPT ![s] = NoSocket] /\ UNCHANGED <<cache, loaded>>
    <3>1. \A t \in Sockets : sockets'[t] = sockets[t] \/ sockets'[t].phase = "closed"
      BY <1>0, <2>3 DEF NoSocket, SocketsTyped
    <3>2. Registered' \subseteq Registered
      BY <3>1 DEF Registered
    <3>3. QED
      BY <2>1, <2>3, <3>1, <3>2, ReadFollows
  <2>4. QED
    BY <1>8, <2>2, <2>3 DEF Join
<1>9. ASSUME NEW s \in Sockets, UNCHANGED faults, Opened(s)
      PROVE  FollowInv'
  <2> DEFINE role == RoleRead(s)
             opened == [sockets[s] EXCEPT !.phase = "open", !.role = role]
  <2>1. /\ sockets[s] \in SocketStates /\ sockets[s].phase = "joined" /\ cache' = Current
        /\ UNCHANGED <<loaded, stage>> /\ faults = 0
    BY <1>0, <1>9 DEF Opened, SocketsTyped, updateVars, ReadRecord
  <2>2. loaded /\ cache # NoRecord /\ cache' = cache /\ Current = cache
    BY <2>1 DEF FollowInv, Registered, Current
  <2>3. CASE sockets' = [sockets EXCEPT ![s] = opened]
    <3>1. opened.phase = "open" /\ opened.account = sockets[s].account /\ opened.role = RoleOf(cache, sockets[s].account)
      BY <2>1, <2>2 DEF SocketStates, RoleRead
    <3> HIDE DEF opened
    <3>2. \A t \in Sockets : IF t = s THEN sockets'[t] = opened ELSE sockets'[t] = sockets[t]
      BY <1>0, <2>3 DEF SocketsTyped
    <3>3. Registered' \subseteq Registered
      BY <2>1, <3>2 DEF Registered
    <3>4. stage # "showing" => Follow(cache)'
      BY <2>1, <2>2, <3>1, <3>2 DEF FollowInv, Follow
    <3>5. QED
      BY <2>1, <2>2, <3>3, <3>4 DEF FollowInv
  <2>4. CASE sockets' = [sockets EXCEPT ![s] = NoSocket]
    <3>1. \A t \in Sockets : sockets'[t] = sockets[t] \/ sockets'[t].phase = "closed"
      BY <1>0, <2>4 DEF NoSocket, SocketsTyped
    <3>2. Registered' \subseteq Registered
      BY <3>1 DEF Registered
    <3>3. QED
      BY <2>1, <2>2, <2>4, <3>1, <3>2, ReadFollows
  <2>5. sockets' = [sockets EXCEPT ![s] = opened] \/ sockets' = [sockets EXCEPT ![s] = NoSocket]
    BY <1>0, <1>9 DEF Opened, SocketsTyped
  <2>6. QED
    BY <2>3, <2>4, <2>5
<1>10. CASE Unload /\ UNCHANGED faults
  <2>1. UNCHANGED <<cache, sockets, stage>> /\ ~ loaded' /\ Registered = {}
    BY <1>10 DEF Unload, recordVars, updateVars
  <2>2. QED
    BY <1>10, <1>b, <2>1, ReadFollows
<1>11. CASE Delete /\ UNCHANGED faults
  <2>1. loaded' = FALSE /\ cache' = NoRecord /\ faults = 0
        /\ sockets' = [s \in Sockets |-> IF loaded /\ s \in Registered THEN NoSocket ELSE sockets[s]]
    BY <1>11 DEF Delete
  <2>2. Registered' = {}
    BY <2>1 DEF FollowInv, Registered, NoSocket
  <2>3. QED
    BY <2>1, <2>2 DEF FollowInv
<1>12. CASE Restart /\ UNCHANGED faults
  <2>1. Registered' = {} /\ cache' = NoRecord /\ loaded' = FALSE
    BY <1>12 DEF Restart, Registered, NoSocket
  <2>2. QED
    BY <2>1 DEF FollowInv
<1>13. CASE ReadReturns
  <2>1. cache # NoRecord => cache' = cache
    BY <1>13, ReturnReadsThrough DEF ReadsThrough
  <2>2. UNCHANGED <<sockets, loaded, stage>> /\ faults = 0
    BY <1>13, ReturnReadsThrough DEF updateVars
  <2>3. QED
    BY <1>b, <2>1, <2>2, ReadFollows
<1>14. QED
  BY <1>1, <1>2, <1>3, <1>4, <1>5, <1>6, <1>7, <1>8, <1>9, <1>10, <1>11, <1>12, <1>13 DEF Next, Access

\* Until a write fails or a record is cached that was read before a change, and until the deck's
\* deletion, an open socket has the role that the record as it is cached gives its account,
\* however a change, an admission and a restart fell together, but for the moment a change is shown.
THEOREM RolesFollow == Spec => []SocketsFollowRecord
<1>1. FollowInv => SocketsFollowRecord
  BY DEF FollowInv, Follow, SocketsFollowRecord
<1>2. QED
  BY <1>1, InitFollow, StepFollow, AlwaysSerial, PTL DEF Spec
=============================================================================
