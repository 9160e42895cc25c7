------------------------------ MODULE DeckSync ------------------------------
(***************************************************************************)
(* One deck's document between its room (engine/src/server/deck-room.ts)   *)
(* and the replicas in its editors' pages                                  *)
(* (engine/src/web/collaboration/deck-collaboration.ts): the handshake     *)
(* after each connect, the updates both sides send, the guard that judges  *)
(* and corrects an editor's update, the readers whose changes are refused, *)
(* and the page that drops its replica when the room says so               *)
(* (engine/src/web/deck-page/deck-workspace.ts).                           *)
(*                                                                         *)
(* Frames of a socket arrive in order or not at all; a socket the client   *)
(* gave up may still deliver what it carried; the process dies between any *)
(* two steps and the room comes back from its files.                       *)
(***************************************************************************)
EXTENDS SharedScript

CONSTANTS
  Clients,         \* one page with the deck open each, named by its person
  PageNumber,      \* [Clients -> Nat]: orders the Yjs client ids, which differ
  RoomNumber,      \* the number of the room among them
  FirstRoles,      \* the clients' first roles: a set of [Clients -> role]
  Writers,         \* the clients that edit
  MaxAgentEdits,   \* bound: updates made by the room for agents
  MaxEdits,        \* bound: updates made by people and for agents
  MaxRoleChanges,  \* bound: changes of a client's role
  MaxDrops,        \* bound: connections lost or closed for their rate
  MaxCrashes,      \* bound: crashes
  MaxFaults        \* bound: role changes, drops and crashes together

Roles == {"editor", "viewer"}

ASSUME SyncAssumption ==
  /\ Clients \subseteq People /\ Writers \subseteq Clients
  /\ PageNumber \in [Clients -> Nat \ {0}] /\ RoomNumber \in Nat \ {0}
  /\ \A one, other \in Clients : PageNumber[one] = PageNumber[other] => one = other
  /\ \A client \in Clients : PageNumber[client] # RoomNumber
  /\ FirstRoles \subseteq [Clients -> Roles]
  /\ MaxEdits \in Nat /\ MaxAgentEdits \in Nat /\ MaxRoleChanges \in Nat
  /\ MaxDrops \in Nat /\ MaxCrashes \in Nat /\ MaxFaults \in Nat

\* A page opens one socket after another; the one before may still be held by the server.
Slots == {1, 2}

VARIABLES
  \* the room and the server
  room,       \* sharedDocument
  unflushed,  \* what persistUpdate was given since the last flush
  durable,    \* the document's files
  roomId,     \* client id of the room's replica
  role,       \* per client: record.role, and the deck's record
  held,       \* per client and slot: the room's connection: "none", "open", "gone"
  carried,    \* per client and slot: carriedPending
  \* the pages
  phase,      \* offline, joining, synchronising, online
  slot,       \* the socket in use
  composed,   \* an editor was composed over the replica
  known,      \* the role the page knows
  replica,    \* what the replica was given, pending updates included
  replicaId,  \* its Yjs client id
  \* the network
  toRoom,     \* frames per client and slot
  toClient,   \* frames per client, of the socket in use
  \* bounds and history
  made, agentMade, roleChanges, drops, crashes,
  lost        \* history: updates a crash took from the room

serverVars == <<room, unflushed, durable, roomId, role, held, carried>>
pageVars == <<phase, slot, composed, known, replica, replicaId>>
networkVars == <<toRoom, toClient>>
boundVars == <<made, agentMade, roleChanges, drops, crashes, lost>>
vars == <<serverVars, pageVars, networkVars, boundVars>>

AnotherFault == roleChanges + drops + crashes < MaxFaults

-----------------------------------------------------------------------------
\* Frames.

Welcome(r) == [kind |-> "welcome", role |-> r]
AccessChanged(r) == [kind |-> "accessChanged", role |-> r]
StepOne(ids) == [kind |-> "stepOne", has |-> ids]
StepTwo(updates) == [kind |-> "stepTwo", updates |-> updates]
UpdateFrame(updates) == [kind |-> "update", updates |-> updates]
Resynchronise == [kind |-> "resynchroniseRequired"]

CarriesUpdates(frame) == frame.kind \in {"stepTwo", "update"}

\* What a replica with the state vector `has` lacks; pending updates are among it.
Missing(updates, has) == {update \in updates : update.id \notin has}

\* Mutant of Welcomed: local updates are sent from the server's step 2 on.
OnlineAlready(client) == phase[client] = "online"

\* The page sends its updates from the welcome on.
Welcomed(client) == phase[client] \in {"synchronising", "online"}

Shown(client) == View(replica[client])

\* The room's connection of the socket in use.
Held(client) == held[client][slot[client]]

\* The page listens to the socket, and the room holds it.
Hears(client, s) == s = slot[client] /\ phase[client] # "offline" /\ held[client][s] = "open"

\* What broadcast sends into every connection of the room: toClient with the frame each hears.
Broadcast(updates) ==
  [client \in Clients |->
     IF Hears(client, slot[client]) /\ updates[client] # {}
     THEN Append(toClient[client], UpdateFrame(updates[client])) ELSE toClient[client]]

Init ==
  /\ room = {FirstUpdate} /\ durable = {FirstUpdate} /\ unflushed = {}
  /\ roomId = <<0, RoomNumber>>
  /\ role \in FirstRoles
  /\ held = [client \in Clients |-> [s \in Slots |-> IF s = 1 THEN "open" ELSE "none"]]
  /\ carried = [client \in Clients |-> [s \in Slots |-> {}]]
  /\ phase = [client \in Clients |-> "online"]
  /\ slot = [client \in Clients |-> 1]
  /\ composed = [client \in Clients |-> TRUE]
  /\ known = role
  /\ replica = [client \in Clients |-> {FirstUpdate}]
  /\ replicaId = [client \in Clients |-> <<0, PageNumber[client]>>]
  /\ toRoom = [client \in Clients |-> [s \in Slots |-> <<>>]]
  /\ toClient = [client \in Clients |-> <<>>]
  /\ made = 0 /\ agentMade = 0 /\ roleChanges = 0 /\ drops = 0 /\ crashes = 0
  /\ lost = {}

-----------------------------------------------------------------------------
\* The page.

\* What is sent into a socket the server has let go of is lost.
Send(client, frame) ==
  toRoom' = [toRoom EXCEPT ![client][slot[client]] = IF Held(client) = "open" THEN Append(@, frame) ELSE @]

\* A local transaction: onLocalUpdate sends it once the socket was welcomed.
Edit(client) ==
  /\ client \in Writers /\ made + agentMade < MaxEdits
  /\ composed[client] /\ known[client] = "editor"
  /\ \E update \in Edits(Shown(client), replicaId[client], client) :
       /\ replica' = [replica EXCEPT ![client] = @ \cup {update}]
       /\ IF Welcomed(client) THEN Send(client, UpdateFrame({update})) ELSE UNCHANGED toRoom
  /\ made' = made + 1
  /\ UNCHANGED <<serverVars, phase, slot, composed, known, replicaId, toClient,
                 agentMade, roleChanges, drops, crashes, lost>>

\* connectNow, and the socket it opens.
Open(client) ==
  /\ phase[client] = "offline"
  /\ held[client][3 - slot[client]] # "open"
  /\ phase' = [phase EXCEPT ![client] = "joining"]
  /\ slot' = [slot EXCEPT ![client] = 3 - @]
  /\ held' = [held EXCEPT ![client][3 - slot[client]] = "none"]
  /\ UNCHANGED <<room, unflushed, durable, roomId, role, carried, composed, known, replica,
                 replicaId, networkVars, boundVars>>

\* Teardown: nothing of the socket is heard or sent any more.
LeaveSocket(client) == toClient' = [toClient EXCEPT ![client] = <<>>]

\* socketClosed or heartbeatMissed: the network lost the connection, or the server let go of it.
Lose(client) ==
  /\ phase[client] # "offline"
  /\ \/ drops < MaxDrops /\ AnotherFault /\ drops' = drops + 1
     \/ Held(client) = "gone" /\ UNCHANGED drops
  /\ phase' = [phase EXCEPT ![client] = "offline"]
  /\ LeaveSocket(client)
  /\ UNCHANGED <<serverVars, slot, composed, known, replica, replicaId, toRoom,
                 made, agentMade, roleChanges, crashes, lost>>

\* The frame of `kind` that the page reads now.
Reads(client, kind) == toClient[client] # <<>> /\ Head(toClient[client]).kind = kind
Frame(client) == Head(toClient[client])
Read(client) == toClient' = [toClient EXCEPT ![client] = Tail(@)]

WelcomeArrives(client) ==
  /\ Reads(client, "welcome")
  /\ phase' = [phase EXCEPT ![client] = "synchronising"]
  /\ known' = [known EXCEPT ![client] = Frame(client).role]
  /\ Send(client, StepOne(IdsOf(Shown(client))))
  /\ Read(client)
  /\ UNCHANGED <<serverVars, slot, composed, replica, replicaId, boundVars>>

\* The server's step 1 is answered with every local change the room lacks.
StepOneArrives(client) ==
  /\ Reads(client, "stepOne")
  /\ Send(client, StepTwo(Missing(replica[client], Frame(client).has)))
  /\ Read(client)
  /\ UNCHANGED <<serverVars, phase, slot, composed, known, replica, replicaId, boundVars>>

\* serverSynchronised: the editor is composed the first time.
StepTwoArrives(client) ==
  /\ Reads(client, "stepTwo")
  /\ replica' = [replica EXCEPT ![client] = @ \cup Frame(client).updates]
  /\ phase' = [phase EXCEPT ![client] = "online"]
  /\ composed' = [composed EXCEPT ![client] = TRUE]
  /\ Read(client)
  /\ UNCHANGED <<serverVars, slot, known, replicaId, toRoom, boundVars>>

UpdateArrives(client) ==
  /\ Reads(client, "update")
  /\ replica' = [replica EXCEPT ![client] = @ \cup Frame(client).updates]
  /\ Read(client)
  /\ UNCHANGED <<serverVars, phase, slot, composed, known, replicaId, toRoom, boundVars>>

RoleArrives(client) ==
  /\ Reads(client, "accessChanged")
  /\ known' = [known EXCEPT ![client] = Frame(client).role]
  /\ Read(client)
  /\ UNCHANGED <<serverVars, phase, slot, composed, replica, replicaId, toRoom, boundVars>>

\* resynchronise: the replica and its collaboration are disposed, a fresh one connects.
ResynchroniseArrives(client) ==
  /\ Reads(client, "resynchroniseRequired")
  /\ replica' = [replica EXCEPT ![client] = {}]
  /\ replicaId' = [replicaId EXCEPT ![client] = Renewed(@)]
  /\ composed' = [composed EXCEPT ![client] = FALSE]
  /\ phase' = [phase EXCEPT ![client] = "offline"]
  /\ LeaveSocket(client)
  /\ UNCHANGED <<serverVars, slot, known, toRoom, boundVars>>

-----------------------------------------------------------------------------
\* The room.

\* registry.connect, once the socket is admitted: welcome, then the room's step 1.
Connect(client) ==
  /\ phase[client] = "joining" /\ Held(client) = "none"
  /\ held' = [held EXCEPT ![client][slot[client]] = "open"]
  /\ toClient' = [toClient EXCEPT ![client] = <<Welcome(role[client]), StepOne(IdsOf(room))>>]
  /\ UNCHANGED <<room, unflushed, durable, roomId, role, carried, pageVars, toRoom, boundVars>>

MayEdit(client) == role[client] = "editor"

\* The next frame of a connection the room holds.
Receives(client, s) == held[client][s] = "open" /\ toRoom[client][s] # <<>>
Received(client, s) == Head(toRoom[client][s])
Take(client, s) == toRoom' = [toRoom EXCEPT ![client][s] = Tail(@)]

\* An answer to a connection; one the page has left hears nothing.
Answer(client, s, frame) ==
  toClient' = IF Hears(client, s) THEN [toClient EXCEPT ![client] = Append(@, frame)] ELSE toClient

AnswerStepOne(client, s) ==
  /\ Receives(client, s) /\ Received(client, s).kind = "stepOne"
  /\ Answer(client, s, StepTwo(Missing(room, Received(client, s).has)))
  /\ Take(client, s)
  /\ UNCHANGED <<serverVars, pageVars, boundVars>>

\* Mutant of AddsNothing: every change of a reader is told to go, the empty step 2 too.
AddsNeverNothing(updates) == FALSE

\* snapshotContainsUpdate.
AddsNothing(updates) == updates \subseteq room

\* receiveDocumentUpdate from a role that may not edit.
RefuseUpdate(client, s) ==
  /\ Receives(client, s) /\ CarriesUpdates(Received(client, s)) /\ ~ MayEdit(client)
  /\ IF AddsNothing(Received(client, s).updates)
     THEN UNCHANGED toClient ELSE Answer(client, s, Resynchronise)
  /\ Take(client, s)
  /\ UNCHANGED <<serverVars, pageVars, boundVars>>

\* Mutant of Incoming: what waits stays in the room's store, for the next sender.
IncomingOfAnyone(client, s) ==
  Received(client, s).updates \cup UNION {carried[other][t] : other \in Clients, t \in Slots}

\* What a connection brings to the room: what it carried goes in first.
Incoming(client, s) == carried[client][s] \cup Received(client, s).updates

\* Mutant of Integrated: what waits for other updates is kept in the document.
IntegratedWaiting(incoming) == room \cup incoming

Integrated(incoming) == View(room \cup incoming)

\* Everything an update and its correction add, relayed and persisted as one.
Added(client, incoming) ==
  LET after == Integrated(incoming)
  IN  (after \ room) \cup Corrections(room, after, client, MayEdit(client), roomId)

\* Mutant of Relayed: the others get what was sent and not its correction.
RelayedAsSent(client, s, added, incoming, page) ==
  IF page = client /\ s = slot[client] THEN added \ incoming ELSE added \cap incoming

\* The sender's connection gets the correction, every other one the whole.
Relayed(client, s, added, incoming, page) ==
  IF page = client /\ s = slot[client] THEN added \ incoming ELSE added

\* Mutant of Persisted: the correction is left to the next save.
PersistedAsSent(added, incoming) == added \cap incoming

Persisted(added, incoming) == added

\* applyGuarded: what still waits is kept on the connection.
ApplyGuarded(client, s) ==
  /\ Receives(client, s) /\ CarriesUpdates(Received(client, s)) /\ MayEdit(client)
  /\ LET incoming == Incoming(client, s)
         added == Added(client, incoming)
     IN  /\ room' = room \cup added
         /\ unflushed' = unflushed \cup Persisted(added, incoming)
         /\ carried' = [carried EXCEPT ![client][s] = (room \cup incoming) \ Integrated(incoming)]
         /\ toClient' = Broadcast([page \in Clients |-> Relayed(client, s, added, incoming, page)])
  /\ Take(client, s)
  /\ UNCHANGED <<durable, roomId, role, held, pageVars, boundVars>>

\* An update the room makes itself, for an agent.
AgentEdit ==
  /\ agentMade < MaxAgentEdits /\ made + agentMade < MaxEdits
  /\ LET update == Save(room, roomId, "agent", Unapproved)
     IN  /\ room' = room \cup {update}
         /\ unflushed' = unflushed \cup {update}
         /\ toClient' = Broadcast([page \in Clients |-> {update}])
  /\ agentMade' = agentMade + 1
  /\ UNCHANGED <<durable, roomId, role, held, carried, pageVars, toRoom, made, roleChanges, drops, crashes, lost>>

\* setRole, after the deck's record changed.
SetRole(client) ==
  /\ roleChanges < MaxRoleChanges /\ AnotherFault
  /\ \E other \in Roles \ {role[client]} :
       /\ role' = [role EXCEPT ![client] = other]
       /\ Answer(client, slot[client], AccessChanged(other))
  /\ roleChanges' = roleChanges + 1
  /\ UNCHANGED <<room, unflushed, durable, roomId, held, carried, pageVars, toRoom, made, agentMade, drops, crashes, lost>>

\* The page has left the socket.
Ended(client, s) == s # slot[client] \/ phase[client] = "offline"

\* The room lets go of a connection: its end was seen, or a document update came over its rate.
Forget(client, s) ==
  /\ held[client][s] = "open"
  /\ \/ Ended(client, s) /\ UNCHANGED drops
     \/ /\ toRoom[client][s] # <<>> /\ CarriesUpdates(Received(client, s))
        /\ drops < MaxDrops /\ AnotherFault /\ drops' = drops + 1
  /\ held' = [held EXCEPT ![client][s] = "gone"]
  /\ carried' = [carried EXCEPT ![client][s] = {}]
  /\ toRoom' = [toRoom EXCEPT ![client][s] = <<>>]
  /\ UNCHANGED <<room, unflushed, durable, roomId, role, pageVars, toClient, made, agentMade, roleChanges, crashes, lost>>

\* The registry's flush (DeckRegistry).
Flush ==
  /\ unflushed # {}
  /\ durable' = durable \cup unflushed
  /\ unflushed' = {}
  /\ UNCHANGED <<room, roomId, role, held, carried, pageVars, networkVars, boundVars>>

\* The process dies; the next connect loads the room from its files.
Crash ==
  /\ crashes < MaxCrashes /\ AnotherFault
  /\ room' = durable /\ unflushed' = {}
  /\ roomId' = Renewed(roomId)
  /\ held' = [client \in Clients |-> [s \in Slots |-> IF held[client][s] = "open" THEN "gone" ELSE held[client][s]]]
  /\ carried' = [client \in Clients |-> [s \in Slots |-> {}]]
  /\ toRoom' = [client \in Clients |-> [s \in Slots |-> <<>>]]
  /\ lost' = lost \cup IdsOf(room \ durable)
  /\ crashes' = crashes + 1
  /\ UNCHANGED <<durable, role, pageVars, toClient, made, agentMade, roleChanges, drops>>

-----------------------------------------------------------------------------
Pages(client) ==
  \/ WelcomeArrives(client) \/ StepOneArrives(client) \/ StepTwoArrives(client)
  \/ UpdateArrives(client) \/ RoleArrives(client) \/ ResynchroniseArrives(client)

Rooms(client, s) == AnswerStepOne(client, s) \/ RefuseUpdate(client, s) \/ ApplyGuarded(client, s)

Next ==
  \/ \E client \in Clients :
       \/ Edit(client) \/ Open(client) \/ Lose(client) \/ Pages(client)
       \/ Connect(client) \/ SetRole(client)
       \/ \E s \in Slots : Rooms(client, s) \/ Forget(client, s)
  \/ AgentEdit \/ Flush \/ Crash

Spec == Init /\ [][Next]_vars

\* What pages and server do of themselves: open sockets, admit them, read frames, notice a closed socket.
Responds ==
  \E client \in Clients :
    \/ Open(client) \/ Pages(client) \/ Connect(client)
    \/ Held(client) = "gone" /\ Lose(client)
    \/ \E s \in Slots : Rooms(client, s) \/ (Ended(client, s) /\ Forget(client, s))

\* They do not all stop while there is something to do.  No edit, fault or flush is promised.
FairSpec == Spec /\ WF_vars(Responds)

-----------------------------------------------------------------------------
\* Properties.

FrameKinds == {"welcome", "accessChanged", "stepOne", "stepTwo", "update", "resynchroniseRequired"}

\* Types; the room never keeps an update that waits for another.
TypeOK ==
  /\ View(room) = room /\ View(durable) = durable /\ durable \subseteq room
  /\ unflushed \subseteq room
  /\ role \in [Clients -> Roles] /\ known \in [Clients -> Roles]
  /\ held \in [Clients -> [Slots -> {"none", "open", "gone"}]]
  /\ phase \in [Clients -> {"offline", "joining", "synchronising", "online"}]
  /\ slot \in [Clients -> Slots]
  /\ composed \in [Clients -> BOOLEAN]
  /\ \A client \in Clients :
       /\ \A frame \in Range(toClient[client]) : frame.kind \in FrameKinds
       /\ \A s \in Slots : \A frame \in Range(toRoom[client][s]) : frame.kind \in {"stepOne", "stepTwo", "update"}
       /\ \A s \in Slots : held[client][s] # "open" => carried[client][s] = {} /\ toRoom[client][s] = <<>>

UpdatesIn(frames) == UNION {frame.updates : frame \in {f \in Range(frames) : CarriesUpdates(f)}}

\* The page has sent its step 2.
Answered(client) == Welcomed(client) /\ ~ \E frame \in Range(toClient[client]) : frame.kind = "stepOne"

ToldToDrop(client) == Resynchronise \in Range(toClient[client])

\* Between a page that has answered the handshake and the room that holds its
\* socket nothing falls in the gap: what the page has and the room lacks is on its
\* way or carried by the connection, or the page is being told to drop it; and what
\* the room has and an online page lacks is on its way to it.
NothingFallsBetween ==
  \A client \in Clients : Hears(client, slot[client]) =>
    /\ Answered(client) =>
         \/ ToldToDrop(client)
         \/ replica[client] \ room \subseteq
              UpdatesIn(toRoom[client][slot[client]]) \cup carried[client][slot[client]]
    /\ phase[client] = "online" => room \ replica[client] \subseteq UpdatesIn(toClient[client])

\* No file ever holds a state the guard would have corrected, whatever a crash cuts off.
FilesJudged == ~ Forbidden(durable)

\* While the room lives, an online page that has made no update itself never shows a state
\* the guard corrects: the offending update and its correction reach it as one.  (A page that
\* is synchronising again may: an update sent to it before the room's step 2 may lack, in this
\* page, the text that it approves.)
ReadersSeeJudged ==
  \A client \in Clients :
    crashes = 0 /\ phase[client] = "online" /\ Own(replica[client], replicaId[client]) = {}
      => ~ Forbidden(Shown(client))

\* A page is told to drop its replica only while its person reads, and over an update that the
\* room lacks: one the replica made itself, before its person's role changed, or one that a
\* crash took from the room.  An answer to the handshake, or an update the room has, tells no
\* page to go, and a crash is no excuse for it.
DropsAreDue ==
  [][\A client \in Clients :
       ToldToDrop(client)' /\ ~ ToldToDrop(client) =>
         /\ ~ MayEdit(client)
         /\ \E update \in replica[client] \ room :
              \/ update.id \in lost
              \/ roleChanges > 0 /\ update \in Own(replica[client], replicaId[client])]_vars

\* When one person's updates are all the room holds and nobody's role changed, the guard has
\* revoked nothing but over what a crash took: the correction itself, which a page gave back,
\* the approval it revokes, or the approved text.  No order of frames, sockets and waiting
\* updates has that person's update judged as somebody else's.
SoleEditorIsApproved ==
  \A client \in Clients :
    roleChanges = 0 /\ {update.by : update \in room} \subseteq {"earlier", "room", client} =>
      \A correction \in room : correction.by = "room" =>
        \E revoked \in room :
          /\ revoked.id = Last(Front(correction.approval))
          /\ {correction.id, revoked.id, revoked.value.text} \cap lost # {}

\* Once faults and edits are over, every page shows what the room holds.
Converges == <>[](\A client \in Clients : phase[client] = "online" /\ Shown(client) = room)
=============================================================================
