----------------------------- MODULE Discussion -----------------------------
(***************************************************************************)
(* The comments of one deck over its sockets: the discussion half of the   *)
(* room (engine/src/server/deck-room.ts), the append of an entry to        *)
(* discussion.log with its retries (decks/deck-registry.ts), and the       *)
(* replica with its waiting requests that every client keeps               *)
(* (engine/src/web/collaboration/socket-discussion-store.ts).              *)
(*                                                                         *)
(* Connections are lost, frames of a lost one may still arrive, the room   *)
(* unloads and loads again, an append fails with or without its line on    *)
(* disk, and the process dies between any two steps.                       *)
(***************************************************************************)
EXTENDS DiscussionLog, Subsequences

CONSTANTS
  Clients,         \* one editor with the deck open each
  PersonOf,        \* [Clients -> People]
  RoleOfClient,    \* [Clients -> role]; roles do not change here (DeckAccess)
  Requests,        \* request ids
  ClientOf,        \* [Requests -> Clients]: who mints the id
  Scripts,         \* a set of [Requests -> Commands]: what may be asked
  Hasty,           \* the clients that may exceed their rate
  Leaving,         \* the clients whose connection may close for good
  MaxDrops,        \* bound: connections lost
  MaxCrashes,      \* bound: crashes
  MaxFailures,     \* bound: appends that fail
  MaxFaults        \* bound: all of these together

ASSUME DiscussionAssumption ==
  /\ PersonOf \in [Clients -> People]
  /\ RoleOfClient \in [Clients -> {"owner", "editor", "commenter", "viewer"}]
  /\ ClientOf \in [Requests -> Clients]
  /\ Scripts \subseteq [Requests -> Commands]
  /\ Hasty \subseteq Clients /\ Leaving \subseteq Clients
  /\ MaxDrops \in Nat /\ MaxCrashes \in Nat /\ MaxFailures \in Nat /\ MaxFaults \in Nat

VARIABLES
  asked,           \* the command of each request, chosen once
  file,            \* discussion.log, oldest first
  retries,         \* entries whose append a timer tries again
  loaded,          \* the room is in memory
  log, authority,  \* discussionLog and authority of the room
  tail,            \* discussionTail: accepted requests not decided yet
  persisting,      \* the decided one whose entry is being appended, or nothing
  phase,           \* per client: offline, joining (no welcome yet), online, closed
  replica,         \* per client: the folded snapshot
  waiting,         \* per client: its requests without an outcome, in order
  outcomes,        \* what the caller of submit was told
  toClient, toServer,   \* frames under way, per client
  stray,           \* frames of lost connections that may still arrive
  drops, crashes, failures

serverVars == <<file, retries, loaded, log, authority, tail, persisting>>
clientVars == <<phase, replica, waiting, outcomes>>
networkVars == <<toClient, toServer, stray>>
faultVars == <<drops, crashes, failures>>
vars == <<asked, serverVars, clientVars, networkVars, faultVars>>

AnotherFault == drops + crashes + failures < MaxFaults

-----------------------------------------------------------------------------
\* Frames, answers and the room's memory.

Unanswered == [kind |-> "none"]
RateLimited == [kind |-> "rateLimited"]
Stopped == [kind |-> "stopped"]
Decided(outcome) == [kind |-> "decided", outcome |-> outcome]

Welcome == [kind |-> "welcome"]
EntriesFrame(entries) == [kind |-> "entries", entries |-> entries]
OutcomeFrame(request, told) == [kind |-> "outcome", request |-> request, told |-> told]

Connected(client) == phase[client] \in {"joining", "online"}

\* Mutant of Following: the entry right after the known sequence is left out.
FollowingButOne(entries, sequence) == Kept(entries, {entry \in Range(entries) : entry.sequence > sequence + 1})

\* The entries a replica that knows `sequence` lacks.
Following(entries, sequence) == Kept(entries, {entry \in Range(entries) : entry.sequence > sequence})

\* Mutant of Retrying: a failed append is only logged.
NotRetrying(entry) == retries

\* persistDiscussion's catch: a timer appends the entry again.
Retrying(entry) == retries \cup {entry}

\* Mutant of Resent: what was sent before the connection was lost is not sent again.
NothingResent(client) == <<>>

\* connected: every request without an outcome is sent after the welcome.
Resent(client) == waiting[client]

EmptyRoom ==
  /\ loaded' = FALSE /\ log' = <<>> /\ authority' = AuthorityFromLog(<<>>)
  /\ stray' = [client \in Clients |-> <<>>]

-----------------------------------------------------------------------------
Init ==
  /\ asked \in Scripts
  /\ file = <<>> /\ retries = {} /\ loaded = FALSE
  /\ log = <<>> /\ authority = AuthorityFromLog(<<>>) /\ tail = <<>> /\ persisting = <<>>
  /\ phase = [client \in Clients |-> "offline"]
  /\ replica = [client \in Clients |-> EmptyDiscussion]
  /\ waiting = [client \in Clients |-> <<>>]
  /\ outcomes = [request \in Requests |-> Unanswered]
  /\ toClient = [client \in Clients |-> <<>>]
  /\ toServer = [client \in Clients |-> <<>>]
  /\ stray = [client \in Clients |-> <<>>]
  /\ drops = 0 /\ crashes = 0 /\ failures = 0

-----------------------------------------------------------------------------
\* The client.

\* store.submit: a request waits, and is sent at once when there is a welcome.
Submit(client, request) ==
  /\ ClientOf[request] = client /\ outcomes[request] = Unanswered
  /\ request \notin Range(waiting[client])
  /\ IF phase[client] = "closed"
     THEN /\ outcomes' = [outcomes EXCEPT ![request] = Stopped]
          /\ UNCHANGED <<waiting, toServer>>
     ELSE /\ waiting' = [waiting EXCEPT ![client] = Append(@, request)]
          /\ toServer' = IF phase[client] = "online"
                         THEN [toServer EXCEPT ![client] = Append(@, request)] ELSE toServer
          /\ UNCHANGED outcomes
  /\ UNCHANGED <<asked, serverVars, phase, replica, toClient, stray, faultVars>>

\* connected, received and settled, by the kind of the frame that arrives.
WelcomeArrives(client) ==
  /\ toClient[client] # <<>> /\ Head(toClient[client]) = Welcome
  /\ phase' = [phase EXCEPT ![client] = "online"]
  /\ toServer' = [toServer EXCEPT ![client] = @ \o Resent(client)]
  /\ toClient' = [toClient EXCEPT ![client] = Tail(@)]
  /\ UNCHANGED <<asked, serverVars, replica, waiting, outcomes, stray, faultVars>>

\* Entries at or below the sequence the replica has reached are ignored.
Received(snapshot, entry) ==
  IF entry.sequence <= snapshot.sequence THEN snapshot ELSE Reduce(snapshot, entry)

EntriesArrive(client) ==
  /\ toClient[client] # <<>> /\ Head(toClient[client]).kind = "entries"
  /\ replica' = [replica EXCEPT ![client] = FoldLeft(Received, @, Head(toClient[client]).entries)]
  /\ toClient' = [toClient EXCEPT ![client] = Tail(@)]
  /\ UNCHANGED <<asked, serverVars, phase, waiting, outcomes, toServer, stray, faultVars>>

OutcomeArrives(client) ==
  /\ toClient[client] # <<>> /\ Head(toClient[client]).kind = "outcome"
  /\ LET answer == Head(toClient[client])
         expected == answer.request \in Range(waiting[client])
     IN  /\ waiting' = [waiting EXCEPT ![client] = Kept(@, Requests \ {answer.request})]
         /\ outcomes' = IF expected THEN [outcomes EXCEPT ![answer.request] = answer.told] ELSE outcomes
  /\ toClient' = [toClient EXCEPT ![client] = Tail(@)]
  /\ UNCHANGED <<asked, serverVars, phase, replica, toServer, stray, faultVars>>

-----------------------------------------------------------------------------
\* Connections.  Submitted requests of a connection that is gone are still
\* decided; their outcomes go to nobody.

Unheard(items, client) ==
  [i \in DOMAIN items |-> [items[i] EXCEPT !.heard = @ /\ items[i].client # client]]

\* registry.connect: the room is loaded when it is not there, then the welcome
\* and the entries that follow discussionAfter are sent.
Connect(client) ==
  /\ phase[client] = "offline"
  /\ loaded' = TRUE
  /\ log' = IF loaded THEN log ELSE file
  /\ authority' = IF loaded THEN authority ELSE AuthorityFromLog(file)
  /\ phase' = [phase EXCEPT ![client] = "joining"]
  /\ toClient' = [toClient EXCEPT ![client] =
                    <<Welcome, EntriesFrame(Following(log', replica[client].sequence))>>]
  /\ UNCHANGED <<asked, file, retries, tail, persisting, replica, waiting, outcomes, toServer, stray, faultVars>>

Lose(client) ==
  /\ toClient' = [toClient EXCEPT ![client] = <<>>]
  /\ toServer' = [toServer EXCEPT ![client] = <<>>]
  /\ stray' = [stray EXCEPT ![client] = @ \o toServer[client]]
  /\ tail' = Unheard(tail, client)
  /\ persisting' = Unheard(persisting, client)

\* The socket closes or is given up; the client will connect again.
Drop(client) ==
  /\ Connected(client) /\ drops < MaxDrops /\ AnotherFault
  /\ Lose(client)
  /\ phase' = [phase EXCEPT ![client] = "offline"]
  /\ drops' = drops + 1
  /\ UNCHANGED <<asked, file, retries, loaded, log, authority, replica, waiting, outcomes, crashes, failures>>

\* stopped, or the store is disposed: what waits is refused.
Stop(client) ==
  /\ client \in Leaving /\ phase[client] # "closed"
  /\ Lose(client)
  /\ phase' = [phase EXCEPT ![client] = "closed"]
  /\ waiting' = [waiting EXCEPT ![client] = <<>>]
  /\ outcomes' = [request \in Requests |->
                    IF request \in Range(waiting[client]) THEN Stopped ELSE outcomes[request]]
  /\ UNCHANGED <<asked, file, retries, loaded, log, authority, replica, faultVars>>

-----------------------------------------------------------------------------
\* The room.

\* receiveText: the request takes its place in discussionTail.
Arrives(client) ==
  /\ toServer[client] # <<>>
  /\ tail' = Append(tail, [client |-> client, request |-> Head(toServer[client]), heard |-> TRUE])
  /\ toServer' = [toServer EXCEPT ![client] = Tail(@)]
  /\ UNCHANGED <<asked, file, retries, loaded, log, authority, persisting, clientVars, toClient, stray, faultVars>>

\* A frame of a connection that the client has given up.
StrayArrives(client) ==
  /\ stray[client] # <<>>
  /\ tail' = Append(tail, [client |-> client, request |-> Head(stray[client]), heard |-> FALSE])
  /\ stray' = [stray EXCEPT ![client] = Tail(@)]
  /\ UNCHANGED <<asked, file, retries, loaded, log, authority, persisting, clientVars, toClient, toServer, faultVars>>

\* answerDroppedDiscussionRequest: decided by nobody, not remembered.
RefusedAtRate(client) ==
  /\ client \in Hasty /\ toServer[client] # <<>>
  /\ toClient' = [toClient EXCEPT ![client] = Append(@, OutcomeFrame(Head(toServer[client]), RateLimited))]
  /\ toServer' = [toServer EXCEPT ![client] = Tail(@)]
  /\ UNCHANGED <<asked, serverVars, clientVars, stray, faultVars>>

Answer(channels, item, outcome) ==
  IF item.heard
  THEN [channels EXCEPT ![item.client] = Append(@, OutcomeFrame(item.request, Decided(outcome)))]
  ELSE channels

\* submit up to its await: the decision, and the entry in discussionLog.
DecideNext ==
  /\ tail # <<>> /\ persisting = <<>>
  /\ LET item == Head(tail)
         decision == Decide(authority, item.request, asked[item.request],
                            PersonOf[item.client], RoleOfClient[item.client])
     IN  /\ authority' = decision.state
         /\ log' = log \o decision.entries
         /\ IF decision.entries = <<>>
            THEN /\ toClient' = Answer(toClient, item, decision.outcome)
                 /\ UNCHANGED persisting
            ELSE /\ persisting' = <<item>>
                 /\ UNCHANGED toClient
  /\ tail' = Tail(tail)
  /\ UNCHANGED <<asked, file, retries, loaded, clientVars, toServer, stray, faultVars>>

\* submit after its await: the entry to everyone, then the outcome to its sender.
Announce ==
  LET entry == Last(log)
      everyone == [client \in Clients |->
                     IF Connected(client) THEN Append(toClient[client], EntriesFrame(<<entry>>))
                     ELSE toClient[client]]
  IN  toClient' = Answer(everyone, persisting[1], Remembered(entry).outcome)

Persisted ==
  /\ persisting # <<>>
  /\ file' = Append(file, Last(log))
  /\ Announce
  /\ persisting' = <<>>
  /\ UNCHANGED <<asked, retries, loaded, log, authority, tail, clientVars, toServer, stray, faultVars>>

\* A failing append leaves the line on disk or does not.
WithOrWithout(entry) == {file, Append(file, entry)}

\* persistDiscussion does not throw: the room goes on and a timer retries.
PersistFails ==
  /\ persisting # <<>> /\ failures < MaxFailures /\ AnotherFault
  /\ file' \in WithOrWithout(Last(log))
  /\ retries' = Retrying(Last(log))
  /\ failures' = failures + 1
  /\ Announce
  /\ persisting' = <<>>
  /\ UNCHANGED <<asked, loaded, log, authority, tail, clientVars, toServer, stray, drops, crashes>>

\* The timer's append: nothing orders it with the room's own, or with a load.
Retry(entry) ==
  /\ file' = Append(file, entry)
  /\ retries' = retries \ {entry}
  /\ UNCHANGED <<asked, loaded, log, authority, tail, persisting, clientVars, networkVars, faultVars>>

RetryFails(entry) ==
  /\ failures < MaxFailures /\ AnotherFault
  /\ file' \in WithOrWithout(entry)
  /\ failures' = failures + 1
  /\ UNCHANGED <<asked, retries, loaded, log, authority, tail, persisting, clientVars, networkVars, drops, crashes>>

\* A minute without a connection; appends under way have ended by then, retries have not.
Unload ==
  /\ loaded /\ \A client \in Clients : ~Connected(client)
  /\ tail = <<>> /\ persisting = <<>>
  /\ EmptyRoom
  /\ UNCHANGED <<asked, file, retries, tail, persisting, clientVars, toClient, toServer, faultVars>>

\* The process dies; an append under way may have put its line on disk.
Crash ==
  /\ crashes < MaxCrashes /\ AnotherFault /\ (loaded \/ retries # {})
  /\ crashes' = crashes + 1
  /\ EmptyRoom
  /\ file' \in IF persisting = <<>> THEN {file} ELSE WithOrWithout(Last(log))
  /\ tail' = <<>> /\ persisting' = <<>> /\ retries' = {}
  /\ toClient' = [client \in Clients |-> <<>>]
  /\ toServer' = [client \in Clients |-> <<>>]
  /\ phase' = [client \in Clients |-> IF phase[client] = "closed" THEN "closed" ELSE "offline"]
  /\ UNCHANGED <<asked, replica, waiting, outcomes, drops, failures>>

-----------------------------------------------------------------------------
ClientNext(client) ==
  \/ \E request \in Requests : Submit(client, request)
  \/ WelcomeArrives(client)
  \/ EntriesArrive(client)
  \/ OutcomeArrives(client)
  \/ Connect(client)
  \/ Drop(client)
  \/ Stop(client)

RoomNext ==
  \/ \E client \in Clients : Arrives(client)
  \/ \E client \in Clients : StrayArrives(client)
  \/ \E client \in Clients : RefusedAtRate(client)
  \/ DecideNext
  \/ Persisted
  \/ PersistFails
  \/ \E entry \in retries : Retry(entry)
  \/ \E entry \in retries : RetryFails(entry)
  \/ Unload
  \/ Crash

Next ==
  \/ \E client \in Clients : ClientNext(client)
  \/ RoomNext

Spec == Init /\ [][Next]_vars

\* Frames of a live connection arrive, a started decision and append end, and a
\* client that is not closed for good goes on trying to connect.
Fairness ==
  /\ \A client \in Clients :
       /\ WF_vars(WelcomeArrives(client) \/ EntriesArrive(client) \/ OutcomeArrives(client))
       /\ WF_vars(Connect(client))
       /\ WF_vars(Arrives(client))
  /\ WF_vars(DecideNext)
  /\ WF_vars(Persisted)

FairSpec == Spec /\ Fairness

-----------------------------------------------------------------------------
\* Properties.

\* What the room has, or has when it is loaded next.
History == IF loaded THEN log ELSE file

FollowsLog(snapshot) == \E n \in 0 .. Len(History) : snapshot = Fold(SubSeq(History, 1, n))

\* The variables have their types; while no append failed, the running total of the
\* bodies keeps the deck's budget, and the memory of outcomes always keeps its limit (discussion-authority.ts:18-26).
TypeOK ==
  /\ asked \in Scripts
  /\ loaded \in BOOLEAN
  /\ phase \in [Clients -> {"offline", "joining", "online", "closed"}]
  /\ \A request \in Requests : outcomes[request].kind \in {"none", "rateLimited", "stopped", "decided"}
  /\ \A client \in Clients : /\ Range(waiting[client]) \subseteq Requests
                             /\ replica[client].sequence \in Nat
  /\ Len(persisting) <= 1
  /\ authority.bytes \in Nat
  /\ failures = 0 => authority.bytes <= MaxBytes
  /\ Len(authority.remembered) <= MaxRemembered

\* "Every replica reduces the same log to the same snapshot" (contracts/discussion.ts:12-13):
\* what a client shows is what the room had after some number of its entries, through
\* lost connections, unloads and loads.  While nothing failed: see ReplicasAgree.
ReplicaFollowsLog ==
  crashes = 0 /\ failures = 0 => \A client \in Clients : FollowsLog(replica[client])

\* The least the same sentence promises of a server that may die, which the documents do
\* not except: two clients that have reached the same sequence show the same comments.
ReplicasAgree ==
  \A one, other \in Clients :
    replica[one].sequence = replica[other].sequence => replica[one] = replica[other]

\* "A retry after a reconnect never doubles a comment" (discussion-authority.ts:31-34),
\* nor does one after a crash or from a connection given up long ago: no two entries
\* answer one request, in memory or on disk.  Every append succeeds.
RequestOnce ==
  failures = 0 =>
    \A entries \in {log, file} : IsInjective([i \in DOMAIN entries |-> entries[i].request])

Stored(outcome) ==
  \E entry \in Range(file) \cup retries : entry.request = outcome.request /\ entry.sequence = outcome.sequence

\* Who was told "applied" has the entry on disk, or in a timer that is still trying
\* (deck-room.ts:28-31, deck-registry.ts:210-222); only a crash may end the trying.
AppliedIsStored ==
  crashes = 0 \/ failures = 0 =>
    \A request \in Requests :
      outcomes[request].kind = "decided" /\ outcomes[request].outcome.applied
        => Stored(outcomes[request].outcome)

\* The first outcome stands: a request that was refused on its merits is not applied by
\* a second copy of it, whichever connection that came over and whatever changed since
\* (discussion-authority.ts:31-34).  Every append succeeds.
RefusedStaysOut ==
  failures = 0 =>
    \A request \in Requests :
      outcomes[request].kind = "decided" /\ ~outcomes[request].outcome.applied
        => \A entry \in Range(log) \cup Range(file) : entry.request # request

\* The running total of body bytes, kept across edits, deletions and loads, is that of
\* the messages that are there (discussion-authority.ts:51-52).
BytesMatch == authority.bytes = BytesOf(authority.snapshot.threads)

\* "The authority and every replica's fold agree" (discussion-authority.ts:14-16): the
\* fold skips no entry that the authority let into the log.  Every append succeeds.
NothingSkipped ==
  failures = 0 =>
    \A i \in DOMAIN log :
      ~Refused(Fold(SubSeq(log, 1, i - 1)).threads, log[i].command, log[i].actor, TRUE)

\* "A request waits until it is answered" (socket-discussion-store.ts:6-9): with finitely
\* many connections lost, every request gets an outcome, or its client closed for good.
EveryRequestAnswered ==
  \A request \in Requests :
    request \in Range(waiting[ClientOf[request]]) ~> outcomes[request] # Unanswered
=============================================================================
