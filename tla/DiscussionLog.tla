--------------------------- MODULE DiscussionLog ---------------------------
(***************************************************************************)
(* Comments as a log: the pure fold that the server and every client run   *)
(* (engine/src/model/discussion-log.ts), and the server's decision on one  *)
(* request (engine/src/server/discussion-authority.ts).                    *)
(*                                                                         *)
(* A body is the number of bytes in it, 0 for a blank one.  Anchors,       *)
(* markings, mentions, times, the limits on a single body or marking and   *)
(* the reason of a refusal are left out.                                   *)
(***************************************************************************)
EXTENDS Integers, SequencesExt, FiniteSets

CONSTANTS
  Threads,         \* thread ids
  Messages,        \* message ids
  People,          \* person ids
  MaxThreads,      \* maximumThreadsPerDeck
  MaxMessages,     \* maximumMessagesPerThread
  MaxEdits,        \* maximumEditsPerMessage
  MaxBytes,        \* maximumDiscussionBytesPerDeck
  MaxRemembered    \* rememberedDiscussionRequestIds

ASSUME DiscussionLimitsAssumption ==
  /\ MaxThreads \in Nat /\ MaxMessages \in Nat /\ MaxEdits \in Nat /\ MaxBytes \in Nat
  /\ MaxRemembered \in Nat \ {0}

-----------------------------------------------------------------------------
\* Commands.
Commands ==
       [kind : {"createThread", "reply", "editMessage"}, thread : Threads, message : Messages, body : Nat]
  \cup [kind : {"deleteMessage"}, thread : Threads, message : Messages]
  \cup [kind : {"resolveThread", "reopenThread", "deleteThread"}, thread : Threads]

\* What they refer to.  Threads are a function from the ids there
\* are to their creator, status and messages; messages likewise.

NoThreads == <<>>

EmptyDiscussion == [sequence |-> 0, threads |-> NoThreads]

MessageIds(threads) == UNION {DOMAIN threads[thread].messages : thread \in DOMAIN threads}

HasThread(threads, command) == command.thread \in DOMAIN threads

HasMessage(threads, command) ==
  HasThread(threads, command) /\ command.message \in DOMAIN threads[command.thread].messages

MessageOf(threads, command) == threads[command.thread].messages[command.message]

\* discussionRefusal: existence, duplicates, authorship, blank bodies.
Refused(threads, command, actor, mayDeleteAnyThread) ==
  CASE command.kind = "createThread" ->
         \/ HasThread(threads, command)
         \/ command.message \in MessageIds(threads)
         \/ command.body = 0
    [] command.kind = "reply" ->
         \/ ~HasThread(threads, command)
         \/ command.message \in MessageIds(threads)
         \/ command.body = 0
    [] command.kind = "editMessage" ->
         \/ ~HasMessage(threads, command)
         \/ MessageOf(threads, command).author # actor
         \/ command.body = 0
    [] command.kind = "deleteMessage" ->
         ~HasMessage(threads, command) \/ MessageOf(threads, command).author # actor
    [] command.kind \in {"resolveThread", "reopenThread"} -> ~HasThread(threads, command)
    [] command.kind = "deleteThread" ->
         \/ ~HasThread(threads, command)
         \/ ~mayDeleteAnyThread /\ threads[command.thread].createdBy # actor

-----------------------------------------------------------------------------
\* The fold.

With(function, id, value) ==
  [other \in DOMAIN function \cup {id} |-> IF other = id THEN value ELSE function[other]]

Without(function, id) == [other \in DOMAIN function \ {id} |-> function[other]]

Written(actor, body) == [author |-> actor, body |-> body, edits |-> 0]

Edited(message, body) == [author |-> message.author, body |-> body, edits |-> message.edits + 1]

Changed(threads, command, actor) ==
  LET thread == threads[command.thread]
  IN  CASE command.kind = "createThread" ->
             [createdBy |-> actor, resolved |-> FALSE,
              messages |-> With(<<>>, command.message, Written(actor, command.body))]
        [] command.kind = "reply" ->
             [thread EXCEPT !.messages = With(@, command.message, Written(actor, command.body))]
        [] command.kind = "editMessage" ->
             [thread EXCEPT !.messages = With(@, command.message, Edited(@[command.message], command.body))]
        [] command.kind = "deleteMessage" ->
             [thread EXCEPT !.messages = Without(@, command.message)]
        [] command.kind = "resolveThread" -> [thread EXCEPT !.resolved = TRUE]
        [] command.kind = "reopenThread" -> [thread EXCEPT !.resolved = FALSE]

\* applyEntry: an entry that may not be applied is skipped.
ApplyEntry(threads, entry) ==
  IF Refused(threads, entry.command, entry.actor, TRUE) THEN threads
  ELSE IF entry.command.kind = "deleteThread" THEN Without(threads, entry.command.thread)
  ELSE With(threads, entry.command.thread, Changed(threads, entry.command, entry.actor))

\* reduceDiscussionLog.
Reduce(snapshot, entry) ==
  [sequence |-> entry.sequence, threads |-> ApplyEntry(snapshot.threads, entry)]

Fold(entries) == FoldLeft(Reduce, EmptyDiscussion, entries)

-----------------------------------------------------------------------------
\* The authority.

\* The bytes of the messages that are there.
BytesOfThread(thread) ==
  SumFunction([message \in DOMAIN thread.messages |-> thread.messages[message].body])

BytesOf(threads) == SumFunction([thread \in DOMAIN threads |-> BytesOfThread(threads[thread])])

\* Mutant of BytesDelta: an edit adds its body and forgets the one it replaces.
BytesAdded(threads, command) ==
  CASE command.kind \in {"createThread", "reply", "editMessage"} -> command.body
    [] command.kind = "deleteMessage" /\ HasMessage(threads, command) -> -MessageOf(threads, command).body
    [] command.kind = "deleteThread" /\ HasThread(threads, command) -> -BytesOfThread(threads[command.thread])
    [] OTHER -> 0

\* bodyBytesDelta: what is missing counts as empty.
BytesDelta(threads, command) ==
  CASE command.kind \in {"createThread", "reply"} -> command.body
    [] command.kind = "editMessage" ->
         command.body - IF HasMessage(threads, command) THEN MessageOf(threads, command).body ELSE 0
    [] command.kind = "deleteMessage" /\ HasMessage(threads, command) -> -MessageOf(threads, command).body
    [] command.kind = "deleteThread" /\ HasThread(threads, command) -> -BytesOfThread(threads[command.thread])
    [] OTHER -> 0

\* Mutant of OverLimit: the body alone is held against the deck's budget.
BodyOverLimit(state, command) ==
  command.kind \in {"createThread", "reply", "editMessage"} /\ command.body > MaxBytes

\* limitRefusal.
OverLimit(state, command) ==
  LET threads == state.snapshot.threads
      growth == BytesDelta(threads, command)
  IN  \/ command.kind = "createThread" /\ Cardinality(DOMAIN threads) >= MaxThreads
      \/ /\ command.kind = "reply" /\ HasThread(threads, command)
         /\ Cardinality(DOMAIN threads[command.thread].messages) >= MaxMessages
      \/ /\ command.kind = "editMessage" /\ HasMessage(threads, command)
         /\ MessageOf(threads, command).edits >= MaxEdits
      \/ /\ command.kind \in {"createThread", "reply", "editMessage"}
         /\ growth > 0 /\ state.bytes + growth > MaxBytes

MayComment(role) == role # "viewer"

MayModerate(role) == role = "owner"

\* Mutant of AuthorityRefuses: the log's own rules are left to the fold.
OnlyLimitsRefuse(state, command, actor, role) == ~MayComment(role) \/ OverLimit(state, command)

\* authorityRefusal.
AuthorityRefuses(state, command, actor, role) ==
  \/ ~MayComment(role)
  \/ OverLimit(state, command)
  \/ Refused(state.snapshot.threads, command, actor, MayModerate(role))

LastOf(most, sequence) == SubSeq(sequence, IF Len(sequence) > most THEN Len(sequence) - most + 1 ELSE 1, Len(sequence))

Remembered(entry) == [person |-> entry.actor, outcome |-> [request |-> entry.request, applied |-> TRUE, sequence |-> entry.sequence]]

\* Mutant of AuthorityFromLog: a load does not remember the outcomes that are in the log.
ForgetfulAuthority(entries) ==
  [snapshot |-> Fold(entries), remembered |-> <<>>, bytes |-> BytesOf(Fold(entries).threads)]

\* discussionAuthorityFromLog.
AuthorityFromLog(entries) ==
  [snapshot |-> Fold(entries),
   remembered |-> LastOf(MaxRemembered, [i \in DOMAIN entries |-> Remembered(entries[i])]),
   bytes |-> BytesOf(Fold(entries).threads)]

Remember(state, actor, outcome) ==
  [state EXCEPT !.remembered = LastOf(MaxRemembered, Append(@, [person |-> actor, outcome |-> outcome]))]

\* Mutant of FirstOutcomes: nothing is remembered.
NoOutcomes(state, actor, request) == {}

\* What this person's request was answered already.
FirstOutcomes(state, actor, request) ==
  {past.outcome : past \in {some \in Range(state.remembered) : some.person = actor /\ some.outcome.request = request}}

\* decideDiscussionRequest: the outcome, the entries to append (at most one) and the state.
Decide(state, request, command, actor, role) ==
  LET earlier == FirstOutcomes(state, actor, request)
      rejected == [request |-> request, applied |-> FALSE, sequence |-> 0]
      entry == [sequence |-> state.snapshot.sequence + 1, request |-> request, actor |-> actor, command |-> command]
      appended == [snapshot |-> Reduce(state.snapshot, entry),
                   remembered |-> state.remembered,
                   bytes |-> state.bytes + BytesDelta(state.snapshot.threads, command)]
  IN  IF earlier # {} THEN
        [outcome |-> CHOOSE outcome \in earlier : TRUE, entries |-> <<>>, state |-> state]
      ELSE IF AuthorityRefuses(state, command, actor, role) THEN
        [outcome |-> rejected, entries |-> <<>>, state |-> Remember(state, actor, rejected)]
      ELSE
        [outcome |-> Remembered(entry).outcome, entries |-> <<entry>>,
         state |-> Remember(appended, actor, Remembered(entry).outcome)]
=============================================================================
