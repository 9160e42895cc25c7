---------------------------- MODULE SharedScript ----------------------------
(***************************************************************************)
(* The part of a shared document that the guard protects: one transition   *)
(* script with its text and its approval (model/command-application.ts,    *)
(* model/protected-fields.ts), as the set of the updates a replica holds,  *)
(* and the guard's decision (server/protected-field-guard.ts).             *)
(*                                                                         *)
(* Yjs is modelled from its use: each of the two fields is a map entry     *)
(* whose value is the rightmost of the writes to it, a write being placed  *)
(* after the one it replaced and concurrent ones by client id.  The author *)
(* and the meta keys are corrected the way the approval is, and left out.  *)
(***************************************************************************)
EXTENDS Naturals, Sequences, FiniteSets, SequencesExt

CONSTANT People    \* those who may make updates over a socket

\* Who else is named in an update or an approval is nobody among them.
ASSUME PeopleAssumption == People \cap {"nobody", "earlier", "room", "agent"} = {}

\* A replica's client id, which Yjs takes at random, is a pair here: the n-th replica of a
\* page or of the room, and the number of that page or of the room.
Renewed(replica) == <<replica[1] + 1, replica[2]>>

\* An update is named by its replica and a clock; ids are ordered by their replica first.
IdOf(replica, clock) == <<replica[1], replica[2], clock>>
ReplicaOf(id) == <<id[1], id[2]>>

Less(id, other) ==
  \/ id[1] < other[1]
  \/ id[1] = other[1] /\ id[2] < other[2]
  \/ id[1] = other[1] /\ id[2] = other[2] /\ id[3] < other[3]

FirstId == <<0, 0, 0>>

Unapproved == [by |-> "nobody", text |-> FirstId]
ApprovedBy(person, text) == [by |-> person, text |-> text]

\* What createDeck or an earlier session left: a text nobody approved.
FirstUpdate ==
  [id |-> FirstId, by |-> "earlier", needs |-> {}, text |-> <<FirstId>>, approval |-> <<FirstId>>,
   value |-> Unapproved]

-----------------------------------------------------------------------------
\* Documents.

IdsOf(updates) == {update.id : update \in updates}

\* What Yjs integrates of the updates it was given; the rest is pending.
View(updates) == {update \in updates : update.needs \subseteq IdsOf(updates)}

Precedes(path, other) ==
  \/ IsStrictPrefix(path, other)
  \/ \E i \in DOMAIN path \cap DOMAIN other :
       SubSeq(path, 1, i - 1) = SubSeq(other, 1, i - 1) /\ Less(path[i], other[i])

\* The write that stands: the rightmost.
LastText(doc) ==
  CHOOSE update \in doc : update.text # <<>> /\ \A other \in doc : ~ Precedes(update.text, other.text)
LastApproval(doc) ==
  CHOOSE update \in doc : update.approval # <<>> /\ \A other \in doc : ~ Precedes(update.approval, other.approval)

TextOf(doc) == LastText(doc).id
ApprovalOf(doc) == LastApproval(doc).value

\* A state the guard never lets stand: an approval of another text than the one shown.
Forbidden(doc) == ApprovalOf(doc) # Unapproved /\ ApprovalOf(doc).text # TextOf(doc)

-----------------------------------------------------------------------------
\* Updates.  A write needs the one it replaces and what its replica made before.

Own(doc, replica) == {update \in doc : ReplicaOf(update.id) = replica}

Needed(doc, parents, replica) ==
  UNION {update.needs \cup {update.id} : update \in parents \cup Own(doc, replica)}

Made(doc, replica, by, parents, text, approval, value) ==
  [id |-> IdOf(replica, Cardinality(Own(doc, replica)) + 1),
   by |-> by, needs |-> Needed(doc, parents, replica),
   text |-> text, approval |-> approval, value |-> value]

\* upsertTransitionScript writes both fields, approved by its author or not.
Save(doc, replica, by, value) ==
  LET id == IdOf(replica, Cardinality(Own(doc, replica)) + 1)
  IN  Made(doc, replica, by, {LastText(doc), LastApproval(doc)},
           Append(LastText(doc).text, id), Append(LastApproval(doc).approval, id), value)

SaveApproved(doc, replica, by) ==
  Save(doc, replica, by, ApprovedBy(by, IdOf(replica, Cardinality(Own(doc, replica)) + 1)))

SetApproval(doc, replica, by, value) ==
  Made(doc, replica, by, {LastApproval(doc)}, <<>>,
       Append(LastApproval(doc).approval, IdOf(replica, Cardinality(Own(doc, replica)) + 1)), value)

\* approveTransitionScript: of the text the replica shows.
Approve(doc, replica, by) == SetApproval(doc, replica, by, ApprovedBy(by, TextOf(doc)))

\* The commands an editor may give; approving what one has approved changes nothing.
Edits(doc, replica, person) ==
  {Save(doc, replica, person, Unapproved), SaveApproved(doc, replica, person)}
  \cup IF ApprovalOf(doc) = ApprovedBy(person, TextOf(doc)) THEN {} ELSE {Approve(doc, replica, person)}

-----------------------------------------------------------------------------
\* The guard.

\* approvalRevocation: an approval that the update touched, or whose text it touched.
Revokes(before, after, sender, mayApprove) ==
  /\ ApprovalOf(after) # Unapproved
  /\ ~ (TextOf(before) = TextOf(after) /\ ApprovalOf(before) = ApprovalOf(after))
  /\ \/ ~ mayApprove
     \/ ApprovalOf(after).by # sender
     \/ ApprovalOf(after).text # TextOf(after)

\* What writeProtectedFields adds to the document.
Corrections(before, after, sender, mayApprove, replica) ==
  IF Revokes(before, after, sender, mayApprove)
  THEN {SetApproval(after, replica, "room", Unapproved)} ELSE {}
=============================================================================
