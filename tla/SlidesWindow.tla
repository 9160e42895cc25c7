---------------------------- MODULE SlidesWindow ----------------------------
(***************************************************************************)
(* The add-on's slides window on one proposal (addon/src/dialog.tsx,       *)
(* observer.ts, picker-state.ts) beside the connector of Proposal: the     *)
(* observer finds the proposal and offers it, a tick follows its           *)
(* revisions, and the user inserts a candidate or dismisses the set.  The  *)
(* slide is in the deck before PICK and the log's line are written, both   *)
(* at once and each able to fail.                                          *)
(*                                                                         *)
(* A window may be opened with a seed, what the sidebar knows of the set.  *)
(* The window's events run one at a time; its reads and writes end later.  *)
(* The candidates' bytes, their conversion, comments, mark-ups and merges  *)
(* are left out: a candidate on screen can be inserted.                    *)
(***************************************************************************)
EXTENDS Proposal

VARIABLES
  shown,    \* what the window shows, and the set it offers
  observer, \* its phase, and the proposals it has seen, kept across windows
  tick,     \* the revision tick: at rest, or about to read the manifest
  answer,   \* the last answer: the candidate, or a dismissal
  writing,  \* what is being sent of it: the insertion, the dismissal, PICK, the line
  deck      \* the candidates put in the deck

windowVars == <<shown, observer, tick, answer, writing, deck>>
vars == <<folderVars, connectorVars, windowVars>>

-----------------------------------------------------------------------------
Statuses == {"closed", "dormant", "picking", "submitting", "settled", "cleared"}

\* Listing is also waiting for the next poll.
Phases == {"stopped", "listing", "loading", "offering"}

Shown == [status: Statuses, revision: Nat, slides: SUBSET Slides]

NothingShown(status) == [status |-> status, revision |-> 0, slides |-> {}]

\* Mutant of Settled: the offer stays.
SettledWithOffer == [shown EXCEPT !.status = "settled"]

\* reducePicker, "settled": the offer is gone.
Settled == NothingShown("settled")

Opened == shown.status # "closed"

\* offerOf.
HasOffer == shown.status \in {"picking", "submitting"}

\* parseManifest: the slides are 1..count, in order, with no holes.
Readable(slides) == \A s \in slides : \A t \in Slides : t < s => t \in slides

\* The picker with the offer of the manifest as it is.
Offer(status) == [status |-> status, revision |-> manifest.revision, slides |-> manifest.slides]

\* Mutant of isNewer: a revision next to the one shown is not newer.
MuchNewer(shownRevision, offered) == offered > shownRevision + 1

isNewer(shownRevision, offered) == offered > shownRevision

\* reducePicker, "proposal-offered": the same proposal is replaced by a newer
\* revision only; whatever has no offer starts a fresh one.
Offered ==
  IF HasOffer /\ ~isNewer(shown.revision, manifest.revision) THEN shown
  ELSE IF manifest.slides = {} THEN NothingShown("cleared")
  ELSE IF shown.status = "submitting" THEN shown
  ELSE Offer("picking")

TypeOK ==
  /\ FolderTypeOK
  /\ shown \in Shown /\ (HasOffer \/ shown = NothingShown(shown.status))
  /\ observer \in [phase: Phases, seen: BOOLEAN]
  /\ tick \in {"rest", "manifest"}
  /\ answer \in {Dismissal} \cup Slides
  /\ writing \subseteq {"insert", "dismissal", "pick", "line"}
  /\ deck \subseteq Slides

Init ==
  /\ FolderInit
  /\ shown = NothingShown("closed")
  /\ observer = [phase |-> "stopped", seen |-> FALSE]
  /\ tick = "rest" /\ answer = Dismissal /\ writing = {}
  /\ deck = {}

-----------------------------------------------------------------------------
\* The window and its observer.

\* main: a window, with nothing to show or with the set the sidebar follows.
Open ==
  /\ ~Opened
  /\ \/ shown' = NothingShown("dormant")
     \/ /\ "READY" \in files /\ pick = {} /\ Readable(manifest.slides)
        /\ shown' = IF manifest.slides = {} THEN NothingShown("cleared") ELSE Offer("picking")
  /\ observer' = [observer EXCEPT !.phase = "listing"]
  /\ UNCHANGED <<folderVars, connectorVars, tick, answer, writing, deck>>

\* nextCandidate.
Wanted == "READY" \in files /\ pick = {} /\ ~observer.seen

\* "listed" with the proposal; it is polled for until then.
Listed ==
  /\ observer.phase = "listing" /\ Wanted
  /\ observer' = [observer EXCEPT !.phase = "loading"]
  /\ UNCHANGED <<folderVars, connectorVars, shown, tick, answer, writing, deck>>

\* "loaded", and its announcement; "load-failed"; or "load-rejected".
Loaded ==
  /\ observer.phase = "loading"
  /\ \/ /\ Readable(manifest.slides)
        /\ observer' = [observer EXCEPT !.phase = "offering"]
        /\ shown' = Offered
     \/ observer' = [observer EXCEPT !.phase = "listing"] /\ UNCHANGED shown
     \/ /\ ~Readable(manifest.slides)
        /\ observer' = [phase |-> "listing", seen |-> TRUE]
        /\ UNCHANGED shown
  /\ UNCHANGED <<folderVars, connectorVars, tick, answer, writing, deck>>

\* "resolved", when the observer offers the proposal; else it is dropped.
Resolved ==
  IF observer.phase = "offering" THEN [phase |-> "listing", seen |-> TRUE] ELSE observer

\* checkForRevision, up to the log.
TickReadsLog ==
  /\ tick = "rest" /\ shown.status = "picking"
  /\ \E r \in Revisions : isNewer(shown.revision, r)
  /\ tick' = "manifest"
  /\ UNCHANGED <<folderVars, connectorVars, shown, observer, answer, writing, deck>>

\* checkForRevision, the manifest; nothing happens when it cannot be read.
TickReadsManifest ==
  /\ tick = "manifest"
  /\ tick' = "rest"
  /\ shown' = IF Readable(manifest.slides) THEN Offered ELSE shown
  /\ UNCHANGED <<folderVars, connectorVars, observer, answer, writing, deck>>

-----------------------------------------------------------------------------
\* The user's answer; bound: one answer is being written at a time.

\* Mutant of Sent: the answer is written while the slide is being inserted.
SentAtOnce(s) == IF s = Dismissal THEN {"dismissal"} ELSE {"insert", "pick", "line"}

\* What the window sends first.
Sent(s) == IF s = Dismissal THEN {"dismissal"} ELSE {"insert"}

\* What is left to send; an answer that is sent, or given up, is forgotten.
Left(rest) == writing' = rest /\ answer' = IF rest = {} THEN Dismissal ELSE answer

\* submitInsert or submitDismissal.
Submit(s) ==
  /\ shown.status = "picking" /\ writing = {}
  /\ s \in shown.slides \cup {Dismissal}
  /\ shown' = [shown EXCEPT !.status = "submitting"]
  /\ answer' = s
  /\ writing' = Sent(s)
  /\ UNCHANGED <<folderVars, connectorVars, observer, tick, deck>>

\* insertPicked has put the slide in the deck: the window says so, the observer
\* is told, and PICK and the line are written.
Inserted ==
  /\ "insert" \in writing
  /\ deck' = deck \cup {answer}
  /\ shown' = Settled
  /\ observer' = Resolved
  /\ writing' = {"pick", "line"}
  /\ UNCHANGED <<folderVars, connectorVars, tick, answer>>

\* sashaWritePick: the first answer takes the slot.
PickTaken(by) ==
  /\ pick' = IF pick = {} THEN {by} ELSE pick
  /\ UNCHANGED <<files, html, log, manifest>>

\* "submit-failed": the insertion or the dismissal fails, or only its answer is lost.
SubmitFails ==
  /\ writing \cap {"insert", "dismissal"} # {}
  /\ shown' = IF HasOffer THEN [shown EXCEPT !.status = "picking"] ELSE shown
  /\ \/ UNCHANGED <<folderVars, deck>>
     \/ "insert" \in writing /\ deck' = deck \cup {answer} /\ UNCHANGED folderVars
     \/ "dismissal" \in writing /\ PickTaken(Dismissal) /\ UNCHANGED deck
  /\ Left({})
  /\ UNCHANGED <<connectorVars, observer, tick>>

\* submitDismissal has written PICK.
Dismissed ==
  /\ "dismissal" \in writing
  /\ PickTaken(Dismissal)
  /\ shown' = Settled
  /\ observer' = Resolved
  /\ Left({})
  /\ UNCHANGED <<connectorVars, tick, deck>>

\* recordInsert, or a dismissal whose window is closed: each file on its own.
PickWritten ==
  /\ "pick" \in writing
  /\ PickTaken(answer)
  /\ Left(writing \ {"pick"})
  /\ UNCHANGED <<connectorVars, shown, observer, tick, deck>>

LineWritten ==
  /\ "line" \in writing
  /\ AppendLine(LineOf("slide-inserted", 0, {answer}))
  /\ Left(writing \ {"line"})
  /\ UNCHANGED <<connectorVars, shown, observer, tick, deck>>

\* A write of the answer fails, and is not tried again.
WriteLost(file) ==
  /\ file \in writing \cap {"pick", "line"}
  /\ Left(writing \ {file})
  /\ UNCHANGED <<folderVars, connectorVars, shown, observer, tick, deck>>

\* The user closes the window: what it has sent takes effect or not, and what it
\* would have sent afterwards is never sent.
Close ==
  /\ Opened
  /\ shown' = NothingShown("closed")
  /\ observer' = [observer EXCEPT !.phase = "stopped"]
  /\ tick' = "rest"
  /\ deck' \in {deck, IF "insert" \in writing THEN deck \cup {answer} ELSE deck}
  /\ Left((writing \ {"insert", "dismissal"}) \cup (IF "dismissal" \in writing THEN {"pick"} ELSE {}))
  /\ UNCHANGED <<folderVars, connectorVars>>

-----------------------------------------------------------------------------
Ticks == TickReadsLog \/ TickReadsManifest

Window ==
  \/ Open \/ Close \/ Listed \/ Loaded \/ Ticks
  \/ \E s \in {Dismissal} \cup Slides : Submit(s)
  \/ Inserted \/ SubmitFails \/ Dismissed \/ PickWritten \/ LineWritten
  \/ \E file \in {"pick", "line"} : WriteLost(file)

Next == Window \/ (Connector /\ UNCHANGED windowVars)

Spec == Init /\ [][Next]_vars

\* An open window's clock keeps ticking, and its reads do not fail for ever.
FairSpec == Spec /\ WF_vars(TickReadsLog) /\ WF_vars(TickReadsManifest)

-----------------------------------------------------------------------------
\* Properties.

\* proposal.ts:597-602, PROTOCOL.md "Insertion is discoverable from the log": a
\* clear deletes no candidate that PICK or a line said was inserted when it began,
\* unless every read that would have said so, of the log, of the line or of PICK,
\* failed (lines 1204-1212 and 1246-1249 only warn of that).
KeepsInserted ==
  [][\A s \in Slides : html[s] # 0 /\ html'[s] = 0 => s \notin call.recorded]_vars

\* proposal.ts:485-489, 668-677: whatever failed before, a manifest that a staging
\* or a clear writes names exactly the candidates that have a file.
ManifestNamesFiles ==
  [][manifest' # manifest /\ ~At("rewrite") => manifest'.slides = Candidates]_vars

\* insert-flow.ts:16-19: what PICK or the log says is in the deck is in the deck,
\* however windows are closed and opened between the insertion and its record.
ToldIsDone == InsertedInPick \cup InsertedInLog \subseteq deck

\* dialog.tsx:270-277: a window that offers a set comes to show its revision,
\* unless the manifest that a clear left cannot be read.
Behind ==
  /\ shown.status = "picking" /\ manifest.revision > shown.revision
  /\ Readable(manifest.slides)

WindowFollows == Behind ~> ~Behind

\* dialog.tsx:1057-1058, insert-flow.ts:16-18: a window that has settled, with a
\* slide in the deck, does not offer the set again.
InsertedOnce ==
  [][shown.status = "settled" /\ deck # {} => shown'.status # "picking"]_vars
=============================================================================
