----------------------------- MODULE DurableDeck -----------------------------
(***************************************************************************)
(* What the deck server promises about one deck's content, whatever it     *)
(* does with rooms, logs and snapshots.                                    *)
(***************************************************************************)
CONSTANT Updates

VARIABLES
  status,   \* "gone" (none, or its deletion has begun), "closed", "open"
  content,  \* what the deck shows, or will show when it is opened
  durable,  \* what no crash can take away
  atRisk     \* the process is ending or down, or the disk is refusing writes

vars == <<status, content, durable, atRisk>>

TypeOK ==
  /\ status \in {"gone", "closed", "open"}
  /\ content \in SUBSET Updates
  /\ durable \in SUBSET Updates
  /\ atRisk \in BOOLEAN

Init ==
  /\ status = "gone" /\ content = {} /\ durable = {}
  /\ atRisk = FALSE

Create ==
  /\ status = "gone" /\ status' = "closed"
  /\ content' = {} /\ durable' = {}
  /\ atRisk' \in BOOLEAN

\* Opening and closing show and keep exactly what there is.
Open == status = "closed" /\ status' = "open" /\ UNCHANGED <<content, durable, atRisk>>

\* A deck that holds nothing yet is opened with its first content.
Seed ==
  /\ status = "closed" /\ content = {} /\ status' = "open"
  /\ \E update \in Updates : content' = {update}
  /\ UNCHANGED <<durable, atRisk>>

Close ==
  /\ status = "open" /\ content = durable /\ status' = "closed"
  /\ UNCHANGED <<content, durable>>
  /\ atRisk' \in BOOLEAN

Accept(update) ==
  /\ status = "open" /\ content' = content \cup {update}
  /\ UNCHANGED <<status, durable, atRisk>>

\* More of the content, and nothing else, becomes durable.
Persist ==
  /\ status = "open"
  /\ durable \subseteq durable' /\ durable' \subseteq content
  /\ UNCHANGED <<status, content>>
  /\ atRisk' \in BOOLEAN

\* Only when at risk does an open deck fall back, and never below what is durable.
FallBack ==
  /\ status = "open" /\ (atRisk \/ atRisk')
  /\ status' = "closed"
  /\ durable \subseteq durable' /\ durable' \subseteq content
  /\ content' = durable'
  /\ atRisk' \in BOOLEAN

Delete ==
  /\ status # "gone" /\ status' = "gone"
  /\ content' = {} /\ durable' = {}
  /\ atRisk' \in BOOLEAN

\* The process ended while the deck was being deleted: what is left is a deck again.
DeletionInterrupted ==
  /\ status = "gone" /\ atRisk'
  /\ status' = "closed"
  /\ durable' \in SUBSET Updates /\ content' = durable'

RiskChanges == atRisk' = ~atRisk /\ UNCHANGED <<status, content, durable>>

Next ==
  \/ Create \/ Seed \/ Open \/ Close \/ Delete \/ Persist \/ FallBack
  \/ DeletionInterrupted \/ RiskChanges
  \/ \E update \in Updates : Accept(update)

Spec == Init /\ [][Next]_vars

\* What is durable is shown, and a closed deck keeps everything it showed.
DurableIsShown == durable \subseteq content /\ (status = "closed" => content = durable)
=============================================================================
