----------------------------- MODULE MCDeckSync -----------------------------
EXTENDS DeckSync

CONSTANTS ana, ben

MCPeople == {ana, ben}
\* The first room's client id lies between those of the pages, a reloaded one's above both.
MCPageNumber == (ana :> 3) @@ (ben :> 1)
MCEditors == {(ana :> "editor") @@ (ben :> "editor")}
MCOneReads == {(ana :> "editor") @@ (ben :> "viewer")}
MCEither == MCEditors \cup MCOneReads
=============================================================================
