--------------------------- MODULE MCDeckRegistry ---------------------------
EXTENDS DeckRegistry

CONSTANTS u1, u2

MCUpdates == {u1, u2}
Clean == {"nothing", "line"}
Any == {"nothing", "part", "line"}
=============================================================================
