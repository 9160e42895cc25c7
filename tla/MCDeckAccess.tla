---------------------------- MODULE MCDeckAccess ----------------------------
EXTENDS DeckAccess, TLC

CONSTANTS owner, ann, s1, s2

MCTwo == {owner, ann}
MCSockets0 == {}
MCSockets2 == {s1, s2}
MCRoles == {"editor"}
MCSymmetry == Permutations(MCSockets2)
=============================================================================
