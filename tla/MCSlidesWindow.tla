--------------------------- MODULE MCSlidesWindow ---------------------------
EXTENDS SlidesWindow
=============================================================================
