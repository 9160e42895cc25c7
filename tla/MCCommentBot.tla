---------------------------- MODULE MCCommentBot ----------------------------
EXTENDS CommentBot
=============================================================================
