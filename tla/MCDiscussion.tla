---------------------------- MODULE MCDiscussion ----------------------------
(***************************************************************************)
(* A commenter and the owner of a deck, with two requests and one, and the *)
(* commands that touch each other: a thread, a change of it and a third    *)
(* command that the two race with.                                         *)
(***************************************************************************)
EXTENDS Discussion

CONSTANTS ana, ben, first, second, third, t1, m1, m2

MCClients == {ana, ben}
MCPersonOf == [client \in MCClients |-> client]
MCRole == (ana :> "commenter") @@ (ben :> "owner")
MCClientOf == [request \in Requests |-> IF request = third THEN ben ELSE ana]

CreateThread(body) == [kind |-> "createThread", thread |-> t1, message |-> m1, body |-> body]
ReplyWith(body) == [kind |-> "reply", thread |-> t1, message |-> m2, body |-> body]
EditTo(body) == [kind |-> "editMessage", thread |-> t1, message |-> m1, body |-> body]
DeleteMessage == [kind |-> "deleteMessage", thread |-> t1, message |-> m1]
OnThread(kind) == [kind |-> kind, thread |-> t1]

Script(one, two, three) ==
  [request \in Requests |-> CASE request = first -> one
                              [] request = second -> two
                              [] request = third -> three]

\* The reply fits the deck's bytes only after the edit; the deletions give bytes back;
\* the owner deletes a thread that is not his.
MCScripts ==
  {Script(CreateThread(2), EditTo(1), ReplyWith(2)),
   Script(CreateThread(2), DeleteMessage, OnThread("deleteThread"))}
=============================================================================
