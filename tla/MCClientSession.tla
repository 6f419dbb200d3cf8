-------------------------- MODULE MCClientSession --------------------------
(* A small instance of the listening programs for TLC.                      *)
EXTENDS ClientSession, TLC

CONSTANTS ann, bob, alias

Mail(from, file, readable) == [from |-> from, file |-> file, readable |-> readable]

\* A file and an illegible letter of one sender, a text of another, and a text
\* without a sender.
MCMails == {Mail(ann, TRUE, TRUE), Mail(ann, FALSE, FALSE), Mail(bob, FALSE, TRUE),
            Mail(NoSender, FALSE, TRUE)}

\* A peer; a group; and a peer under another spelling than its own.
MCInvited == [chat |-> {<<ann>>, <<ann, bob>>}, tui |-> {<<ann>>, <<alias>>},
              web |-> {<<>>}, shell |-> {<<>>}]
=============================================================================
