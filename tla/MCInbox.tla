------------------------------- MODULE MCInbox -------------------------------
(* Small instances of the inbox for TLC.                                    *)
EXTENDS Inbox, TLC

CONSTANTS ann, Ann, bob, m1, m2, m3, lower, upper, c1, c2

\* Every message from one sender, or one message that names none.
MCOneSender == [m \in Msg |-> ann]
MCAnonymous == [m \in Msg |-> IF m = m3 THEN NoSender ELSE ann]

\* One handle in two letter cases.
MCFold == [s \in Sender |-> IF s = Ann THEN ann ELSE s]

\* A recipient known under one spelling, or under two that fan out to both.
MCOneBox == [b \in Box |-> <<b>>]
MCTwoBoxes == (lower :> <<lower, upper>> @@ upper :> <<upper, lower>>)

Full(kind) == {[kind |-> kind, box |-> b, with |-> NoSender] : b \in Box}
With(kind) == {[kind |-> kind, box |-> b, with |-> s] : b \in Box, s \in Sender}

MCFullFetch == Full("fetch")
MCMixed == Full("fetch") \cup Full("stream") \cup With("fetch") \cup With("stream")
=============================================================================
