------------------------------ MODULE Mailbox ------------------------------
(* What the relay promises the recipients of messages, with no Redis command *)
(* and no handler in sight: a copy put into a box waits until it is given to *)
(* the recipient, or until one of the accidents the relay does not exclude   *)
(* befell it; and nobody is given anything that was not posted.              *)
CONSTANTS
    Msg,        \* messages
    Copy        \* copies of messages, one for each box a message is put into

VARIABLES
    posted,     \* the messages posted so far
    waiting,    \* the copies the recipient can still be given
    given,      \* the copies written to a client of the recipient
    lost        \* the copies an accident befell, waiting or not

vars == <<posted, waiting, given, lost>>

Init == posted = {} /\ waiting = {} /\ given = {} /\ lost = {}

Post(m) ==
    /\ posted' = posted \cup {m}
    /\ UNCHANGED <<waiting, given, lost>>

\* A copy may come at a bad moment.
Put(x) ==
    /\ x.msg \in posted
    /\ waiting' = waiting \cup {x}
    /\ lost' \in {lost, lost \cup {x}}
    /\ UNCHANGED <<posted, given>>

\* A message is written to a client that listens, whether or not it waits.
Write(x) ==
    /\ x.msg \in posted
    /\ given' = given \cup {x}
    /\ UNCHANGED <<posted, waiting, lost>>

\* Copies that wait are given to the recipient, or have an accident.  What
\* waits no longer was given, now or before, or had an accident.
Serve ==
    /\ given \subseteq given' /\ given' \subseteq given \cup waiting
    /\ lost \subseteq lost' /\ lost' \subseteq lost \cup waiting
    /\ waiting' \subseteq waiting
    /\ waiting \ waiting' \subseteq given' \cup lost'
    /\ UNCHANGED posted

Next ==
    \/ \E m \in Msg : Post(m)
    \/ \E x \in Copy : Put(x) \/ Write(x)
    \/ Serve

Spec == Init /\ [][Next]_vars
=============================================================================
