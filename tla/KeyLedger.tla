----------------------------- MODULE KeyLedger -----------------------------
(* What the relay promises about device handles, with no Redis command and  *)
(* no handler in sight: a handle is held by at most one key at a time, it   *)
(* passes to another key only after it was released, and a registration    *)
(* the relay confirmed names the key that holds the handle.                 *)
CONSTANTS Handle, Key, NoKey

VARIABLES
    holder,     \* the key that holds each handle, NoKey when it is free
    promised    \* the holder the relay confirmed since the last release

vars == <<holder, promised>>

Init ==
    /\ holder = [h \in Handle |-> NoKey]
    /\ promised = [h \in Handle |-> NoKey]

Claim(h, k) ==
    /\ holder[h] = NoKey
    /\ holder' = [holder EXCEPT ![h] = k]
    /\ UNCHANGED promised

Confirm(h) ==
    /\ holder[h] # NoKey
    /\ promised' = [promised EXCEPT ![h] = holder[h]]
    /\ UNCHANGED holder

Release(S) ==
    /\ holder' = [h \in Handle |-> IF h \in S THEN NoKey ELSE holder[h]]
    /\ promised' = [h \in Handle |-> IF h \in S THEN NoKey ELSE promised[h]]

Next ==
    \/ \E h \in Handle, k \in Key : Claim(h, k)
    \/ \E h \in Handle : Confirm(h)
    \/ \E S \in SUBSET Handle : Release(S)

Spec == Init /\ [][Next]_vars
=============================================================================
