----------------------------- MODULE PasteVault -----------------------------
(* What the relay promises about pastes: an id names at most one text at a  *)
(* time, a reader gets the text the id names, and handing out a             *)
(* burn-after-reading text destroys it in the same step.                    *)
CONSTANTS
    Id, BurnId,     \* ids, and those whose text is read once
    Text, NoText,
    Reader

VARIABLES
    vault,    \* the text each id names, NoText when none
    out       \* the text each reader was handed last

vars == <<vault, out>>

Without(S) == [i \in Id |-> IF i \in S THEN NoText ELSE vault[i]]

Init ==
    /\ vault = [i \in Id |-> NoText]
    /\ out = [r \in Reader |-> NoText]

Deposit(i, x) ==
    /\ vault[i] = NoText
    /\ vault' = [vault EXCEPT ![i] = x]
    /\ UNCHANGED out

HandOut(r, i) ==
    /\ vault[i] # NoText
    /\ out' = [out EXCEPT ![r] = vault[i]]
    /\ vault' = IF i \in BurnId THEN Without({i}) ELSE vault

\* Texts run out of time, are cleared, or are burned by a reader that fails.
Vanish(S) == vault' = Without(S) /\ UNCHANGED out

Forget(r) == out' = [out EXCEPT ![r] = NoText] /\ UNCHANGED vault

Next ==
    \/ \E i \in Id, x \in Text : Deposit(i, x)
    \/ \E r \in Reader, i \in Id : HandOut(r, i)
    \/ \E S \in SUBSET Id : Vanish(S)
    \/ \E r \in Reader : Forget(r)

Spec == Init /\ [][Next]_vars
=============================================================================
