---------------------------- MODULE InboxLifetime ----------------------------
(* How long one inbox list lives.  Redis keeps one TTL per list, not one    *)
(* per message: PushInboxMessage appends with RPUSH, which leaves the TTL   *)
(* of the key alone, and then sets it anew with EXPIRE.  The two commands   *)
(* are pipelined, not atomic, and the second may fail to arrive.  (That a   *)
(* pipeline may also be sent twice is the subject of module Inbox.)         *)
EXTENDS Integers, Sequences, SequencesExt

CONSTANTS
    Item,       \* messages of one sender to one spelling of a recipient
    Lifetime,   \* the TTL, in ticks, the relay resolved for each message
    Unlimited,  \* the TTL of a key that has none
    MaxBreaks   \* how many pipelines may break off

ASSUME LifetimeAssumption ==
    /\ Lifetime \in [Item -> Nat \ {0}]
    /\ Unlimited \notin Nat
    /\ MaxBreaks \in Nat

VARIABLES
    shelf,      \* the Redis list
    ttl,        \* its TTL: Unlimited when it has none or does not exist
    pc,         \* each upload: before RPUSH, before EXPIRE, or over
    left,       \* history: what is left of each message's own lifetime
    overlap,    \* history: two uploads were between RPUSH and EXPIRE at once
    broken      \* pipelines broken off so far

lifeVars == <<shelf, ttl, pc, left, overlap, broken>>

LifeInit ==
    /\ shelf = <<>> /\ ttl = Unlimited
    /\ pc = [m \in Item |-> "rpush"]
    /\ left = Lifetime
    /\ overlap = FALSE /\ broken = 0

Push(m) ==
    /\ pc[m] = "rpush"
    /\ shelf' = Append(shelf, m)
    /\ pc' = [pc EXCEPT ![m] = "expire"]
    /\ overlap' = (overlap \/ \E n \in Item : pc[n] = "expire")
    /\ UNCHANGED <<ttl, left, broken>>

\* Mutated form: EXPIRE NX, an existing TTL is kept.
SetTTLOnce(d) == ttl' = IF shelf = <<>> THEN Unlimited
                        ELSE IF ttl = Unlimited THEN d ELSE ttl

\* Mutated form: the TTL of a list that is appended to is removed (PERSIST).
ClearTTL(d) == ttl' = Unlimited

\* EXPIRE of a key that a drain removed meanwhile has no effect.
SetTTL(d) == ttl' = IF shelf = <<>> THEN Unlimited ELSE d

Expire(m) ==
    /\ pc[m] = "expire"
    /\ SetTTL(Lifetime[m])
    /\ pc' = [pc EXCEPT ![m] = "done"]
    /\ UNCHANGED <<shelf, left, overlap, broken>>

\* The connection to Redis breaks before the pipeline's next command.
PipelineBreaks(m) ==
    /\ pc[m] # "done"
    /\ broken < MaxBreaks /\ broken' = broken + 1
    /\ pc' = [pc EXCEPT ![m] = "done"]
    /\ UNCHANGED <<shelf, ttl, left, overlap>>

\* A drain; what can happen inside it is the subject of module Inbox.
Drain ==
    /\ shelf # <<>>
    /\ shelf' = <<>> /\ ttl' = Unlimited
    /\ UNCHANGED <<pc, left, overlap, broken>>

\* A unit of time: lifetimes run from the append on; Redis removes a key
\* whose TTL is over.
Tick ==
    /\ shelf # <<>>
    /\ \A m \in Item : pc[m] # "expire"
    /\ left' = [m \in Item |-> IF pc[m] # "rpush" /\ left[m] > 0
                               THEN left[m] - 1 ELSE left[m]]
    /\ IF ttl = Unlimited THEN UNCHANGED <<shelf, ttl>>
       ELSE IF ttl > 1 THEN ttl' = ttl - 1 /\ UNCHANGED shelf
       ELSE shelf' = <<>> /\ ttl' = Unlimited
    /\ UNCHANGED <<pc, overlap, broken>>

LifeNext ==
    \/ \E m \in Item : Push(m) \/ Expire(m) \/ PipelineBreaks(m)
    \/ Drain
    \/ Tick

LifeSpec == LifeInit /\ [][LifeNext]_lifeVars

\* Redis keeps time, and a relay that sent RPUSH sends EXPIRE or fails.
FairLife ==
    /\ LifeSpec /\ WF_lifeVars(Tick)
    /\ \A m \in Item : WF_lifeVars(Expire(m))

-----------------------------------------------------------------------------
(* Properties.                                                              *)

\* Without failures, and if uploads to the list do not overlap, the list lives
\* exactly as long as the message appended last is to live, whatever came
\* before it and whoever drains in between.  (Of two overlapping uploads the
\* EXPIRE that arrives last decides, not the RPUSH.)
LivesAsTheLast ==
    broken = 0 /\ ~overlap /\ shelf # <<>> /\ (\A m \in Item : pc[m] # "expire")
    => ttl = left[Last(shelf)]

\* A list nobody drains empties itself, unless an EXPIRE was lost.
ListExpires == (shelf # <<>> /\ broken = 0) ~> (shelf = <<>> \/ broken > 0)
=============================================================================
