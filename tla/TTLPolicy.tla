----------------------------- MODULE TTLPolicy -----------------------------
(* The lifetime the relay gives an upload: TTLPolicy.resolve over a signed  *)
(* 64-bit time.Duration, which counts nanoseconds and wraps around.         *)
EXTENDS Integers

CONSTANTS
    MinTTL, MaxTTL, DefaultTTL,  \* the configured durations
    Second,                      \* time.Second, in units of a Duration
    Half,                        \* a Duration lies in -Half .. Half - 1
    NoTTL                        \* ttl_seconds is absent (a nil pointer)

\* Every configured duration is a positive number of seconds: envDurationOr
\* falls back to a positive default for anything else.
ASSUME TTLAssumption ==
    /\ Half \in Nat \ {0} /\ Second \in 1 .. Half - 1
    /\ MinTTL \in 1 .. Half - 1
    /\ MaxTTL \in 1 .. Half - 1
    /\ DefaultTTL \in 1 .. Half - 1
    /\ NoTTL \notin Int

Duration == -Half .. Half - 1

\* Two's complement wrap of a product of Durations.
Wrap(n) == ((n + Half) % (2 * Half)) - Half

\* Mutated form: the ceiling is forgotten.
FloorOnly(d) == IF d < MinTTL THEN MinTTL ELSE d

\* Mutated form: the floor is forgotten.
CeilingOnly(d) == IF d > MaxTTL THEN MaxTTL ELSE d

Clamp(d) == IF d < MinTTL THEN MinTTL ELSE IF d > MaxTTL THEN MaxTTL ELSE d

Resolve(requested) ==
    IF requested = NoTTL THEN DefaultTTL ELSE Clamp(Wrap(requested * Second))
=============================================================================
