--------------------------- MODULE MCSendRouting ---------------------------
(* Small instances of the routing of messages for TLC.                      *)
EXTENDS SendRouting, TLC

CONSTANTS d1, d2, d3, ann

Spelt(row, case) == [pre |-> row, name |-> ann, case |-> case]

Capitals == Spelt(<<>>, "upper")
Lower == Spelt(<<>>, "lower")
Mixed == Spelt(<<>>, "mixed")
Prefixed == Spelt(<<"PV">>, "upper")
PrefixedMixed == Spelt(<<"PV">>, "mixed")

\* Devices whose handles are spellings of one another.
MCOwn == (d1 :> Capitals) @@ (d2 :> Lower) @@ (d3 :> Mixed)

Job(f, me, ms) == [surface |-> f, sender |-> me, group |-> Len(ms) > 1, members |-> ms]

MCJobs ==
    {Job("web", Prefixed, <<h>>) : h \in {Lower, PrefixedMixed}}
    \cup {Job("web", Prefixed, <<Lower, Capitals>>),
          Job("chat", Prefixed, <<Mixed>>), Job("chat", Capitals, <<Lower>>),
          Job("shell", Prefixed, <<PrefixedMixed>>),
          Job("shell", Prefixed, <<Lower, Capitals>>)}

MCShellJobs == {Job("shell", Prefixed, <<Capitals>>)}
=============================================================================
