---------------------------- MODULE MCDeviceInit ----------------------------
(* Small instances of device initialisation for TLC.                        *)
EXTENDS DeviceInit, TLC

CONSTANTS d1, d2

\* One device starts again once, the other one keeps its first keypair.
MCMaxKeys == (d1 :> 2) @@ (d2 :> 1)

\* One device does everything, the other one is set up by the web page.
MCRuns == (d1 :> Kind) @@ (d2 :> {"web", "delete"})

MCPageRuns == (d1 :> {"web", "delete"}) @@ (d2 :> {"web"})

\* Handles and operations are interchangeable.
Symmetry == Permutations(Handle) \cup Permutations(Op)
=============================================================================
