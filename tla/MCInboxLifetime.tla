--------------------------- MODULE MCInboxLifetime ---------------------------
(* Messages of one, two and four ticks for TLC.                             *)
EXTENDS InboxLifetime, TLC

CONSTANTS short, middle, long

MCLifetime == (short :> 1 @@ middle :> 2 @@ long :> 4)
=============================================================================
