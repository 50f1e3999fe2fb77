--------------------------- MODULE MCInboxTransport ---------------------------
(* Values of the constants of InboxTransport for TLC.                      *)
EXTENDS InboxTransport

CONSTANTS a, b   \* the two peers

(* a posts two packets, or three, and b none *)
OneWay == (a :> 2) @@ (b :> 0)
Three  == (a :> 3) @@ (b :> 0)
=============================================================================
