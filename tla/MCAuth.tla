-------------------------------- MODULE MCAuth --------------------------------
(* Values of the constants of Auth for TLC.                                *)
EXTENDS Auth, TLC

CONSTANTS a, b, c   \* sessions, a the oldest

Ages == (a :> 1) @@ (b :> 2) @@ (c :> 3)
Two  == (a :> 1) @@ (b :> 2)
First == (a :> {}) @@ (b :> {})
Again == (a :> {}) @@ (b :> {}) @@ (c :> {b})
=============================================================================
