----------------------------- MODULE MCMsgSeqno -----------------------------
(* Values of the constants of MsgSeqno for TLC.                            *)
EXTENDS MsgSeqno

(* the estimate of the clock skew is right, or makes a message look a tick *)
(* younger than it is, so that trailing_time lets it pass                  *)
NoSkew   == {0}
SkewTick == {1}
=============================================================================
