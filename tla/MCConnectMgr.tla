----------------------------- MODULE MCConnectMgr -----------------------------
(* Constants of ConnectMgr for TLC.                                        *)
EXTENDS ConnectMgr, TLC

CONSTANTS home, away   \* urls of two peers
=============================================================================
