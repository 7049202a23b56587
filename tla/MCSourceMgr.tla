---------------------------- MODULE MCSourceMgr -----------------------------
(* Small instances of SourceMgr for TLC: two methods share one call key. *)
EXTENDS SourceMgr, TLC

MCType == <<"ping">>
MCCallType == {"ping"}
=============================================================================
