---------------------------- MODULE SignalSyncMC ----------------------------
(***************************************************************************)
(* Values of the constants of SignalSync for TLC: the signals a user may   *)
(* send in a run.                                                          *)
(***************************************************************************)
EXTENDS SignalSync

StopOrKill == [sig : {"INT", "TERM"}, to : {{W}, {R}, {W, R}}]
              \cup [sig : {"KILL"}, to : {{W}, {R}}]
KillReader == {[sig |-> "KILL", to |-> {R}]}
CtrlC      == {[sig |-> "INT", to |-> {W, R}]}
=============================================================================
