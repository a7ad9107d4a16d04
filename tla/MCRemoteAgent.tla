---------------------------- MODULE MCRemoteAgent ----------------------------
(* Two agents, one try each before the action is given up.                 *)
EXTENDS RemoteAgent
=============================================================================
