------------------------------ MODULE MCParts ------------------------------
(***************************************************************************)
(* Five parts of the server that share no state with the others or         *)
(* with each other, checked together: `part` says which of them moves, and *)
(* the others stay as they were at the start.                              *)
(***************************************************************************)
EXTENDS Pools, IPRanges, Framing, LogFiles, IdleTimer

VARIABLE part

parts == <<poolVars, ipVars, frameVars, logVars, vars>>

\* what differs at the start of a part that does not move makes no difference; Init,
\* Next and vars are IdleTimer's
PartsInit ==
  /\ part \in {"pools", "ranges", "framing", "logs", "idle"}
  /\ PoolInit /\ IPInit /\ FrameInit /\ LogInit /\ Init
  /\ part # "framing" => class = "client"
  /\ part # "logs" => ~logd /\ clock = 0
  /\ part # "idle" => tick = 0

PartsNext ==
  /\ UNCHANGED part
  /\ \/ part = "pools"   /\ PoolNext  /\ UNCHANGED <<ipVars, frameVars, logVars, vars>>
     \/ part = "ranges"  /\ IPNext    /\ UNCHANGED <<poolVars, frameVars, logVars, vars>>
     \/ part = "framing" /\ FrameNext /\ UNCHANGED <<poolVars, ipVars, logVars, vars>>
     \/ part = "logs"    /\ LogNext   /\ UNCHANGED <<poolVars, ipVars, frameVars, vars>>
     \/ part = "idle"    /\ Next      /\ UNCHANGED <<poolVars, ipVars, frameVars, logVars>>

PartsSpec == PartsInit /\ [][PartsNext]_<<part, parts>>
=============================================================================
