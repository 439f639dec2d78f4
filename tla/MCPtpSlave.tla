----------------------------- MODULE MCPtpSlave -----------------------------
(* PtpSlave with a better one-step master whose time may jump and a worse   *)
(* two-step one six units away from it.                                     *)
EXTENDS PtpSlave, TLC

CONSTANTS A, B

MCPathDelay == A :> 2 @@ B :> 4
MCTimes == A :> {0, 80} @@ B :> {6}
=============================================================================
