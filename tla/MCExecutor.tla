---------------------------- MODULE MCExecutor ----------------------------
(* The instance of Executor that TLC checks for AllJoined. *)
EXTENDS Executor

CONSTANTS app, app2
=============================================================================
