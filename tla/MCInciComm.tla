----------------------------- MODULE MCInciComm -----------------------------
(***************************************************************************)
(* Instances of InciComm for TLC: two channels with keys of their own, and *)
(* a signal that another thread, or the serving thread itself, executes.   *)
(***************************************************************************)
EXTENDS InciComm, TLC

CONSTANTS o1, o2, t1, t2, k1, k2

MCObjects == {o1, o2}
MCCallers == {t1, t2}
OwnKeys == o1 :> k1 @@ o2 :> k2
OwnObjects == t1 :> o1 @@ t2 :> o2
OtherThread == {"other"}
ServingThread == {"serve"}
=============================================================================
