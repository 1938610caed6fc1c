---------------------------- MODULE MCStornoSaga ----------------------------
(***************************************************************************)
(* The storno saga with one bill: at most three commands and restarts of   *)
(* operations, at most two of them in flight, and one event that disturbs  *)
(* it (a restart of either service, a failed write, a refused delivery, a  *)
(* list of bills), or two with two commands if operations neither restarts *)
(* nor lists.                                                              *)
(***************************************************************************)
EXTENDS StornoSaga

Commands == Cardinality(O!Saved) + Cardinality({t \in tasks : t.type \in B!Command})

Disturbances == crashes + failures + faults + restarts + listed

FewCommands ==
    /\ Commands + crashes <= 3
    /\ Cardinality(tasks) <= 2
    /\ Disturbances <= IF crashes + listed = 0 /\ Commands <= 2 THEN 2 ELSE 1
=============================================================================
