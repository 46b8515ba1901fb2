------------------------------ MODULE ServedJob ------------------------------
(***************************************************************************)
(* One job as a page that was told its id sees it, whoever runs it: where  *)
(* the services and the page meet.  JobService and CeleryWorker implement  *)
(* it, and the server of ReportPage may do whatever it allows.             *)
(*                                                                         *)
(* Queued and running look the same to the page.  A row may end twice: a   *)
(* broker delivers at least once, and a completed job whose write was not  *)
(* acknowledged is marked failed.  A row that is lost is a 404 for good.   *)
(***************************************************************************)
VARIABLE row

Terminal == {"completed", "failed"}

Init == row = "none"

Accept == row = "none" /\ row' = "running"
End    == row = "running" /\ row' \in Terminal
Reopen == row \in Terminal /\ row' \in ({"running"} \cup Terminal) \ {row}
Lose   == row \in {"running"} \cup Terminal /\ row' = "lost"

Next == Accept \/ End \/ Reopen \/ Lose

Spec == Init /\ [][Next]_row
=============================================================================
