--------------------------- MODULE DispatchReports ---------------------------
(***************************************************************************)
(* What the row of a dispatch may say once a runtime has taken the work    *)
(* over, as normalize_remote_status reads it, and what it may say next.    *)
(* The office that reads the rows (CollaborationBus, Meetings) assumes     *)
(* nothing else of the handlers that write them (RuntimeDispatch), and     *)
(* those keep to it: theorem RowsFollow of DispatchProofs.                 *)
(***************************************************************************)

Endings == {"COMPLETED", "FAILED", "CANCELLED"}

(* OTHER stands for every word that normalize_remote_status passes on.      *)
OpenReports == {"RUNNING", "WAITING_APPROVAL", "STOPPING", "OTHER"}

Reports == OpenReports \cup Endings

(* A late answer may hide an ending again; it never puts another in place.  *)
MayFollow(report) == IF report \in Endings THEN {report} \cup OpenReports ELSE Reports
==============================================================================
