--------------------------- MODULE DispatchPromise ---------------------------
(***************************************************************************)
(* What the readers of the mission timeline are promised about a work      *)
(* package that was sent to a remote runtime (docs/RUNTIME-INTEGRATIONS:   *)
(* status changes and final output become visible): no polling, locks,     *)
(* sessions or processes, only what is true of a run and what is shown.    *)
(***************************************************************************)
CONSTANT Dispatches

VARIABLES
  truth,      \* the run itself: "none", "going", or how it ended
  shown,      \* the row: "absent", "sending", "refused", "open", an ending, or
              \* "lost": open, and nobody asks the runtime any more
  verifying   \* whether the mission is put up for verification

prmVars == <<truth, shown, verifying>>

Endings == {"COMPLETED", "FAILED", "CANCELLED"}

PrmInit ==
  /\ truth = [d \in Dispatches |-> "none"] /\ shown = [d \in Dispatches |-> "absent"]
  /\ verifying = FALSE

\* A run begins, perhaps unknown to anybody, and ends once.
RunGoesOn(d) ==
  /\ truth[d] \in {"none", "going"}
  /\ \E t \in {"going"} \cup Endings : truth' = [truth EXCEPT ![d] = t]
  /\ UNCHANGED <<shown, verifying>>

Send(d) ==
  /\ shown[d] = "absent" /\ shown' = [shown EXCEPT ![d] = "sending"]
  /\ UNCHANGED <<truth, verifying>>

Unended == {"open", "lost"}

\* The runtime has taken the package over; the run may be over already, or the
\* runtime may not have said which run it is.
Accepted(d) ==
  /\ shown[d] = "sending" /\ \E s \in Unended : shown' = [shown EXCEPT ![d] = s]
  /\ UNCHANGED <<truth, verifying>>

Refused(d) ==
  /\ shown[d] = "sending" /\ shown' = [shown EXCEPT ![d] = "refused"]
  /\ UNCHANGED <<truth, verifying>>

\* The mission asks for verification only when some run has completed; what other
\* reports do to it is left open.
MissionFollows ==
  verifying' => verifying \/ \E d \in Dispatches : truth[d] = "COMPLETED"

\* The end that is shown is the one the run had.
ShowEnd(d) ==
  /\ shown[d] \in {"sending"} \cup Unended /\ truth[d] \in Endings
  /\ shown' = [shown EXCEPT ![d] = truth[d]]
  /\ MissionFollows /\ UNCHANGED truth

\* A late answer hides the end of a run again, an odd one loses the run from sight,
\* an operator's finds it again; none shows another end.
Hide(d) ==
  /\ shown[d] \in Endings \cup Unended
  /\ \E s \in Unended : shown' = [shown EXCEPT ![d] = s]
  /\ MissionFollows /\ UNCHANGED truth

\* A report that changes nothing of the dispatch may still move the mission.
Report == MissionFollows /\ UNCHANGED <<truth, shown>>

PrmNext ==
  \/ \E d \in Dispatches : \/ RunGoesOn(d) \/ Send(d) \/ Accepted(d) \/ Refused(d)
                           \/ ShowEnd(d) \/ Hide(d)
  \/ Report

\* The end of a run that was accepted does not stay unseen while it is asked for.
EndsAreShown ==
  \A d \in Dispatches : \A e \in Endings :
    (shown[d] = "open" /\ truth[d] = e) ~> shown[d] \in {e, "lost"}

PrmSafety == PrmInit /\ [][PrmNext]_prmVars
PrmSpec == PrmSafety /\ EndsAreShown
=============================================================================
