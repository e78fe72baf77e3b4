--------------------------- MODULE MCMeetings ---------------------------
(* Small instances of Meetings for TLC.                                   *)
EXTENDS Meetings

CONSTANTS p1, p2, q1, q2, q3

Speaker(required, wired) == [speaks |-> TRUE, required |-> required, wired |-> wired]
Observer == [speaks |-> FALSE, required |-> FALSE, wired |-> FALSE]

(* Two speakers in one round, one speaker beside an observer in two, and a *)
(* speaker beside an optional one whose runtime has no address.            *)
SmallPlans ==
    {[roster |-> <<Speaker(TRUE, TRUE), Speaker(FALSE, TRUE)>>, rounds |-> 1],
     [roster |-> <<Observer, Speaker(TRUE, TRUE)>>, rounds |-> 2],
     [roster |-> <<Speaker(TRUE, TRUE), Speaker(FALSE, FALSE)>>, rounds |-> 1]}
==========================================================================
