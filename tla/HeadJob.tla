------------------------------ MODULE HeadJob ------------------------------
(***************************************************************************)
(* The job object of one head as its callers see it: what each operation of *)
(* cloud/worker/src/review-job.ts may leave of the job's state, the message  *)
(* it works for, the identities it has handled and its completed review.     *)
(* Webhook composes the jobs of all heads from these steps; ReviewJobProofs   *)
(* proves that the object in detail takes no other.                         *)
(***************************************************************************)
EXTENDS JobMessage

newJob == [state |-> "absent", message |-> None, handled |-> {}, reviewed |-> FALSE]

startedBy(j, m) == j.message # None /\ deliveryIdentity(j.message) = deliveryIdentity(m)

(* The delivery claims an execution: the first, or a rerun that it may ask for.   *)
mayStart(j, m) ==
  /\ ~m.skipped /\ deliveryIdentity(m) \notin j.handled
  /\ j.state = "absent" \/ (j.state = "ended" /\ ~startedBy(j, m) /\ canRestart(m))

(* The transaction of start handles every identity it sees.  A delivery repeated  *)
(* before its execution has launched a process resumes it, with its own message.   *)
started(j, m) ==
  LET seen == {deliveryIdentity(n) : n \in {m, j.message} \ {None}}
      handled == [j EXCEPT !.handled = @ \cup seen]
      working == [handled EXCEPT !.state = "live", !.message = m]
  IN IF mayStart(j, m) THEN {working}
     ELSE IF j.state = "live" /\ ~m.skipped /\ startedBy(j, m) THEN {handled, working}
     ELSE {handled}

(* failStart creates the job that never started, and then ends it.               *)
givenUp(j, m) ==
  IF j.state = "absent" THEN {j, [j EXCEPT !.state = "live", !.message = m]} ELSE {j}

(* A completed review is stored before the job that made it ends.                *)
concluded(j) == [j EXCEPT !.reviewed = TRUE]

(* supersede, and every other end of a job: one nobody started stays superseded.   *)
ended(j) == [j EXCEPT !.state = "ended"]

=============================================================================
