---------------------------- MODULE JobLifecycle ----------------------------
(***************************************************************************)
(* What a review job promises to those who read its status, without the    *)
(* awaits, retries, alarms and sandboxes of the object that keeps it:       *)
(*   - the state follows the contract and a terminal state is final;        *)
(*   - a job that completed keeps the conclusion of its review;             *)
(*   - what a terminal job owes (the sandbox, the check) only shrinks,      *)
(*     and no execution replaces it while anything is owed;                *)
(*   - evidence that a review completed is never lost.                     *)
(***************************************************************************)
EXTENDS JobContract

CONSTANT None

VARIABLES
  state,       \* a state of the contract, or "absent"
  conclusion,  \* of the terminal job
  owed,        \* obligations of the terminal job
  reviewed     \* a review of this head has completed

view == <<state, conclusion, owed, reviewed>>

Obligations == {"cleanup", "check"}

Ended == state \in JobStates /\ isTerminalState(state)

Init == state = "absent" /\ conclusion = None /\ owed = {} /\ reviewed = FALSE

(* A delivery creates the job; a supersession may arrive before it.          *)
Create ==
  /\ state = "absent"
  /\ \/ state' \in {"queued", "provisioning"} /\ conclusion' = None
     \/ state' = "superseded" /\ conclusion' = "neutral"
  /\ UNCHANGED <<owed, reviewed>>

(* The job moves along the contract.  Ending, it takes on obligations, and     *)
(* only a completed review has a conclusion other than neutral.               *)
Advance ==
  /\ state \in JobStates /\ state' \in TRANSITIONS[state]
  /\ IF isTerminalState(state')
       THEN /\ owed' \subseteq Obligations
            /\ conclusion' \in (IF state' = "completed" THEN Conclusions ELSE {"neutral"})
       ELSE UNCHANGED <<owed, conclusion>>
  /\ UNCHANGED reviewed

(* The result of the review is recorded while it is being published.           *)
RecordReview ==
  /\ state = "publishing" /\ reviewed' = TRUE
  /\ UNCHANGED <<state, conclusion, owed>>

Settle ==
  /\ Ended /\ owed' \subseteq owed
  /\ UNCHANGED <<state, conclusion, reviewed>>

Rerun ==
  /\ Ended /\ owed = {}
  /\ state' = "provisioning" /\ conclusion' = None
  /\ UNCHANGED <<owed, reviewed>>

Next == Create \/ Advance \/ RecordReview \/ Settle \/ Rerun

Spec == Init /\ [][Next]_view

=============================================================================
