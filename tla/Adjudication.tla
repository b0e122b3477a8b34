---------------------------- MODULE Adjudication ----------------------------
(***************************************************************************)
(* The vote on the merged findings by src/rvw/adjudicate.py.  Every replica   *)
(* of a wave answers with one ballot for the whole batch of groups, or is       *)
(* INVALID; the wave ends with its slowest replica.  A pass whose wave has no    *)
(* valid ballot is run once more; groups left UNCERTAIN by the initial pass      *)
(* get one pass with expanded context.                                      *)
(*                                                                         *)
(* A ballot is what _vote_batch reads of an output: the verdict of the first     *)
(* item of each group, UNCERTAIN if there is none, and UNCITED for a REJECTED    *)
(* that quotes no evidence.                                                 *)
(***************************************************************************)
EXTENDS Naturals, FiniteSets

CONSTANTS
  Groups,   \* keys of the collapse groups under adjudication
  Replicas  \* number of adjudicators of a wave

ASSUME ReplicasAssumption == Replicas \in Nat \ {0}

VARIABLES
  status,   \* voting, or how adjudicate ended
  pass,     \* the pass under way, or the last one
  retrying, \* its wave is the second one
  batch,    \* the groups the pass is about
  ended,    \* replicas of the wave that have ended,
  answered, \*   and those that were valid
  tally,    \* items of the wave's valid outputs, by group
  verdicts, \* of the groups that were voted on
  votes     \* replica_votes: the tally each verdict was taken from

vars == <<status, pass, retrying, batch, ended, answered, tally, verdicts, votes>>

Items == {"CONFIRMED", "REJECTED", "UNCITED", "UNCERTAIN"}
Verdict == {"CONFIRMED", "REJECTED", "UNCERTAIN"}
Tallies == [Items -> 0 .. Replicas]
NoItems == [i \in Items |-> 0]

TypeOK ==
  /\ status \in {"voting", "returned", "failed", "raised"}
  /\ pass \in {"initial", "expanded"}
  /\ retrying \in BOOLEAN
  /\ batch \subseteq Groups
  /\ ended \in 0 .. Replicas
  /\ answered \in 0 .. ended
  /\ tally \in [Groups -> Tallies]
  /\ verdicts \in [Groups -> Verdict \cup {"none"}]
  /\ votes \in [Groups -> Tallies]

(* Without groups adjudicate returns at once.                                *)
Init ==
  /\ status = (IF Groups = {} THEN "returned" ELSE "voting")
  /\ pass = "initial" /\ retrying = FALSE /\ batch = Groups
  /\ ended = 0 /\ answered = 0
  /\ tally = [g \in Groups |-> NoItems]
  /\ verdicts = [g \in Groups |-> "none"]
  /\ votes = [g \in Groups |-> NoItems]

-----------------------------------------------------------------------------
(* Counting.                                                                *)

Cast(t) == t["CONFIRMED"] + t["REJECTED"] + t["UNCITED"] + t["UNCERTAIN"]

(* Faulty variant: a rejection counts whether or not it quotes evidence.          *)
CountUncited(t, v) ==
  CASE v = "CONFIRMED" -> t["CONFIRMED"]
    [] v = "REJECTED"  -> t["REJECTED"] + t["UNCITED"]
    [] v = "UNCERTAIN" -> t["UNCERTAIN"]

(* The votes for a verdict: a rejection that is uncited is UNCERTAIN.    *)
Count(t, v) ==
  CASE v = "CONFIRMED" -> t["CONFIRMED"]
    [] v = "REJECTED"  -> t["REJECTED"]
    [] v = "UNCERTAIN" -> t["UNCITED"] + t["UNCERTAIN"]

StrictMajority(t, v) == 2 * Count(t, v) > Cast(t)

Winner(t) ==
  IF \E v \in Verdict : StrictMajority(t, v)
    THEN CHOOSE v \in Verdict : StrictMajority(t, v)
    ELSE "UNCERTAIN"

-----------------------------------------------------------------------------
(* The replicas of a wave.                                                    *)

Voting == status = "voting" /\ ended < Replicas

Answer ==
  /\ Voting
  /\ \E ballot \in [batch -> Items] :
       tally' = [g \in Groups |->
                   IF g \in batch THEN [tally[g] EXCEPT ![ballot[g]] = @ + 1] ELSE tally[g]]
  /\ ended' = ended + 1 /\ answered' = answered + 1
  /\ UNCHANGED <<status, pass, retrying, batch, verdicts, votes>>

(* The output is missing, malformed, late or incomplete.                        *)
Invalid ==
  /\ Voting
  /\ ended' = ended + 1
  /\ UNCHANGED <<status, pass, retrying, batch, answered, tally, verdicts, votes>>

(* A replica's execution raises, and gather raises it.                          *)
Raise ==
  /\ Voting
  /\ status' = "raised"
  /\ UNCHANGED <<pass, retrying, batch, ended, answered, tally, verdicts, votes>>

-----------------------------------------------------------------------------
(* The end of a wave.                                                          *)

WaveOver == status = "voting" /\ ended = Replicas

NewWave == ended' = 0 /\ answered' = 0 /\ tally' = [g \in Groups |-> NoItems]

(* Faulty variant: every wave without a valid output is run again.                 *)
RetryAgain ==
  /\ WaveOver /\ answered = 0
  /\ retrying' = TRUE /\ NewWave
  /\ UNCHANGED <<status, pass, batch, verdicts, votes>>

Retry ==
  /\ WaveOver /\ answered = 0 /\ ~retrying
  /\ retrying' = TRUE /\ NewWave
  /\ UNCHANGED <<status, pass, batch, verdicts, votes>>

(* Faulty variant: an expanded pass that fails leaves the initial verdicts.         *)
GiveUpKeeps ==
  /\ WaveOver /\ answered = 0 /\ retrying
  /\ status' = (IF pass = "initial" THEN "failed" ELSE "returned")
  /\ UNCHANGED <<pass, retrying, batch, ended, answered, tally, verdicts, votes>>

(* AdjudicationInfrastructureError.                                            *)
GiveUp ==
  /\ WaveOver /\ answered = 0 /\ retrying
  /\ status' = "failed"
  /\ UNCHANGED <<pass, retrying, batch, ended, answered, tally, verdicts, votes>>

Uncertain(vs) == {g \in Groups : vs[g] = "UNCERTAIN"}

Voted ==
  /\ verdicts' = [g \in Groups |-> IF g \in batch THEN Winner(tally[g]) ELSE verdicts[g]]
  /\ votes' = [g \in Groups |-> IF g \in batch THEN tally[g] ELSE votes[g]]

Return ==
  status' = "returned" /\ UNCHANGED <<pass, retrying, batch, ended, answered, tally>>

(* Faulty variant: the expanded pass is about all groups.                          *)
DecideAll ==
  /\ WaveOver /\ answered > 0 /\ Voted
  /\ IF pass = "initial" /\ Uncertain(verdicts') # {}
       THEN pass' = "expanded" /\ retrying' = FALSE /\ NewWave /\ UNCHANGED <<status, batch>>
       ELSE Return

(* Faulty variant: the votes of both passes are pooled.                            *)
DecidePools ==
  /\ WaveOver /\ answered > 0 /\ Voted
  /\ IF pass = "initial" /\ Uncertain(verdicts') # {}
       THEN /\ pass' = "expanded" /\ retrying' = FALSE /\ batch' = Uncertain(verdicts')
            /\ ended' = 0 /\ answered' = 0 /\ UNCHANGED <<status, tally>>
       ELSE Return

Decide ==
  /\ WaveOver /\ answered > 0 /\ Voted
  /\ IF pass = "initial" /\ Uncertain(verdicts') # {}
       THEN /\ pass' = "expanded" /\ retrying' = FALSE /\ batch' = Uncertain(verdicts')
            /\ NewWave /\ UNCHANGED status
       ELSE Return

Next == Answer \/ Invalid \/ Raise \/ Retry \/ GiveUp \/ Decide

Spec == Init /\ [][Next]_vars

(* Every execution ends (RuntimeRun and HostSlots), and the coroutine resumes.      *)
FairSpec == Spec /\ WF_vars(Next)

-----------------------------------------------------------------------------
(* Properties.                                                               *)

(* A finding is dropped or kept only by more than half of the valid replicas of the  *)
(* wave that decided it, and dropped only with evidence: an adjudicator that omits  *)
(* a group, or rejects it without a quotation, never helps to decide it.           *)
VerdictEarned ==
  \A g \in Groups :
    LET t == votes[g] IN
    /\ verdicts[g] # "none" => Cast(t) > 0
    /\ verdicts[g] = "CONFIRMED" =>
         t["CONFIRMED"] > t["REJECTED"] + t["UNCITED"] + t["UNCERTAIN"]
    /\ verdicts[g] = "REJECTED" =>
         t["REJECTED"] > t["CONFIRMED"] + t["UNCITED"] + t["UNCERTAIN"]

(* The outcome is complete: every group has a verdict, one that is still UNCERTAIN    *)
(* was put to the expanded pass, and no pass without a valid output yields one.     *)
OutcomeComplete ==
  status = "returned" =>
    /\ \A g \in Groups : verdicts[g] # "none"
    /\ Uncertain(verdicts) # {} => pass = "expanded" /\ Uncertain(verdicts) \subseteq batch
    /\ Groups # {} => answered > 0

(* The expanded pass decides what was undecided and nothing else.                 *)
DecidedStays ==
  [][\A g \in Groups :
       verdicts[g] \in {"CONFIRMED", "REJECTED"} =>
         verdicts'[g] = verdicts[g] /\ votes'[g] = votes[g]]_vars

(* Adjudication ends, after four waves at most, whatever its replicas answer.       *)
EventuallySettled == <>(status # "voting")
=============================================================================
