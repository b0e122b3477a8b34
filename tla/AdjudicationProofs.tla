------------------------- MODULE AdjudicationProofs -------------------------
(***************************************************************************)
(* Proofs about Adjudication, for any groups and any number of replicas:     *)
(* the verdicts are earned, the outcome is complete, and the expanded pass     *)
(* leaves the decided groups alone.                                         *)
(***************************************************************************)
EXTENDS Adjudication, TLAPS

(* Every valid output of the wave has cast one vote for each group of the batch.   *)
Counted ==
  \A g \in Groups : Cast(tally[g]) = (IF g \in batch THEN answered ELSE 0)

(* What is known of the verdicts at each stage.                                 *)
Stage ==
  /\ pass = "initial" => batch = Groups
  /\ pass = "initial" /\ status # "returned" => \A g \in Groups : verdicts[g] = "none"
  /\ pass = "initial" /\ status = "returned" => Uncertain(verdicts) = {}
  /\ pass = "expanded" /\ status # "returned" => Uncertain(verdicts) = batch
  /\ pass = "expanded" => Uncertain(verdicts) \subseteq batch
  /\ pass = "expanded" \/ status = "returned" => \A g \in Groups : verdicts[g] # "none"
  /\ status = "returned" /\ Groups # {} => answered > 0

IInv == TypeOK /\ Counted /\ Stage /\ VerdictEarned

-----------------------------------------------------------------------------
(* A group's votes are natural numbers, and so is their sum.                     *)
LEMMA CastType ==
  ASSUME NEW t \in [Items -> Nat]
  PROVE  /\ t["CONFIRMED"] \in Nat /\ t["REJECTED"] \in Nat
         /\ t["UNCITED"] \in Nat /\ t["UNCERTAIN"] \in Nat
         /\ Cast(t) \in Nat
BY DEF Items, Cast

(* Winner returns the verdict that has a strict majority: at most one can have it,  *)
(* and an uncited rejection does not count towards REJECTED.                      *)
LEMMA StrictMajorityWins ==
  ASSUME NEW t \in [Items -> Nat]
  PROVE  /\ Winner(t) \in Verdict
         /\ Winner(t) = "CONFIRMED" =>
              t["CONFIRMED"] > t["REJECTED"] + t["UNCITED"] + t["UNCERTAIN"]
         /\ Winner(t) = "REJECTED" =>
              t["REJECTED"] > t["CONFIRMED"] + t["UNCITED"] + t["UNCERTAIN"]
<1>1. CASE \E v \in Verdict : StrictMajority(t, v)
  <2>1. Winner(t) \in Verdict /\ StrictMajority(t, Winner(t))
    BY <1>1 DEF Winner
  <2>2. Winner(t) = "CONFIRMED" => 2 * t["CONFIRMED"] > Cast(t)
    BY <2>1 DEF StrictMajority, Count
  <2>3. Winner(t) = "REJECTED" => 2 * t["REJECTED"] > Cast(t)
    BY <2>1 DEF StrictMajority, Count
  <2>. QED BY <2>1, <2>2, <2>3, CastType DEF Cast
<1>2. CASE ~ \E v \in Verdict : StrictMajority(t, v)
  BY <1>2 DEF Winner, Verdict
<1>. QED BY <1>1, <1>2

(* An item more for a group is a vote more.                                      *)
LEMMA OneVote ==
  ASSUME NEW t \in [Items -> Nat], NEW i \in Items
  PROVE  /\ [t EXCEPT ![i] = @ + 1] \in [Items -> Nat]
         /\ Cast([t EXCEPT ![i] = @ + 1]) = Cast(t) + 1
BY DEF Items, Cast

(* No vote exceeds the number of valid outputs.                                  *)
LEMMA VotesBounded ==
  ASSUME NEW t \in [Items -> Nat], NEW n \in Nat, Cast(t) <= n
  PROVE  t \in [Items -> 0 .. n]
BY DEF Items, Cast

(* The empty tally.                                                             *)
LEMMA NoItemsEmpty == NoItems \in [Items -> Nat] /\ NoItems \in Tallies /\ Cast(NoItems) = 0
BY ReplicasAssumption DEF NoItems, Items, Tallies, Cast

-----------------------------------------------------------------------------
LEMMA InitInv == Init => IInv
<1>. SUFFICES ASSUME Init PROVE IInv
  OBVIOUS
<1>1. TypeOK
  <2>1. status \in {"returned", "voting"} /\ pass = "initial" /\ batch = Groups
    BY DEF Init
  <2>2. retrying \in BOOLEAN
    BY DEF Init
  <2>3. ended \in 0 .. Replicas /\ answered \in 0 .. ended
    BY ReplicasAssumption DEF Init
  <2>4. tally \in [Groups -> Tallies] /\ votes \in [Groups -> Tallies]
    BY NoItemsEmpty DEF Init
  <2>5. verdicts \in [Groups -> Verdict \cup {"none"}]
    BY DEF Init
  <2>. QED BY <2>1, <2>2, <2>3, <2>4, <2>5 DEF TypeOK
<1>2. Counted
  BY NoItemsEmpty DEF Init, Counted
<1>3. Stage /\ VerdictEarned
  BY DEF Init, Stage, VerdictEarned, Uncertain
<1>. QED BY <1>1, <1>2, <1>3 DEF IInv

(* A valid output adds one vote to each group of the batch.                       *)
LEMMA AnswerInv == ASSUME IInv, Answer PROVE IInv'
<1>1. PICK ballot \in [batch -> Items] :
        tally' = [g \in Groups |->
                    IF g \in batch THEN [tally[g] EXCEPT ![ballot[g]] = @ + 1] ELSE tally[g]]
  BY DEF Answer
<1>2. /\ ended' = ended + 1 /\ answered' = answered + 1
      /\ UNCHANGED <<status, pass, retrying, batch, verdicts, votes>>
      /\ status = "voting" /\ ended < Replicas
  BY DEF Answer, Voting
<1>3. /\ ended \in Nat /\ answered \in Nat /\ answered <= ended
      /\ ended' \in 0 .. Replicas /\ answered' \in 0 .. ended' /\ answered' \in Nat
  BY <1>2, ReplicasAssumption DEF IInv, TypeOK
<1>4. \A g \in Groups : tally[g] \in [Items -> Nat]
  BY ReplicasAssumption DEF IInv, TypeOK, Tallies
<1>5. ASSUME NEW g \in Groups
      PROVE  /\ tally'[g] \in [Items -> Nat]
             /\ Cast(tally'[g]) = (IF g \in batch' THEN answered' ELSE 0)
  <2>1. CASE g \in batch
    BY <1>1, <1>2, <1>3, <1>4, <2>1, OneVote DEF IInv, Counted
  <2>2. CASE g \notin batch
    BY <1>1, <1>2, <1>4, <2>2 DEF IInv, Counted
  <2>. QED BY <2>1, <2>2
<1>6. tally' \in [Groups -> Tallies]
  <2>1. \A g \in Groups : Cast(tally'[g]) <= Replicas
    BY <1>3, <1>5, ReplicasAssumption
  <2>2. \A g \in Groups : tally'[g] \in Tallies
    BY <1>5, <2>1, VotesBounded, ReplicasAssumption DEF Tallies
  <2>. QED BY <1>1, <2>2
<1>7. TypeOK'
  BY <1>2, <1>3, <1>6 DEF IInv, TypeOK
<1>8. Counted'
  BY <1>5 DEF Counted
<1>. QED
  BY <1>2, <1>7, <1>8 DEF IInv, Stage, VerdictEarned, Uncertain

(* What ends the wave without deciding it.                                       *)
LEMMA QuietInv == ASSUME IInv, Invalid \/ Raise \/ Retry \/ GiveUp PROVE IInv'
<1>. USE ReplicasAssumption DEF IInv, TypeOK, Counted, Stage, VerdictEarned, Uncertain
<1>1. CASE Invalid BY <1>1 DEF Invalid, Voting
<1>2. CASE Raise BY <1>2 DEF Raise, Voting
<1>3. CASE Retry
  <2>1. tally' \in [Groups -> Tallies] /\ \A g \in Groups : Cast(tally'[g]) = 0
    BY <1>3, NoItemsEmpty DEF Retry, NewWave
  <2>2. retrying' \in BOOLEAN
    BY <1>3 DEF Retry
  <2>. QED BY <1>3, <2>1, <2>2 DEF Retry, WaveOver, NewWave
<1>4. CASE GiveUp BY <1>4 DEF GiveUp, WaveOver
<1>. QED BY <1>1, <1>2, <1>3, <1>4

(* A wave with a valid output gives the groups of its batch their verdicts.        *)
LEMMA DecideInv == ASSUME IInv, Decide PROVE IInv'
<1>1. /\ status = "voting" /\ answered > 0
      /\ verdicts' = [g \in Groups |-> IF g \in batch THEN Winner(tally[g]) ELSE verdicts[g]]
      /\ votes' = [g \in Groups |-> IF g \in batch THEN tally[g] ELSE votes[g]]
  BY DEF Decide, WaveOver, Voted
<1>2. \A g \in Groups : tally[g] \in [Items -> Nat]
  BY ReplicasAssumption DEF IInv, TypeOK, Tallies
<1>3. \A g \in Groups : Winner(tally[g]) \in Verdict
  BY <1>2, StrictMajorityWins
<1>4. /\ verdicts' \in [Groups -> Verdict \cup {"none"}]
      /\ votes' \in [Groups -> Tallies]
      /\ \A g \in Groups : verdicts'[g] # "none"
  BY <1>1, <1>3 DEF IInv, TypeOK, Stage, Verdict
<1>5. VerdictEarned'
  <2>1. ASSUME NEW g \in Groups, g \in batch
        PROVE  verdicts'[g] = Winner(tally[g]) /\ votes'[g] = tally[g] /\ Cast(tally[g]) > 0
    BY <1>1, <2>1 DEF IInv, Counted
  <2>2. ASSUME NEW g \in Groups, g \notin batch
        PROVE  verdicts'[g] = verdicts[g] /\ votes'[g] = votes[g]
    BY <1>1, <2>2
  <2>3. ASSUME NEW g \in Groups
        PROVE  /\ verdicts'[g] # "none" => Cast(votes'[g]) > 0
               /\ verdicts'[g] = "CONFIRMED" =>
                    votes'[g]["CONFIRMED"] >
                      votes'[g]["REJECTED"] + votes'[g]["UNCITED"] + votes'[g]["UNCERTAIN"]
               /\ verdicts'[g] = "REJECTED" =>
                    votes'[g]["REJECTED"] >
                      votes'[g]["CONFIRMED"] + votes'[g]["UNCITED"] + votes'[g]["UNCERTAIN"]
    <3>1. CASE g \in batch
      BY <3>1, <2>1, <1>2, StrictMajorityWins
    <3>2. CASE g \notin batch
      BY <3>2, <2>2 DEF IInv, VerdictEarned
    <3>. QED BY <3>1, <3>2
  <2>. QED BY <2>3 DEF VerdictEarned
<1>6. CASE pass = "initial" /\ Uncertain(verdicts') # {}
  <2>1. /\ pass' = "expanded" /\ retrying' = FALSE /\ batch' = Uncertain(verdicts')
        /\ ended' = 0 /\ answered' = 0 /\ tally' = [g \in Groups |-> NoItems]
        /\ UNCHANGED status
    BY <1>6 DEF Decide, NewWave
  <2>2. TypeOK'
    <3>1. tally' \in [Groups -> Tallies]
      BY <2>1, NoItemsEmpty
    <3>2. retrying' \in BOOLEAN
      BY <2>1
    <3>3. ended' \in 0 .. Replicas /\ answered' \in 0 .. ended'
      BY <2>1, ReplicasAssumption
    <3>4. pass' \in {"initial", "expanded"} /\ batch' \subseteq Groups
      BY <2>1 DEF Uncertain
    <3>. QED BY <1>1, <1>4, <2>1, <3>1, <3>2, <3>3, <3>4 DEF TypeOK
  <2>3. Counted'
    BY <2>1, NoItemsEmpty DEF Counted
  <2>4. Stage'
    BY <1>1, <1>4, <2>1 DEF IInv, Stage, Uncertain
  <2>. QED BY <1>5, <2>2, <2>3, <2>4 DEF IInv
<1>7. CASE ~(pass = "initial" /\ Uncertain(verdicts') # {})
  <2>1. status' = "returned" /\ UNCHANGED <<pass, retrying, batch, ended, answered, tally>>
    BY <1>7 DEF Decide, Return
  <2>2. TypeOK' /\ Counted'
    BY <1>4, <2>1 DEF IInv, TypeOK, Counted
  <2>3. pass = "expanded" => Uncertain(verdicts') \subseteq batch'
    BY <1>1, <2>1 DEF IInv, Stage, Uncertain
  <2>4. Stage'
    BY <1>1, <1>4, <1>7, <2>1, <2>3 DEF IInv, Stage, TypeOK
  <2>. QED BY <1>5, <2>2, <2>4 DEF IInv
<1>. QED BY <1>6, <1>7

LEMMA NextInv == ASSUME IInv, [Next]_vars PROVE IInv'
<1>1. CASE UNCHANGED vars
  BY <1>1 DEF vars, IInv, TypeOK, Counted, Stage, VerdictEarned, Uncertain
<1>. QED BY <1>1, AnswerInv, QuietInv, DecideInv DEF Next

(* The inductive invariant holds in every reachable state.                       *)
THEOREM Invariance == Spec => []IInv
<1>1. Init => IInv BY InitInv
<1>2. IInv /\ [Next]_vars => IInv' BY NextInv
<1>. QED BY <1>1, <1>2, PTL DEF Spec

(* Every variable has its type: no vote counts more outputs than replicas.         *)
THEOREM TypeCorrect == Spec => []TypeOK
BY Invariance, PTL DEF IInv

(* No finding is confirmed or dropped but by a strict majority of the valid         *)
(* replicas of the wave that decided it, nor dropped without evidence.             *)
THEOREM Earned == Spec => []VerdictEarned
BY Invariance, PTL DEF IInv

(* An outcome has a verdict for every group, and what is UNCERTAIN was widened.     *)
THEOREM Complete == Spec => []OutcomeComplete
<1>1. IInv => OutcomeComplete
  BY DEF IInv, Stage, TypeOK, OutcomeComplete
<1>. QED BY <1>1, Invariance, PTL

(* A verdict of the initial pass is final.                                       *)
THEOREM Stays == Spec => DecidedStays
<1>1. ASSUME IInv, [Next]_vars, NEW g \in Groups, verdicts[g] \in {"CONFIRMED", "REJECTED"}
      PROVE  verdicts'[g] = verdicts[g] /\ votes'[g] = votes[g]
  <2>1. CASE Decide
    <3>1. g \notin batch
      BY <1>1, <2>1 DEF IInv, TypeOK, Stage, Uncertain, Decide, WaveOver
    <3>. QED BY <2>1, <3>1 DEF Decide, Voted
  <2>2. CASE Answer \/ Invalid \/ Raise \/ Retry \/ GiveUp \/ UNCHANGED vars
    BY <2>2 DEF Answer, Invalid, Raise, Retry, GiveUp, vars
  <2>. QED BY <1>1, <2>1, <2>2 DEF Next
<1>2. IInv /\ [Next]_vars =>
        [\A g \in Groups : verdicts[g] \in {"CONFIRMED", "REJECTED"} =>
           verdicts'[g] = verdicts[g] /\ votes'[g] = votes[g]]_vars
  BY <1>1
<1>. QED BY <1>2, Invariance, PTL DEF Spec, DecidedStays
=============================================================================
