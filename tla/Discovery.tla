------------------------------ MODULE Discovery ------------------------------
(***************************************************************************)
(* The waves of DISCOVER: src/rvw/discover.py on top of dispatch_outcome of  *)
(* src/rvw/dispatch.py.  Every lane runs on every chunk in every replica (the   *)
(* initial wave).  A lane-chunk whose replicas are all INVALID runs once more   *)
(* (the retry wave).  In agentic mode, a lane that then leaves a hunk of the    *)
(* diff uncovered gets one run more (the coverage wave), unless all its         *)
(* executions ended at the deadline.  The coverage report is validated by      *)
(* RunCoverage and LaneCoverage, which refuse what contradicts itself.         *)
(*                                                                         *)
(* An output is the hunks its receipts cover and whether it has findings: at    *)
(* most one, of which only the number matters.  Inline, receipts are not read.  *)
(***************************************************************************)
EXTENDS Naturals, FiniteSets, Sequences

CONSTANTS
  Hunks,  \* hunk ids of the target's diff
  Plans,  \* what may be asked for: [mode, lanes, chunks, replicas]
  None

Modes == {"agentic", "inline"}

ASSUME PlansAssumption ==
  \A p \in Plans :
    /\ p.mode \in Modes /\ p.chunks \in Nat \ {0} /\ p.replicas \in Nat \ {0}
    /\ p.mode = "agentic" => p.chunks = 1

VARIABLES
  plan,     \* the plan of this call
  status,   \* running, or how discover ended
  wave,     \* the wave under way, or the last one
  todo,     \* runs of the wave that are still executing
  results   \* of every wave, by run

vars == <<plan, status, wave, todo, results>>

Waves == {"initial", "retry", "coverage_redispatch"}

(* The runs of a plan: the identities (lane_id, chunk, replica).                *)
RunsOf(p) == [lane : p.lanes, chunk : 1 .. p.chunks, replica : 1 .. p.replicas]

Planned == RunsOf(plan)

Invalid(reason) == [valid |-> FALSE, reason |-> reason, covered |-> {}, findings |-> 0]

Results(mode) ==
  {Invalid(r) : r \in {"exit_nonzero:124", "other"}}
  \cup [valid : {TRUE}, reason : {None}, findings : 0 .. 1,
        covered : IF mode = "agentic" THEN SUBSET Hunks ELSE {{}}]

(* None is the reason of a valid result, and stands for a run with no result yet.      *)
ASSUME NoneAssumption ==
  /\ None \notin {"exit_nonzero:124", "other"}
  /\ \A mode \in Modes : None \notin Results(mode)

TypeOK ==
  /\ plan \in Plans
  /\ status \in {"running", "reported", "refused", "raised"}
  /\ wave \in Waves
  /\ todo \subseteq Planned
  /\ results \in [Waves -> [Planned -> Results(plan.mode) \cup {None}]]
  /\ wave = "coverage_redispatch" => \A k \in todo : plan.mode = "agentic" /\ k.replica = 1

Init ==
  /\ plan \in Plans
  /\ status = "running" /\ wave = "initial" /\ todo = Planned
  /\ results = [w \in Waves |-> [k \in Planned |-> None]]

-----------------------------------------------------------------------------
(* What the waves are about.                                                  *)

Siblings(k) == {j \in Planned : j.lane = k.lane /\ j.chunk = k.chunk}

(* Faulty variant: one INVALID replica is enough for a retry.                     *)
RetriedAny ==
  {k \in Planned : \E j \in Siblings(k) : ~results["initial"][j].valid}

Retried == {k \in Planned : \A j \in Siblings(k) : ~results["initial"][j].valid}

(* final_by_key: a retry replaces the result it retries.                         *)
Final(k) ==
  IF results["retry"][k] # None THEN results["retry"][k] ELSE results["initial"][k]

OfLane(l) == {k \in Planned : k.lane = l}

Ran(w) == {k \in Planned : results[w][k] # None}

FinalResults(l) == {Final(k) : k \in OfLane(l)}

CoverageResults(l) ==
  {results["coverage_redispatch"][k] : k \in Ran("coverage_redispatch") \cap OfLane(l)}

Uncovered(rs) == Hunks \ UNION {r.covered : r \in rs}

(* Faulty variant: one execution at the deadline is enough.                       *)
DeadOnce(rs) == \E r \in rs : r.reason = "exit_nonzero:124"

DeadByTimeout(rs) == rs # {} /\ \A r \in rs : ~r.valid /\ r.reason = "exit_nonzero:124"

Incomplete ==
  {l \in plan.lanes : plan.mode = "agentic" /\ Uncovered(FinalResults(l)) # {}}

Skipped == {l \in Incomplete : DeadByTimeout(FinalResults(l))}

(* Faulty variants: a dead lane is skipped and redispatched; an inline lane has       *)
(* coverage to complete.                                                       *)
RedispatchedDead == Incomplete

RedispatchedInline == {l \in plan.lanes : Uncovered(FinalResults(l)) # {}} \ Skipped

Redispatched == Incomplete \ Skipped

-----------------------------------------------------------------------------
(* The waves.                                                                *)

(* A run ends; its siblings and the other lanes go on.                           *)
Execute(k) ==
  /\ status = "running" /\ k \in todo
  /\ \E r \in Results(plan.mode) : results' = [results EXCEPT ![wave][k] = r]
  /\ todo' = todo \ {k}
  /\ UNCHANGED <<plan, status, wave>>

(* An execution raises, and gather raises it: no report.                          *)
Raise ==
  /\ status = "running" /\ todo # {}
  /\ status' = "raised"
  /\ UNCHANGED <<plan, wave, todo, results>>

Barrier(w) == status = "running" /\ wave = w /\ todo = {}

(* Faulty variant: the retry wave is followed by another one.                        *)
RetryUntilValid ==
  /\ status = "running" /\ wave \in {"initial", "retry"} /\ todo = {}
  /\ wave' = "retry" /\ todo' = Retried
  /\ UNCHANGED <<plan, status, results>>

StartRetry ==
  /\ Barrier("initial")
  /\ wave' = "retry" /\ todo' = Retried
  /\ UNCHANGED <<plan, status, results>>

StartCoverage ==
  /\ Barrier("retry")
  /\ wave' = "coverage_redispatch"
  /\ todo' = {k \in Planned : k.lane \in Redispatched /\ k.replica = 1}
  /\ UNCHANGED <<plan, status, results>>

-----------------------------------------------------------------------------
(* The report.                                                               *)

Attempt(w, r) == [wave |-> w, valid |-> r.valid, reason |-> r.reason]

(* _coverage_attempts.                                                        *)
Attempts(k) ==
  IF k \in Retried
    THEN <<Attempt("initial", results["initial"][k]), Attempt("retry", Final(k))>>
    ELSE <<Attempt("initial", Final(k))>>

RunCoverage(k) ==
  [valid |-> Final(k).valid, reason |-> Final(k).reason,
   findings |-> Final(k).findings, attempts |-> Attempts(k)]

Found(ks, w) == Cardinality({k \in ks : results[w][k] # None /\ results[w][k].findings = 1})

LaneCoverage(l) ==
  [runs          |-> [k \in OfLane(l) |-> RunCoverage(k)],
   valid         |-> Cardinality({k \in OfLane(l) : Final(k).valid}),
   findings      |-> Cardinality({k \in OfLane(l) : Final(k).findings = 1})
                       + Found(OfLane(l), "coverage_redispatch"),
   redispatched  |-> l \in Redispatched,
   skipped       |-> l \in Skipped,
   redispatch    |-> {Attempt("coverage_redispatch", r) : r \in CoverageResults(l)},
   uncovered     |-> IF plan.mode = "agentic"
                       THEN Uncovered(FinalResults(l) \cup CoverageResults(l)) ELSE {}]

(* RunCoverage._validity_must_match_reason.                                     *)
RunAccepted(r) ==
  /\ r.valid <=> r.reason = None
  /\ ~r.valid => r.findings = 0
  /\ \A i \in 1 .. Len(r.attempts) :
       r.attempts[i].wave = (IF i = 1 THEN "initial" ELSE "retry")
  /\ LET final == r.attempts[Len(r.attempts)] IN
       final.valid = r.valid /\ final.reason = r.reason

(* LaneCoverage._aggregates_must_match_runs.                                    *)
LaneAccepted(c) ==
  LET runs == DOMAIN c.runs
      planned == Cardinality({k \in runs : c.runs[k].findings = 1})
  IN
  /\ \A k \in runs : RunAccepted(c.runs[k])
  /\ ~(c.skipped /\ c.redispatched)
  /\ c.redispatch # {} => c.redispatched
  /\ c.valid = Cardinality({k \in runs : c.runs[k].valid})
  /\ IF c.redispatched THEN c.findings >= planned ELSE c.findings = planned

Report ==
  /\ Barrier("coverage_redispatch")
  /\ status' = (IF \A l \in plan.lanes : LaneAccepted(LaneCoverage(l))
                  THEN "reported" ELSE "refused")
  /\ UNCHANGED <<plan, wave, todo, results>>

Next == \/ \E k \in todo : Execute(k)
        \/ Raise \/ StartRetry \/ StartCoverage \/ Report

Spec == Init /\ [][Next]_vars

(* Every execution ends (RuntimeRun, HostSlots), and so does every barrier.         *)
FairSpec == Spec /\ WF_vars(Next)

-----------------------------------------------------------------------------
(* Properties.                                                               *)

(* What was executed is reported: the validators of the report, which raise and       *)
(* throw all of discovery away, never find it contradicting itself.                *)
ReportAccepted == status # "refused"

(* No valid execution of any wave is lost: a retry shadows nothing valid, and every    *)
(* finding and receipt of all three waves is in the report of its lane.             *)
NothingLost ==
  status = "reported" =>
    \A l \in plan.lanes :
      LET c == LaneCoverage(l)
          valid == {e \in Waves \X OfLane(l) : e[2] \in Ran(e[1]) /\ results[e[1]][e[2]].valid}
      IN
      /\ \A k \in OfLane(l) :
           c.runs[k].valid <=> \E w \in {"initial", "retry"} : <<w, k>> \in valid
      /\ c.findings = Cardinality({e \in valid : results[e[1]][e[2]].findings = 1})
      /\ plan.mode = "agentic" =>
           c.uncovered = Hunks \ UNION {results[e[1]][e[2]].covered : e \in valid}

(* A hunk that no output covers was tried again, exactly once, or the last execution   *)
(* of each run of its lane ended at the deadline; and only a lane with a gap was      *)
(* tried again.                                                              *)
GapExplained ==
  status = "reported" =>
    \A l \in plan.lanes :
      LET c == LaneCoverage(l)
          again == Ran("coverage_redispatch") \cap OfLane(l)
          last(k) == IF k \in Ran("retry") THEN "retry" ELSE "initial"
      IN
      /\ c.uncovered # {} =>
           \/ Cardinality(again) = 1
           \/ \A k \in OfLane(l) : results[last(k)][k].reason = "exit_nonzero:124"
      /\ again # {} =>
           /\ c.redispatched
           /\ \E h \in Hunks : \A k \in OfLane(l) : h \notin results[last(k)][k].covered

(* Discovery ends, after three waves at most, however many executions fail.          *)
EventuallyOver == <>(status # "running")
=============================================================================
