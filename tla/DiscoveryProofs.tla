--------------------------- MODULE DiscoveryProofs ---------------------------
(***************************************************************************)
(* Proofs about Discovery, for any hunks, lanes, chunks and replicas.       *)
(***************************************************************************)
EXTENDS Discovery, FiniteSetTheorems, TLAPS

(* Which runs a wave is for, and which of them have a result.                    *)
Again == {k \in Planned : k.lane \in Redispatched /\ k.replica = 1}

WaveInv ==
  /\ wave = "retry" => todo \subseteq Retried
  /\ wave = "coverage_redispatch" => todo \subseteq Again
  /\ Ran("initial") = IF wave = "initial" THEN Planned \ todo ELSE Planned
  /\ Ran("retry") = CASE wave = "initial" -> {}
                      [] wave = "retry" -> Retried \ todo
                      [] OTHER -> Retried
  /\ Ran("coverage_redispatch") =
       IF wave = "coverage_redispatch" THEN Again \ todo ELSE {}
  /\ status \in {"reported", "refused"} => wave = "coverage_redispatch" /\ todo = {}

LEMMA ResultFacts ==
  ASSUME NEW mode \in Modes, NEW r \in Results(mode)
  PROVE  /\ r # None /\ r.valid \in BOOLEAN /\ r.findings \in 0 .. 1
         /\ r.covered \subseteq Hunks
         /\ r.valid <=> r.reason = None
         /\ ~r.valid => r.findings = 0 /\ r.covered = {}
<1>1. r # None
  BY NoneAssumption
<1>2. CASE r \in {Invalid(x) : x \in {"exit_nonzero:124", "other"}}
  <2>1. PICK x \in {"exit_nonzero:124", "other"} : r = Invalid(x)
    BY <1>2
  <2> QED
    BY <1>1, <2>1, NoneAssumption DEF Invalid
<1>3. CASE r \in [valid : {TRUE}, reason : {None}, findings : 0 .. 1,
                 covered : IF mode = "agentic" THEN SUBSET Hunks ELSE {{}}]
  BY <1>1, <1>3
<1> QED
  BY <1>2, <1>3 DEF Results

(* What a wave is for depends on the results of the waves before it.                *)
LEMMA RetriedDepends ==
  ASSUME plan' = plan, results'["initial"] = results["initial"]
  PROVE  Retried' = Retried
BY DEF Retried, Siblings, Planned

LEMMA AgainDepends ==
  ASSUME plan' = plan, results'["initial"] = results["initial"],
         results'["retry"] = results["retry"]
  PROVE  Again' = Again
<1>1. \A l : FinalResults(l)' = FinalResults(l)
  BY DEF FinalResults, Final, OfLane, Planned
<1>2. Incomplete' = Incomplete
  BY <1>1 DEF Incomplete, Uncovered
<1>3. Skipped' = Skipped
  BY <1>1, <1>2 DEF Skipped, DeadByTimeout
<1> QED
  BY <1>2, <1>3 DEF Again, Redispatched, Planned

LEMMA InitInv == Init => TypeOK /\ WaveInv
<1> SUFFICES ASSUME Init PROVE TypeOK /\ WaveInv
  OBVIOUS
<1>1. TypeOK
  BY DEF Init, TypeOK, Planned, Waves
<1>2. \A w \in Waves : Ran(w) = {}
  BY DEF Init, Ran, Planned, Waves
<1> QED
  BY <1>1, <1>2 DEF Init, WaveInv, Waves

LEMMA ExecuteInv == ASSUME TypeOK, WaveInv, NEW k \in todo, Execute(k) PROVE TypeOK' /\ WaveInv'
<1>1. /\ k \in Planned /\ plan \in Plans /\ plan.mode \in Modes /\ plan' = plan
      /\ wave \in Waves /\ wave' = wave /\ todo' = todo \ {k} /\ status = "running"
      /\ status' = status
  BY PlansAssumption DEF TypeOK, Execute
<1>2. PICK r \in Results(plan.mode) : results' = [results EXCEPT ![wave][k] = r]
  BY DEF Execute
<1>3. r # None
  BY <1>1, ResultFacts
<1>4. TypeOK'
  BY <1>1, <1>2 DEF TypeOK, Planned
<1>5. \A w \in Waves : Ran(w)' = IF w = wave THEN Ran(w) \cup {k} ELSE Ran(w)
  BY <1>1, <1>2, <1>3 DEF TypeOK, Ran, Planned
<1>6. \A w \in Waves \ {wave} : results'[w] = results[w]
  BY <1>1, <1>2 DEF TypeOK
<1>7. Planned' = Planned
  BY <1>1 DEF Planned
<1>8. /\ Ran("initial")' = IF wave = "initial" THEN Ran("initial") \cup {k} ELSE Ran("initial")
      /\ Ran("retry")' = IF wave = "retry" THEN Ran("retry") \cup {k} ELSE Ran("retry")
      /\ Ran("coverage_redispatch")' = IF wave = "coverage_redispatch"
           THEN Ran("coverage_redispatch") \cup {k} ELSE Ran("coverage_redispatch")
  BY <1>5 DEF Waves
<1>9. CASE wave = "initial"
  <2>1. Planned \ todo' = (Planned \ todo) \cup {k}
    BY <1>1
  <2> QED
    BY <1>1, <1>4, <1>7, <1>8, <1>9, <2>1 DEF WaveInv
<1>10. CASE wave = "retry"
  <2>1. Retried' = Retried
    BY <1>1, <1>6, <1>10, RetriedDepends DEF Waves
  <2>2. Retried \ todo' = (Retried \ todo) \cup {k}
    BY <1>1, <1>10 DEF WaveInv
  <2> QED
    BY <1>1, <1>4, <1>7, <1>8, <1>10, <2>1, <2>2 DEF WaveInv
<1>11. CASE wave = "coverage_redispatch"
  <2>1. Retried' = Retried /\ Again' = Again
    BY <1>1, <1>6, <1>11, RetriedDepends, AgainDepends DEF Waves
  <2>2. Again \ todo' = (Again \ todo) \cup {k}
    BY <1>1, <1>11 DEF WaveInv
  <2> QED
    BY <1>1, <1>4, <1>7, <1>8, <1>11, <2>1, <2>2 DEF WaveInv
<1> QED
  BY <1>1, <1>4, <1>9, <1>10, <1>11 DEF Waves

LEMMA BarrierInv ==
  ASSUME TypeOK, WaveInv, Raise \/ StartRetry \/ StartCoverage \/ Report
  PROVE  TypeOK' /\ WaveInv'
<1>1. /\ plan' = plan /\ results' = results /\ Planned' = Planned
      /\ \A w : Ran(w)' = Ran(w)
  BY DEF Raise, StartRetry, StartCoverage, Report, Planned, Ran
<1>2. Retried' = Retried /\ Again' = Again
  BY <1>1, RetriedDepends, AgainDepends
<1>3. CASE Raise
  BY <1>1, <1>2, <1>3 DEF Raise, TypeOK, WaveInv
<1>4. CASE StartRetry
  <2>1. TypeOK'
    BY <1>1, <1>4 DEF StartRetry, TypeOK, Retried, Waves
  <2> QED
    BY <1>1, <1>2, <1>4, <2>1 DEF StartRetry, Barrier, WaveInv
<1>5. CASE StartCoverage
  <2>1. Redispatched # {} => plan.mode = "agentic"
    BY DEF Redispatched, Incomplete
  <2>2. todo' = Again
    BY <1>5 DEF StartCoverage, Again
  <2>3. TypeOK'
    BY <1>1, <1>5, <2>1, <2>2 DEF StartCoverage, TypeOK, Again, Waves
  <2> QED
    BY <1>1, <1>2, <1>5, <2>2, <2>3 DEF StartCoverage, Barrier, WaveInv
<1>6. CASE Report
  <2>1. status' \in {"reported", "refused"}
    BY <1>6 DEF Report
  <2> QED
    BY <1>1, <1>2, <1>6, <2>1 DEF Report, Barrier, TypeOK, WaveInv
<1> QED
  BY <1>3, <1>4, <1>5, <1>6

LEMMA NextInv == ASSUME TypeOK, WaveInv, [Next]_vars PROVE TypeOK' /\ WaveInv'
<1>1. CASE UNCHANGED vars
  <2>1. /\ Planned' = Planned /\ (\A w : Ran(w)' = Ran(w))
        /\ Retried' = Retried /\ Again' = Again
    BY <1>1, RetriedDepends, AgainDepends DEF vars, Planned, Ran
  <2> QED
    BY <1>1, <2>1 DEF vars, TypeOK, WaveInv
<1> QED
  BY <1>1, ExecuteInv, BarrierInv DEF Next

(* The waves run the code's way for any plan: what is retried and what is run again for    *)
(* coverage is decided by the results of the waves before, once and for all.       *)
THEOREM WavesOrdered == Spec => [](TypeOK /\ WaveInv)
BY InitInv, NextInv, PTL DEF Spec

(* A run has at most one result in each wave, and only agentic reviews run a coverage       *)
(* wave, of first replicas.                                                     *)
THEOREM TypeCorrect == Spec => []TypeOK
BY WavesOrdered, PTL

-----------------------------------------------------------------------------
(* What the three waves leave for the report.                                  *)

Over == wave = "coverage_redispatch" /\ todo = {}

LEMMA Collected ==
  ASSUME TypeOK, WaveInv, Over, NEW k \in Planned
  PROVE  /\ plan.mode \in Modes
         /\ results["initial"][k] \in Results(plan.mode)
         /\ Final(k) \in Results(plan.mode)
         /\ k \in Retried => Final(k) = results["retry"][k] /\ results["retry"][k] # None
                             /\ ~results["initial"][k].valid
         /\ k \notin Retried => Final(k) = results["initial"][k] /\ results["retry"][k] = None
         /\ k \in Again => results["coverage_redispatch"][k] \in Results(plan.mode)
         /\ results["coverage_redispatch"][k] # None <=> k \in Again
<1>1. plan.mode \in Modes
  BY PlansAssumption DEF TypeOK
<1>2. /\ Ran("initial") = Planned /\ Ran("retry") = Retried
      /\ Ran("coverage_redispatch") = Again
  BY DEF WaveInv, Over
<1>3. \A w \in Waves : results[w][k] \in Results(plan.mode) \cup {None}
  BY DEF TypeOK
<1>4. /\ results["initial"][k] # None
      /\ results["retry"][k] # None <=> k \in Retried
      /\ results["coverage_redispatch"][k] # None <=> k \in Again
  BY <1>2 DEF Ran
<1>5. k \in Retried => ~results["initial"][k].valid
  BY DEF Retried, Siblings
<1>6. /\ results["initial"][k] \in Results(plan.mode)
      /\ k \in Retried => results["retry"][k] \in Results(plan.mode)
      /\ k \in Again => results["coverage_redispatch"][k] \in Results(plan.mode)
  BY <1>3, <1>4 DEF Waves
<1>7. Final(k) = IF k \in Retried THEN results["retry"][k] ELSE results["initial"][k]
  BY <1>4 DEF Final
<1> QED
  BY <1>1, <1>4, <1>5, <1>6, <1>7

(* A lane has finitely many runs.                                             *)
LEMMA LaneFinite ==
  ASSUME TypeOK, NEW l
  PROVE  IsFiniteSet(OfLane(l))
<1>1. plan.chunks \in Nat /\ plan.replicas \in Nat
  BY PlansAssumption DEF TypeOK
<1> DEFINE C == 1 .. plan.chunks
           R == 1 .. plan.replicas
           runs == [lane : {l}, chunk : C, replica : R]
           f == [p \in C \X R |-> [lane |-> l, chunk |-> p[1], replica |-> p[2]]]
<1>2. IsFiniteSet(C) /\ IsFiniteSet(R)
  <2>1. 1 \in Int /\ plan.chunks \in Int /\ plan.replicas \in Int
    BY <1>1
  <2> QED
    BY <2>1, FS_Interval
<1>3. IsFiniteSet(C \X R)
  BY <1>2, FS_Product
<1>4. f \in Surjection(C \X R, runs)
  <2>1. f \in [C \X R -> runs]
    OBVIOUS
  <2>2. ASSUME NEW x \in runs
        PROVE  \E p \in C \X R : f[p] = x
    <3>1. <<x.chunk, x.replica>> \in C \X R /\ f[<<x.chunk, x.replica>>] = x
      OBVIOUS
    <3> QED
      BY <3>1
  <2> QED
    BY <2>1, <2>2 DEF Surjection
<1>5. IsFiniteSet(runs)
  <2> HIDE DEF C, R, runs, f
  <2> QED
    BY <1>3, <1>4, FS_Surjection
<1>6. OfLane(l) \in SUBSET runs
  BY DEF OfLane, Planned, RunsOf
<1> QED
  <2> HIDE DEF C, R, runs, f
  <2> QED
    BY <1>5, <1>6, FS_Subset

-----------------------------------------------------------------------------
(* The report's own validators.                                                *)

LEMMA RunIsAccepted ==
  ASSUME TypeOK, WaveInv, Over, NEW k \in Planned
  PROVE  RunAccepted(RunCoverage(k))
<1> DEFINE r == RunCoverage(k)
<1>1. /\ r.valid = Final(k).valid /\ r.reason = Final(k).reason
      /\ r.findings = Final(k).findings /\ r.attempts = Attempts(k)
  BY DEF RunCoverage
<1>2. (Final(k).valid <=> Final(k).reason = None) /\ (~Final(k).valid => Final(k).findings = 0)
  BY Collected, ResultFacts
<1>3. CASE k \in Retried
  <2>1. Attempts(k) = <<Attempt("initial", results["initial"][k]), Attempt("retry", Final(k))>>
    BY <1>3 DEF Attempts
  <2>2. /\ Len(Attempts(k)) = 2
        /\ Attempts(k)[1].wave = "initial" /\ Attempts(k)[2].wave = "retry"
        /\ Attempts(k)[2].valid = Final(k).valid /\ Attempts(k)[2].reason = Final(k).reason
    BY <2>1 DEF Attempt
  <2> QED
    BY <1>1, <1>2, <2>2 DEF RunAccepted
<1>4. CASE k \notin Retried
  <2>1. Attempts(k) = <<Attempt("initial", Final(k))>>
    BY <1>4 DEF Attempts
  <2>2. /\ Len(Attempts(k)) = 1 /\ Attempts(k)[1].wave = "initial"
        /\ Attempts(k)[1].valid = Final(k).valid /\ Attempts(k)[1].reason = Final(k).reason
    BY <2>1 DEF Attempt
  <2> QED
    BY <1>1, <1>2, <2>2 DEF RunAccepted
<1> QED
  BY <1>3, <1>4

(* Only a redispatched lane has results of the coverage wave.                       *)
LEMMA OnlyRedispatched ==
  ASSUME TypeOK, WaveInv, Over, NEW l \in plan.lanes, l \notin Redispatched
  PROVE  Ran("coverage_redispatch") \cap OfLane(l) = {}
BY DEF WaveInv, Over, Again, OfLane

LEMMA FoundIsNatural ==
  ASSUME TypeOK, NEW l, NEW w
  PROVE  Found(OfLane(l), w) \in Nat
<1>1. {k \in OfLane(l) : results[w][k] # None /\ results[w][k].findings = 1} \in SUBSET OfLane(l)
  OBVIOUS
<1> QED
  BY <1>1, LaneFinite, FS_Subset, FS_CardinalityType DEF Found

LEMMA LaneIsAccepted ==
  ASSUME TypeOK, WaveInv, Over, NEW l \in plan.lanes
  PROVE  LaneAccepted(LaneCoverage(l))
<1> DEFINE c == LaneCoverage(l)
           planned == Cardinality({k \in DOMAIN c.runs : c.runs[k].findings = 1})
<1>1. /\ DOMAIN c.runs = OfLane(l)
      /\ \A k \in OfLane(l) : c.runs[k] = RunCoverage(k)
      /\ c.valid = Cardinality({k \in OfLane(l) : Final(k).valid})
      /\ c.findings = Cardinality({k \in OfLane(l) : Final(k).findings = 1})
                        + Found(OfLane(l), "coverage_redispatch")
      /\ c.redispatched = (l \in Redispatched) /\ c.skipped = (l \in Skipped)
      /\ c.redispatch = {Attempt("coverage_redispatch", r) : r \in CoverageResults(l)}
  BY DEF LaneCoverage
<1>2. \A k \in DOMAIN c.runs : RunAccepted(c.runs[k])
  BY <1>1, RunIsAccepted DEF OfLane
<1>3. ~(c.skipped /\ c.redispatched)
  BY <1>1 DEF Redispatched
<1>4. c.redispatch # {} => c.redispatched
  BY <1>1, OnlyRedispatched DEF CoverageResults
<1>5. ASSUME NEW k \in OfLane(l)
      PROVE  c.runs[k].valid = Final(k).valid /\ c.runs[k].findings = Final(k).findings
  <2>1. c.runs[k] = RunCoverage(k)
    BY <1>1
  <2> HIDE DEF c
  <2> QED
    BY <2>1 DEF RunCoverage
<1>6. {k \in DOMAIN c.runs : c.runs[k].valid} = {k \in OfLane(l) : Final(k).valid}
  BY <1>1, <1>5
<1>7. {k \in DOMAIN c.runs : c.runs[k].findings = 1} = {k \in OfLane(l) : Final(k).findings = 1}
  BY <1>1, <1>5
<1>8. planned \in Nat
  <2>1. {k \in OfLane(l) : Final(k).findings = 1} \in SUBSET OfLane(l)
    OBVIOUS
  <2> QED
    BY <1>7, <2>1, LaneFinite, FS_Subset, FS_CardinalityType
<1>9. IF c.redispatched THEN c.findings >= planned ELSE c.findings = planned
  <2>1. c.findings = planned + Found(OfLane(l), "coverage_redispatch")
    BY <1>1, <1>7
  <2>2. Found(OfLane(l), "coverage_redispatch") \in Nat
    BY FoundIsNatural
  <2>3. l \notin Redispatched => Found(OfLane(l), "coverage_redispatch") = 0
    <3> SUFFICES ASSUME l \notin Redispatched
                 PROVE  Found(OfLane(l), "coverage_redispatch") = 0
      OBVIOUS
    <3>1. {k \in OfLane(l) : /\ results["coverage_redispatch"][k] # None
                             /\ results["coverage_redispatch"][k].findings = 1} = {}
      BY OnlyRedispatched DEF Ran, OfLane
    <3> QED
      BY <3>1, FS_EmptySet DEF Found
  <2>4. c.redispatched <=> l \in Redispatched
    BY <1>1
  <2> HIDE DEF c, planned
  <2> QED
    BY <1>8, <2>1, <2>2, <2>3, <2>4
<1> QED
  BY <1>2, <1>3, <1>4, <1>1, <1>6, <1>9 DEF LaneAccepted

(* Whatever is executed, fails or dies at the deadline, the validators of the report accept  *)
(* it: discovery is never thrown away by its own account of itself.                   *)
THEOREM Accepted == Spec => []ReportAccepted
<1>1. Init => ReportAccepted
  BY DEF Init, ReportAccepted
<1>2. TypeOK /\ WaveInv /\ ReportAccepted /\ [Next]_vars => ReportAccepted'
  <2> SUFFICES ASSUME TypeOK, WaveInv, ReportAccepted, [Next]_vars PROVE ReportAccepted'
    OBVIOUS
  <2>1. CASE Report
    BY <2>1, LaneIsAccepted DEF Report, Barrier, Over, ReportAccepted
  <2>2. CASE ~Report
    BY <2>2 DEF Next, Execute, Raise, StartRetry, StartCoverage, vars, ReportAccepted
  <2> QED
    BY <2>1, <2>2
<1> QED
  BY <1>1, <1>2, WavesOrdered, PTL DEF Spec

-----------------------------------------------------------------------------
(* What is executed is reported.                                                *)

(* Runs keep their number when each is paired with the wave of its result.             *)
LEMMA TaggedCardinality ==
  ASSUME NEW S, IsFiniteSet(S), NEW wv
  PROVE  /\ IsFiniteSet({<<wv[k], k>> : k \in S})
         /\ Cardinality({<<wv[k], k>> : k \in S}) = Cardinality(S)
<1> DEFINE T == {<<wv[k], k>> : k \in S}
           f == [k \in S |-> <<wv[k], k>>]
<1>1. f \in [S -> T]
  OBVIOUS
<1>2. \A a, b \in S : f[a] = f[b] => a = b
  OBVIOUS
<1>3. \A t \in T : \E k \in S : f[k] = t
  OBVIOUS
<1>4. f \in Bijection(S, T)
  BY <1>1, <1>2, <1>3 DEF Bijection, Injection, Surjection, IsInjective
<1> HIDE DEF f, T
<1>5. ExistsBijection(S, T)
  BY <1>4 DEF ExistsBijection
<1> QED
  BY <1>5, FS_Bijection DEF T

(* The valid executions of a lane, in all three waves.                              *)
ValidOf(l) ==
  {e \in Waves \X OfLane(l) : e[2] \in Ran(e[1]) /\ results[e[1]][e[2]].valid}

(* A valid execution is the final one of its run, or one of the coverage wave.           *)
LEMMA ValidIsFinal ==
  ASSUME TypeOK, WaveInv, Over, NEW l, NEW k \in OfLane(l), NEW w \in Waves,
         k \in Ran(w), results[w][k].valid
  PROVE  \/ w = "coverage_redispatch" /\ k \in Again
         \/ w = (IF k \in Retried THEN "retry" ELSE "initial") /\ results[w][k] = Final(k)
<1>1. k \in Planned
  BY DEF OfLane
<1>2. CASE w = "initial"
  BY <1>1, <1>2, Collected
<1>3. CASE w = "retry"
  BY <1>1, <1>3, Collected DEF Ran
<1>4. CASE w = "coverage_redispatch"
  BY <1>1, <1>4, Collected DEF Ran
<1> QED
  BY <1>2, <1>3, <1>4 DEF Waves

LEMMA FinalIsValid ==
  ASSUME TypeOK, WaveInv, Over, NEW l, NEW k \in OfLane(l), Final(k).valid
  PROVE  LET w == IF k \in Retried THEN "retry" ELSE "initial"
         IN  <<w, k>> \in ValidOf(l) /\ results[w][k] = Final(k)
<1>1. k \in Planned
  BY DEF OfLane
<1>2. CASE k \in Retried
  <2>1. Final(k) = results["retry"][k] /\ k \in Ran("retry")
    BY <1>1, <1>2, Collected DEF Ran
  <2> QED
    BY <1>2, <2>1 DEF ValidOf, Waves
<1>3. CASE k \notin Retried
  <2>1. Final(k) = results["initial"][k] /\ k \in Ran("initial")
    BY <1>1, <1>3, Collected DEF WaveInv, Over
  <2> QED
    BY <1>3, <2>1 DEF ValidOf, Waves
<1> QED
  BY <1>2, <1>3

(* Each run is reported valid when one of its executions was.                       *)
LEMMA ValidityReported ==
  ASSUME TypeOK, WaveInv, Over, NEW l, NEW k \in OfLane(l)
  PROVE  Final(k).valid <=> \E w \in {"initial", "retry"} : <<w, k>> \in ValidOf(l)
<1>1. Final(k).valid => \E w \in {"initial", "retry"} : <<w, k>> \in ValidOf(l)
  BY FinalIsValid
<1>2. ASSUME NEW w \in {"initial", "retry"}, <<w, k>> \in ValidOf(l) PROVE Final(k).valid
  <2>1. w \in Waves /\ k \in Ran(w) /\ results[w][k].valid /\ w # "coverage_redispatch"
    BY <1>2 DEF ValidOf, Waves
  <2>2. results[w][k] = Final(k)
    BY <2>1, ValidIsFinal
  <2> QED
    BY <2>1, <2>2
<1> QED
  BY <1>1, <1>2

(* The findings of all waves are counted, and counted once.                           *)
LEMMA FindingsReported ==
  ASSUME TypeOK, WaveInv, Over, NEW l
  PROVE  Cardinality({k \in OfLane(l) : Final(k).findings = 1})
             + Found(OfLane(l), "coverage_redispatch")
           = Cardinality({e \in ValidOf(l) : results[e[1]][e[2]].findings = 1})
<1> DEFINE A == {k \in OfLane(l) : Final(k).findings = 1}
           B == {k \in OfLane(l) : /\ results["coverage_redispatch"][k] # None
                                   /\ results["coverage_redispatch"][k].findings = 1}
           wa == [k \in A |-> IF k \in Retried THEN "retry" ELSE "initial"]
           wb == [k \in B |-> "coverage_redispatch"]
           EA == {<<wa[k], k>> : k \in A}
           EB == {<<wb[k], k>> : k \in B}
           E == {e \in ValidOf(l) : results[e[1]][e[2]].findings = 1}
<1>1. IsFiniteSet(A) /\ IsFiniteSet(B)
  <2>1. A \in SUBSET OfLane(l) /\ B \in SUBSET OfLane(l)
    OBVIOUS
  <2> QED
    BY <2>1, LaneFinite, FS_Subset
<1>2. EA \subseteq E
  <2> SUFFICES ASSUME NEW k \in A PROVE <<wa[k], k>> \in E
    OBVIOUS
  <2>1. Final(k).valid
    BY Collected, ResultFacts DEF OfLane
  <2> QED
    BY <2>1, FinalIsValid
<1>3. EB \subseteq E
  <2> SUFFICES ASSUME NEW k \in B PROVE <<wb[k], k>> \in E
    OBVIOUS
  <2>1. k \in Planned /\ results["coverage_redispatch"][k].findings = 1 /\ k \in Again
    BY Collected DEF OfLane
  <2>2. results["coverage_redispatch"][k].valid
    BY <2>1, Collected, ResultFacts
  <2>3. k \in Ran("coverage_redispatch")
    BY <2>1 DEF Ran
  <2> QED
    BY <2>1, <2>2, <2>3 DEF ValidOf, Waves
<1>4. E \subseteq EA \cup EB
  <2> SUFFICES ASSUME NEW e \in E PROVE e \in EA \cup EB
    OBVIOUS
  <2> DEFINE w == e[1]
             k == e[2]
  <2>1. /\ w \in Waves /\ k \in OfLane(l) /\ e = <<w, k>> /\ k \in Ran(w)
        /\ results[w][k].valid /\ results[w][k].findings = 1
    BY DEF ValidOf
  <2>2. CASE w = "coverage_redispatch"
    <3>1. k \in B
      BY <2>1, <2>2 DEF Ran
    <3> QED
      BY <2>1, <2>2, <3>1
  <2>3. CASE w # "coverage_redispatch"
    <3>1. w = (IF k \in Retried THEN "retry" ELSE "initial") /\ results[w][k] = Final(k)
      BY <2>1, <2>3, ValidIsFinal
    <3>2. k \in A
      BY <2>1, <3>1
    <3> QED
      BY <2>1, <3>1, <3>2
  <2> QED
    BY <2>2, <2>3
<1>5. EA \cap EB = {}
  <2>1. ASSUME NEW e \in EA PROVE e[1] # "coverage_redispatch"
    <3>1. PICK k \in A : e = <<wa[k], k>>
      OBVIOUS
    <3>2. wa[k] \in {"initial", "retry"}
      BY <3>1
    <3> QED
      BY <3>1, <3>2
  <2>2. ASSUME NEW e \in EB PROVE e[1] = "coverage_redispatch"
    <3>1. PICK k \in B : e = <<wb[k], k>>
      OBVIOUS
    <3>2. wb[k] = "coverage_redispatch"
      BY <3>1
    <3> QED
      BY <3>1, <3>2
  <2> HIDE DEF EA, EB
  <2> QED
    BY <2>1, <2>2
<1>6. /\ IsFiniteSet(EA) /\ Cardinality(EA) = Cardinality(A)
      /\ IsFiniteSet(EB) /\ Cardinality(EB) = Cardinality(B)
  <2> HIDE DEF A, B, wa, wb
  <2> QED
    BY <1>1, TaggedCardinality
<1>7. Cardinality(B) = Found(OfLane(l), "coverage_redispatch")
  BY DEF Found
<1>8. E = EA \cup EB
  BY <1>2, <1>3, <1>4
<1>9. Cardinality(A) + Found(OfLane(l), "coverage_redispatch") = Cardinality(E)
  <2> HIDE DEF A, B, EA, EB, E
  <2>1. Cardinality(EA) \in Nat /\ Cardinality(EB) \in Nat
    BY <1>6, FS_CardinalityType
  <2>2. Cardinality(E) = Cardinality(EA) + Cardinality(EB)
    <3>1. Cardinality(EA \cup EB)
            = Cardinality(EA) + Cardinality(EB) - Cardinality(EA \cap EB)
      BY <1>6, FS_Union
    <3>2. Cardinality(EA \cap EB) = 0
      BY <1>5, FS_EmptySet
    <3> QED
      BY <1>8, <2>1, <3>1, <3>2
  <2> QED
    BY <1>6, <1>7, <2>2
<1> QED
  BY <1>9

(* A hunk is reported uncovered when no valid execution of the lane covers it.             *)
LEMMA ReceiptsReported ==
  ASSUME TypeOK, WaveInv, Over, NEW l
  PROVE  Uncovered(FinalResults(l) \cup CoverageResults(l))
           = Hunks \ UNION {results[e[1]][e[2]].covered : e \in ValidOf(l)}
<1> DEFINE rs == FinalResults(l) \cup CoverageResults(l)
<1>1. ASSUME NEW h, NEW r \in rs, h \in r.covered
      PROVE  \E e \in ValidOf(l) : h \in results[e[1]][e[2]].covered
  <2>1. CASE r \in FinalResults(l)
    <3>1. PICK k \in OfLane(l) : r = Final(k)
      BY <2>1 DEF FinalResults
    <3>2. Final(k).valid
      BY <1>1, <3>1, Collected, ResultFacts DEF OfLane
    <3> DEFINE w == IF k \in Retried THEN "retry" ELSE "initial"
    <3>3. <<w, k>> \in ValidOf(l) /\ results[w][k] = Final(k)
      BY <3>2, FinalIsValid
    <3> HIDE DEF w
    <3> QED
      BY <1>1, <3>1, <3>3
  <2>2. CASE r \in CoverageResults(l)
    <3>1. PICK k \in Ran("coverage_redispatch") \cap OfLane(l) :
            r = results["coverage_redispatch"][k]
      BY <2>2 DEF CoverageResults
    <3>2. r \in Results(plan.mode) /\ plan.mode \in Modes
      BY <3>1, Collected DEF OfLane, Ran
    <3>3. <<"coverage_redispatch", k>> \in ValidOf(l)
      BY <1>1, <3>1, <3>2, ResultFacts DEF ValidOf, Waves
    <3> QED
      BY <1>1, <3>1, <3>3
  <2> QED
    BY <2>1, <2>2
<1>2. ASSUME NEW h, NEW e \in ValidOf(l), h \in results[e[1]][e[2]].covered
      PROVE  \E r \in rs : h \in r.covered
  <2>1. /\ e[1] \in Waves /\ e[2] \in OfLane(l) /\ e[2] \in Ran(e[1])
        /\ results[e[1]][e[2]].valid
    BY DEF ValidOf
  <2>2. CASE e[1] = "coverage_redispatch"
    BY <1>2, <2>1, <2>2 DEF CoverageResults
  <2>3. CASE e[1] # "coverage_redispatch"
    <3>1. results[e[1]][e[2]] = Final(e[2])
      BY <2>1, <2>3, ValidIsFinal
    <3> QED
      BY <1>2, <2>1, <3>1 DEF FinalResults
  <2> QED
    BY <2>2, <2>3
<1> HIDE DEF rs
<1>3. \A h : h \in UNION {r.covered : r \in rs}
               <=> h \in UNION {results[e[1]][e[2]].covered : e \in ValidOf(l)}
  BY <1>1, <1>2
<1> QED
  BY <1>3 DEF Uncovered, rs

LEMMA NothingIsLost == ASSUME TypeOK, WaveInv PROVE NothingLost
<1> SUFFICES ASSUME status = "reported", NEW l \in plan.lanes
             PROVE  LET c == LaneCoverage(l)
                    IN  /\ \A k \in OfLane(l) : c.runs[k].valid <=>
                             \E w \in {"initial", "retry"} : <<w, k>> \in ValidOf(l)
                        /\ c.findings = Cardinality({e \in ValidOf(l) :
                                                       results[e[1]][e[2]].findings = 1})
                        /\ plan.mode = "agentic" =>
                             c.uncovered = Hunks \ UNION {results[e[1]][e[2]].covered :
                                                            e \in ValidOf(l)}
  BY DEF NothingLost, ValidOf
<1>1. Over
  BY DEF WaveInv, Over
<1>2. \A k \in OfLane(l) : LaneCoverage(l).runs[k].valid = Final(k).valid
  BY DEF LaneCoverage, RunCoverage
<1>3. LaneCoverage(l).findings
        = Cardinality({e \in ValidOf(l) : results[e[1]][e[2]].findings = 1})
  BY <1>1, FindingsReported DEF LaneCoverage
<1>4. plan.mode = "agentic" =>
        LaneCoverage(l).uncovered = Uncovered(FinalResults(l) \cup CoverageResults(l))
  BY DEF LaneCoverage
<1>5. \A k \in OfLane(l) : Final(k).valid <=>
        \E w \in {"initial", "retry"} : <<w, k>> \in ValidOf(l)
  BY <1>1, ValidityReported
<1> QED
  BY <1>1, <1>2, <1>3, <1>4, <1>5, ReceiptsReported

(* No valid execution of any wave is lost, for any lanes, chunks, replicas and hunks.        *)
THEOREM Complete == Spec => []NothingLost
BY NothingIsLost, WavesOrdered, PTL

-----------------------------------------------------------------------------
(* What stays uncovered.                                                       *)

LEMMA LastIsFinal ==
  ASSUME TypeOK, WaveInv, Over, NEW k \in Planned
  PROVE  results[IF k \in Ran("retry") THEN "retry" ELSE "initial"][k] = Final(k)
BY Collected DEF Ran

LEMMA GapIsExplained == ASSUME TypeOK, WaveInv PROVE GapExplained
<1> SUFFICES ASSUME status = "reported", NEW l \in plan.lanes
             PROVE  LET c == LaneCoverage(l)
                        again == Ran("coverage_redispatch") \cap OfLane(l)
                        last(k) == IF k \in Ran("retry") THEN "retry" ELSE "initial"
                    IN  /\ c.uncovered # {} =>
                             \/ Cardinality(again) = 1
                             \/ \A k \in OfLane(l) :
                                  results[last(k)][k].reason = "exit_nonzero:124"
                        /\ again # {} =>
                             /\ c.redispatched
                             /\ \E h \in Hunks : \A k \in OfLane(l) :
                                  h \notin results[last(k)][k].covered
  BY DEF GapExplained
<1> DEFINE again == Ran("coverage_redispatch") \cap OfLane(l)
           last(k) == IF k \in Ran("retry") THEN "retry" ELSE "initial"
<1>1. Over
  BY DEF WaveInv, Over
<1>2. \A k \in OfLane(l) : results[last(k)][k] = Final(k) /\ Final(k) \in FinalResults(l)
  BY <1>1, LastIsFinal DEF OfLane, FinalResults
<1>3. LaneCoverage(l).redispatched <=> l \in Redispatched
  BY DEF LaneCoverage
<1>4. LaneCoverage(l).uncovered # {} => l \in Incomplete
  BY DEF LaneCoverage, Uncovered, Incomplete
<1>5. l \in Skipped => \A k \in OfLane(l) : results[last(k)][k].reason = "exit_nonzero:124"
  BY <1>2 DEF Skipped, DeadByTimeout
<1>6. l \in Redispatched => Cardinality(again) = 1
  <2> SUFFICES ASSUME l \in Redispatched PROVE Cardinality(again) = 1
    OBVIOUS
  <2>1. plan.mode = "agentic" /\ plan.chunks = 1 /\ plan.replicas \in Nat \ {0}
    BY PlansAssumption DEF Redispatched, Incomplete, TypeOK
  <2>2. again = {[lane |-> l, chunk |-> 1, replica |-> 1]}
    BY <1>1, <2>1 DEF WaveInv, Over, Again, OfLane, Planned, RunsOf
  <2> QED
    BY <2>2, FS_Singleton
<1>7. again # {} => l \in Redispatched
  BY <1>1, OnlyRedispatched
<1>8. l \in Redispatched => \E h \in Hunks : \A k \in OfLane(l) :
                              h \notin results[last(k)][k].covered
  BY <1>2 DEF Redispatched, Incomplete, Uncovered
<1>9. l \in Incomplete => l \in Skipped \/ l \in Redispatched
  BY DEF Redispatched
<1> QED
  BY <1>3, <1>4, <1>5, <1>6, <1>7, <1>8, <1>9

(* A gap in the report has an explanation, for any lanes, replicas and hunks.               *)
THEOREM Explained == Spec => []GapExplained
BY GapIsExplained, WavesOrdered, PTL
=============================================================================
