--------------------------- MODULE HostSlotsProofs ---------------------------
(***************************************************************************)
(* Proofs about HostSlots, for any processes, runs, cap and concurrency: the  *)
(* locks account for the executions, and the processes of a host together    *)
(* implement a pool of Cap executions.                                       *)
(***************************************************************************)
EXTENDS HostSlots, FiniteSetTheorems, TLAPS

(* A scan goes on only while it has slots left to try.                          *)
ScanInv == \A r \in Runs : pc[r] = "scanning" => scan[r].left > 0

IInv == TypeOK /\ ScanInv /\ SlotHeldExactly

(* A host starts with every slot free.                                         *)
LEMMA InitInv == Init => IInv
BY CapAssumption DEF Init, IInv, TypeOK, ScanInv, SlotHeldExactly, InFlight, Executing, Slots

(* Taking a free slot makes the run the one holder of one more slot.            *)
LEMMA TakeInv == ASSUME IInv, NEW r \in Runs, TakeSlot(r) PROVE IInv'
<1>1. TypeOK'
  BY DEF IInv, TypeOK, TakeSlot, Goto, Slots
<1>2. scan[r].slot \in Slots /\ r # None
  BY RunsAssumption DEF IInv, TypeOK
<1>3. r \notin InFlight /\ InFlight' = InFlight \cup {r}
  BY DEF IInv, TypeOK, TakeSlot, Scans, Goto, InFlight, Executing
<1>4. ScanInv'
  BY DEF IInv, TypeOK, ScanInv, TakeSlot, Goto
<1>5. \A s \in Slots : lock'[s] = IF s = scan[r].slot THEN r ELSE lock[s]
  BY DEF IInv, TypeOK, TakeSlot
<1>6. lock[scan[r].slot] = None
  BY DEF TakeSlot
<1>7. \A s \in Slots : lock'[s] # None => lock'[s] \in InFlight'
  BY <1>3, <1>5 DEF IInv, SlotHeldExactly
<1>8. ASSUME NEW q \in InFlight'
      PROVE  \E s \in Slots : lock'[s] = q /\ \A t \in Slots : lock'[t] = q => t = s
  <2>1. CASE q = r
    <3>1. \A t \in Slots : lock'[t] = r => t = scan[r].slot
      BY <1>2, <1>3, <1>5 DEF IInv, SlotHeldExactly
    <3>. QED BY <1>2, <1>5, <2>1, <3>1
  <2>2. CASE q # r
    <3>1. q \in InFlight /\ q # None
      BY <1>3, <2>2, RunsAssumption DEF InFlight
    <3>2. PICK s \in Slots : lock[s] = q /\ \A t \in Slots : lock[t] = q => t = s
      BY <3>1 DEF IInv, SlotHeldExactly
    <3>. QED BY <1>5, <1>6, <2>2, <3>1, <3>2
  <2>. QED BY <2>1, <2>2
<1>. QED
  BY <1>1, <1>4, <1>7, <1>8 DEF IInv, SlotHeldExactly

(* Steps that neither lock nor unlock, nor move a run in or out of execution.   *)
LEMMA QuietInv ==
  ASSUME IInv, TypeOK', ScanInv', UNCHANGED lock, InFlight' = InFlight
  PROVE  IInv'
BY DEF IInv, SlotHeldExactly

(* Executions that end together with the release of exactly their locks.        *)
LEMMA ReleaseInv ==
  ASSUME IInv, TypeOK', ScanInv', NEW rs \in SUBSET Runs,
         lock' = Unlocked(rs), InFlight' = InFlight \ rs
  PROVE  IInv'
<1>1. \A s \in Slots : lock'[s] = IF lock[s] \in rs THEN None ELSE lock[s]
  BY DEF Unlocked
<1>2. \A s \in Slots : lock'[s] # None => lock'[s] \in InFlight'
  BY <1>1 DEF IInv, SlotHeldExactly
<1>3. ASSUME NEW q \in InFlight'
      PROVE  \E s \in Slots : lock'[s] = q /\ \A t \in Slots : lock'[t] = q => t = s
  <2>1. q \in InFlight /\ q \notin rs /\ q # None
    BY RunsAssumption DEF InFlight
  <2>2. PICK s \in Slots : lock[s] = q /\ \A t \in Slots : lock[t] = q => t = s
    BY <2>1 DEF IInv, SlotHeldExactly
  <2>. QED BY <1>1, <2>1, <2>2
<1>. QED BY <1>2, <1>3 DEF IInv, SlotHeldExactly, InFlight

(* Every step preserves the invariant.                                         *)
LEMMA NextInv == ASSUME IInv, [Next]_vars PROVE IInv'
<1>. USE DEF IInv, TypeOK, ScanInv, Goto, InFlight, Executing, Scans, Slots
<1>1. ASSUME NEW r \in Runs, Admit(r) PROVE IInv'
  BY <1>1, QuietInv DEF Admit
<1>2. ASSUME NEW r \in Runs, StartScan(r) PROVE IInv'
  BY <1>2, QuietInv, CapAssumption DEF StartScan
<1>3. ASSUME NEW r \in Runs, TakeSlot(r) PROVE IInv'
  BY <1>3, TakeInv
<1>4. ASSUME NEW r \in Runs, SlotBusy(r) PROVE IInv'
  <2>1. /\ scan[r].left - 1 \in 0 .. Cap
        /\ (scan[r].slot + 1) % Cap \in Slots
        /\ scan[r].left # 1 => scan[r].left - 1 > 0
    BY <1>4, CapAssumption DEF SlotBusy
  <2>2. TypeOK'
    BY <1>4, <2>1 DEF SlotBusy
  <2>3. ScanInv'
    BY <1>4, <2>1 DEF SlotBusy
  <2>4. UNCHANGED lock /\ InFlight' = InFlight
    BY <1>4 DEF SlotBusy
  <2>. QED BY <2>2, <2>3, <2>4, QuietInv
<1>5. ASSUME NEW r \in Runs, Finish(r) PROVE IInv'
  <2>1. lock' = Unlocked({r}) /\ InFlight' = InFlight \ {r} /\ TypeOK' /\ ScanInv'
    BY <1>5 DEF Finish, Unlocked
  <2>. QED BY <2>1, ReleaseInv
<1>6. ASSUME NEW r \in Runs, Fail(r) PROVE IInv'
  <2>1. lock' = Unlocked({r}) /\ InFlight' = InFlight \ {r} /\ TypeOK' /\ ScanInv'
    BY <1>6, OwnerAssumption DEF Fail, Unlocked
  <2>. QED BY <2>1, ReleaseInv
<1>7. ASSUME NEW p \in Procs, CancelAll(p) PROVE IInv'
  <2>1. TypeOK' /\ ScanInv' /\ UNCHANGED lock
    BY <1>7 DEF CancelAll
  <2>2. InFlight' = InFlight
    BY <1>7 DEF CancelAll, Of
  <2>. QED BY <2>1, <2>2, QuietInv
<1>8. ASSUME NEW p \in Procs, Kill(p) PROVE IInv'
  <2>1. lock' = Unlocked(Of(p)) /\ InFlight' = InFlight \ Of(p) /\ TypeOK' /\ ScanInv'
    BY <1>8 DEF Kill, Unlocked, Of
  <2>. QED BY <2>1, ReleaseInv DEF Of
<1>9. CASE UNCHANGED vars
  BY <1>9, QuietInv DEF vars
<1>. QED
  BY <1>1, <1>2, <1>3, <1>4, <1>5, <1>6, <1>7, <1>8, <1>9 DEF Next, RunSteps

(* A slot is locked exactly while its one run executes.                          *)
THEOREM Accounting == Spec => [](TypeOK /\ SlotHeldExactly)
<1>1. Init => IInv BY InitInv
<1>2. IInv /\ [Next]_vars => IInv' BY NextInv
<1>. QED BY <1>1, <1>2, PTL DEF Spec, IInv

-----------------------------------------------------------------------------
(* As many distinct holders as slots, at most.                                  *)
LEMMA AtMostCap ==
  ASSUME NEW S, NEW L, \A r \in S : \E s \in Slots : L[s] = r
  PROVE  IsFiniteSet(S) /\ Cardinality(S) <= Cap
<1> DEFINE held == [r \in S |-> CHOOSE s \in Slots : L[s] = r]
<1>1. \A r \in S : held[r] \in Slots /\ L[held[r]] = r
  OBVIOUS
<1>2. held \in Injection(S, Slots)
  <2>1. held \in [S -> Slots]
    BY <1>1
  <2>2. \A q, r \in S : held[q] = held[r] => q = r
    BY <1>1
  <2>. QED BY <2>1, <2>2, Zenon DEF Injection, IsInjective
<1>3. IsFiniteSet(Slots) /\ Cardinality(Slots) = Cap
  BY CapAssumption, FS_Interval DEF Slots
<1>. QED BY <1>2, <1>3, FS_Injection

(* Every step of the processes is a step of the pool, or none.                   *)
LEMMA PoolStep == ASSUME IInv, IInv', [Next]_vars PROVE [Pool!Next]_InFlight
<1>1. ASSUME NEW r \in Runs, TakeSlot(r) PROVE Pool!Next
  <2>1. r \notin InFlight /\ InFlight' = InFlight \cup {r}
    BY <1>1 DEF IInv, TypeOK, TakeSlot, Scans, Goto, InFlight, Executing
  <2>2. IsFiniteSet(InFlight) /\ Cardinality(InFlight) \in Nat
    BY AtMostCap, FS_CardinalityType DEF IInv, SlotHeldExactly
  <2>3. Cardinality(InFlight') <= Cap
    BY AtMostCap DEF IInv, SlotHeldExactly
  <2>4. Cardinality(InFlight') = Cardinality(InFlight) + 1
    BY <2>1, <2>2, FS_AddElement
  <2>5. Cardinality(InFlight) < Cap
    BY <2>2, <2>3, <2>4, CapAssumption
  <2>6. Pool!Cardinality(InFlight) = Cardinality(InFlight)
    BY Zenon DEF Cardinality, Pool!Cardinality
  <2>7. Pool!Enter(r)
    BY <2>1, <2>5, <2>6 DEF Pool!Enter
  <2>. QED BY <2>7 DEF Pool!Next
<1>2. ASSUME NEW rs \in SUBSET Runs, InFlight' = InFlight \ rs PROVE Pool!Next
  <2>1. Pool!Leave(InFlight \cap rs)
    BY <1>2 DEF Pool!Leave
  <2>. QED BY <2>1 DEF Pool!Next
<1>. USE DEF IInv, TypeOK, Goto, InFlight, Executing, Scans
<1>3. ASSUME NEW r \in Runs, Finish(r) \/ Fail(r) PROVE InFlight' = InFlight \ {r}
  BY <1>3 DEF Finish, Fail
<1>4. ASSUME NEW p \in Procs, Kill(p) PROVE InFlight' = InFlight \ Of(p)
  BY <1>4 DEF Kill, Of
<1>5. ASSUME NEW r \in Runs, Admit(r) \/ StartScan(r) \/ SlotBusy(r)
      PROVE  InFlight' = InFlight
  BY <1>5 DEF Admit, StartScan, SlotBusy
<1>6. ASSUME NEW p \in Procs, CancelAll(p) PROVE InFlight' = InFlight
  BY <1>6 DEF CancelAll, Of
<1>7. CASE UNCHANGED vars
  BY <1>7 DEF vars
<1>8. \A p \in Procs : Of(p) \in SUBSET Runs
  BY DEF Of
<1>. HIDE DEF IInv, TypeOK, Goto, InFlight, Executing, Scans
<1>. QED
  BY <1>1, <1>2, <1>3, <1>4, <1>5, <1>6, <1>7, <1>8 DEF Next, RunSteps

(* The processes of a host together implement a pool of Cap executions: each of    *)
(* their interleaved scans, failures and deaths is a step of it.                 *)
THEOREM Implements == Spec => PoolSpec
<1>1. Init => Pool!Init
  BY DEF Init, Pool!Init, InFlight, Executing
<1>2. Init => IInv BY InitInv
<1>3. IInv /\ [Next]_vars => IInv' BY NextInv
<1>4. IInv /\ IInv' /\ [Next]_vars => [Pool!Next]_InFlight BY PoolStep
<1>. QED BY <1>1, <1>2, <1>3, <1>4, PTL DEF Spec, PoolSpec, Pool!Spec
=============================================================================
