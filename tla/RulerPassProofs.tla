---------------------------- MODULE RulerPassProofs ----------------------------
(***************************************************************************)
(* What holds of the ruler for every set of programs, rules and passes and *)
(* for every listing, grace, limit and bound.                              *)
(***************************************************************************)
EXTENDS RulerPass, FiniteSetTheorems, TLAPS

(* Environment steps keep the tables well typed. *)
LEMMA EnvironmentTypeOK == ASSUME TypeOK, Environment PROVE TypeOK'
<1>1. UNCHANGED <<syncVars, syncs, faults, rulerVars>>
  BY DEF Environment
<1>2. SyncTypeOK' /\ step' \in [Rulers -> Steps] /\ plan' \in [Rulers -> Plans]
      /\ breaker' \in BOOLEAN
  BY <1>1 DEF TypeOK, SyncTypeOK, syncVars, rulerVars
<1>3. CASE Tick
  BY <1>2, <1>3, StoreAssumption DEF Tick, TypeOK, StoreTypeOK, ruleVars, inputVars
<1>4. ASSUME NEW p \in Programs, CommitOriginal(p) PROVE StoreTypeOK'
  BY <1>4, StoreAssumption DEF CommitOriginal, TypeOK, StoreTypeOK, ruleVars, inputVars
<1>5. ASSUME NEW p \in Touched, NEW action \in {"record", "skip"}, PutIntent(p, action)
      PROVE  StoreTypeOK'
  BY <1>5, StoreAssumption DEF PutIntent, EnsureProgramSnapshot, BumpRevision,
     RecordLoss, TypeOK, StoreTypeOK, ruleVars, inputVars
<1>6. ASSUME NEW p \in Touched, DeleteIntent(p) PROVE StoreTypeOK'
  BY <1>6, StoreAssumption DEF DeleteIntent, BumpRevision, RecordLoss, TypeOK, StoreTypeOK, ruleVars
<1>7. ASSUME NEW p \in Touched, PatchOverrides(p) PROVE StoreTypeOK'
  BY <1>7, StoreAssumption DEF PatchOverrides, EnsureProgramSnapshot, BumpRevision,
     RecordLoss, TypeOK, StoreTypeOK, ruleVars
<1>8. ASSUME NEW p \in Touched, DeleteOverrides(p) PROVE StoreTypeOK'
  BY <1>8, StoreAssumption DEF DeleteOverrides, BumpRevision, RecordLoss, TypeOK, StoreTypeOK, ruleVars
<1>9. ASSUME NEW r \in Rules, CreateRule(r) \/ UpdateRule(r) PROVE StoreTypeOK'
  BY <1>9, StoreAssumption DEF CreateRule, UpdateRule, BumpRevision, TypeOK, StoreTypeOK, inputVars
<1>10. ASSUME NEW r \in Rules, DeleteRule(r) PROVE StoreTypeOK'
  BY <1>10, StoreAssumption DEF DeleteRule, BumpRevision, TypeOK, StoreTypeOK, inputVars
<1> QED
  BY <1>2, <1>3, <1>4, <1>5, <1>6, <1>7, <1>8, <1>9, <1>10 DEF Environment, ApiWrite, TypeOK

(* So do the steps of a sync. *)
LEMMA SyncTypePreserved == ASSUME TypeOK, Sync PROVE TypeOK'
<1>1. step' \in [Rulers -> Steps] /\ plan' \in [Rulers -> Plans] /\ breaker' \in BOOLEAN
  BY DEF Sync, TypeOK, rulerVars
<1> USE SyncAssumption, StoreAssumption DEF TypeOK, StoreTypeOK, SyncTypeOK, storeVars,
        tablesButEpg, ruleVars, inputVars
<1>2. CASE SyncBegin
  BY <1>1, <1>2 DEF SyncBegin
<1>3. ASSUME NEW p \in Programs, UpsertPrograms(p) PROVE TypeOK'
  BY <1>1, <1>3 DEF UpsertPrograms, Listed
<1>4. CASE SweepPrograms
  BY <1>1, <1>4 DEF SweepPrograms
<1>5. CASE PrunePrograms
  BY <1>1, <1>5 DEF PrunePrograms
<1>6. CASE SyncBump
  BY <1>1, <1>6 DEF SyncBump, SyncReset, NoListing
<1>7. CASE SyncFail
  BY <1>1, <1>7 DEF SyncFail, SyncReset, NoListing, syncVars
<1> QED
  BY <1>2, <1>3, <1>4, <1>5, <1>6, <1>7 DEF Sync, SyncStep

(* A read keeps the types when its answer is a plan. *)
LEMMA ReadTypeOK ==
  ASSUME TypeOK, NEW w \in Rulers, NEW from, NEW to \in Steps, NEW answer \in Plans,
         Read(w, from, to, answer)
  PROVE  TypeOK'
BY DEF Read, TypeOK, StoreTypeOK, SyncTypeOK, storeVars, syncVars

LEMMA DesiredPrograms ==
  ASSUME TypeOK, NEW w \in Rulers
  PROVE  Desired(w) \subseteq Programs /\ Investments \subseteq Programs /\ Fulfilled \subseteq Programs
BY DEF Desired, Investments, Fulfilled, TypeOK, StoreTypeOK, Plans

(* Every query of a pass puts an answer of the right type into the plan. *)
LEMMA ReadsTypeOK ==
  ASSUME TypeOK, NEW w \in Rulers,
         \/ GetRevision(w) \/ ObserveBreaker(w) \/ ListEnabled(w)
         \/ \E r \in Rules : MatchRule(w, r)
         \/ ListIntents(w) \/ ListInvestments(w) \/ ListFulfilled(w)
         \/ ListReservations(w) \/ ListProjected(w)
  PROVE  TypeOK'
<1> plan[w] \in Plans
  BY DEF TypeOK
<1>1. CASE GetRevision(w)
  <2>1. [plan[w] EXCEPT !.revision = revision] \in Plans
    BY DEF TypeOK, StoreTypeOK, Plans
  <2> QED BY <1>1, <2>1, ReadTypeOK DEF GetRevision, Steps
<1>2. CASE ObserveBreaker(w)
  <2>1. [plan[w] EXCEPT !.tripped = breaker] \in Plans
    BY DEF TypeOK, Plans
  <2> QED BY <1>2, <2>1, ReadTypeOK DEF ObserveBreaker, Steps
<1>3. CASE ListEnabled(w)
  <2>1. [plan[w] EXCEPT !.rules = EnabledRules] \in Plans
    BY DEF Plans, EnabledRules
  <2> QED BY <1>3, <2>1, ReadTypeOK DEF ListEnabled, Steps
<1>4. ASSUME NEW r \in Rules, MatchRule(w, r) PROVE TypeOK'
  <2> DEFINE answer == [plan[w] EXCEPT
               !.rules = @ \ {r},
               !.winner = [p \in Programs |->
                  IF @[p] = NoRule /\ p \in Matched(r) THEN r ELSE @[p]]]
  <2>1. answer \in Plans
    BY DEF Plans
  <2>2. Read(w, "MatchRules", "MatchRules", answer)
    BY <1>4 DEF MatchRule
  <2> HIDE DEF answer
  <2> QED BY <2>1, <2>2, ReadTypeOK DEF Steps
<1>5. CASE ListIntents(w)
  <2>1. [plan[w] EXCEPT !.skips = {p \in Programs : intent[p] = "skip"}] \in Plans
    BY DEF Plans
  <2> QED BY <1>5, <2>1, ReadTypeOK DEF ListIntents, Steps
<1>6. CASE ListInvestments(w)
  <2>1. [plan[w] EXCEPT !.investments = Investments] \in Plans
    BY DesiredPrograms DEF Plans
  <2> QED BY <1>6, <2>1, ReadTypeOK DEF ListInvestments, Steps
<1>7. CASE ListFulfilled(w)
  <2>1. [plan[w] EXCEPT !.fulfilled = Fulfilled] \in Plans
    BY DesiredPrograms DEF Plans
  <2> QED BY <1>7, <2>1, ReadTypeOK DEF ListFulfilled, Steps
<1>8. CASE ListReservations(w)
  <2>1. [plan[w] EXCEPT !.existing = Reserved] \in Plans
    BY DEF Plans, Reserved
  <2> QED BY <1>8, <2>1, ReadTypeOK DEF ListReservations, Steps
<1>9. CASE ListProjected(w)
  <2> DEFINE D == {p \in plan[w].existing \ Desired(w) : epg[p] # Absent} \ plan[w].fulfilled
  <2>1. D \subseteq Programs
    BY DEF Plans
  <2>2. [plan[w] EXCEPT !.deletes = D] \in Plans
    BY <2>1 DEF Plans
  <2> QED BY <1>9, <2>2, ReadTypeOK DEF ListProjected, Steps
<1> QED
  BY <1>1, <1>2, <1>3, <1>4, <1>5, <1>6, <1>7, <1>8, <1>9

LEMMA EmptyPlanType == EmptyPlan \in Plans
BY RulerAssumption DEF EmptyPlan, Plans

(* The steps that write, and those that end a pass. *)
LEMMA WritesTypeOK ==
  ASSUME TypeOK, NEW w \in Rulers,
         \/ ApplyPass(w) \/ RollbackPass(w) \/ GC(w) \/ PassFails(w)
         \/ \E r \in Rules : MatchDeletedRule(w, r)
  PROVE  TypeOK'
<1> plan[w] \in Plans
  BY DEF TypeOK
<1>1. CASE ApplyPass(w)
  <2>1. snapshot' \in [Programs -> StartTimes \cup {Absent}]
    BY <1>1 DEF ApplyPass, CommitPlan, SnapshotsAfter, TypeOK, StoreTypeOK
  <2>2. reservation' \in [Programs -> Rules \cup {NoRule, NoReservation}]
    BY <1>1 DEF ApplyPass, CommitPlan, Upserted, TypeOK, StoreTypeOK, Plans
  <2>3. breaker' \in BOOLEAN
    BY <1>1 DEF ApplyPass, CommitPlan, TypeOK, TooMany
  <2>4. step' \in [Rulers -> Steps] /\ plan' \in [Rulers -> Plans]
    BY <1>1, EmptyPlanType DEF ApplyPass, TypeOK, Steps
  <2> QED
    BY <1>1, <2>1, <2>2, <2>3, <2>4 DEF ApplyPass, TypeOK, StoreTypeOK, SyncTypeOK,
       ruleVars, inputVars, syncVars
<1>2. CASE RollbackPass(w)
  <2>1. ASSUME plan[w].mismatches + 1 < MaxMismatches
        PROVE  [EmptyPlan EXCEPT !.mismatches = plan[w].mismatches + 1] \in Plans
    <3>1. plan[w].mismatches + 1 \in 0..MaxMismatches
      BY <2>1, RulerAssumption DEF Plans
    <3> QED BY <3>1, EmptyPlanType DEF Plans
  <2>2. step' \in [Rulers -> Steps] /\ plan' \in [Rulers -> Plans]
    BY <1>2, <2>1, EmptyPlanType DEF RollbackPass, TypeOK, Steps
  <2> QED
    BY <1>2, <2>2 DEF RollbackPass, TypeOK, StoreTypeOK, SyncTypeOK, storeVars, syncVars
<1>3. CASE GC(w)
  <2>1. step' \in [Rulers -> Steps]
    BY <1>3 DEF GC, TypeOK, Steps
  <2> QED
    BY <1>3, <2>1 DEF GC, RecordLoss, TypeOK, StoreTypeOK, SyncTypeOK, ruleVars, syncVars
<1>4. CASE PassFails(w)
  <2>1. step' \in [Rulers -> Steps] /\ plan' \in [Rulers -> Plans]
    BY <1>4, EmptyPlanType DEF PassFails, TypeOK, Steps
  <2>2. faults' \in 0..MaxFaults
    BY <1>4, SyncAssumption DEF PassFails, TypeOK, SyncTypeOK
  <2> QED
    BY <1>4, <2>1, <2>2 DEF PassFails, TypeOK, StoreTypeOK, SyncTypeOK, storeVars, syncVars
<1>5. ASSUME NEW r \in Rules, MatchDeletedRule(w, r) PROVE TypeOK'
  <2>1. step' \in [Rulers -> Steps] /\ plan' \in [Rulers -> Plans]
    BY <1>5, EmptyPlanType DEF MatchDeletedRule, TypeOK, Steps
  <2> QED
    BY <1>5, <2>1 DEF MatchDeletedRule, TypeOK, StoreTypeOK, SyncTypeOK, storeVars, syncVars
<1> QED
  BY <1>1, <1>2, <1>3, <1>4, <1>5

(* Types are kept by every step of the system: passes, syncs, API writes,
   ingest commits, time and operators. *)
LEMMA TypeStep == ASSUME TypeOK, [Next]_vars PROVE TypeOK'
<1>1. ASSUME NEW w \in Rulers, RulerStep(w) \/ PassFails(w) PROVE TypeOK'
  BY <1>1, ReadsTypeOK, WritesTypeOK DEF RulerStep
<1>2. CASE Sync
  BY <1>2, SyncTypePreserved
<1>3. CASE Environment
  BY <1>3, EnvironmentTypeOK
<1>4. CASE Resume
  BY <1>4 DEF Resume, TypeOK, StoreTypeOK, SyncTypeOK, storeVars, syncVars
<1>5. CASE UNCHANGED vars
  BY <1>5 DEF vars, storeVars, syncVars, rulerVars, TypeOK, StoreTypeOK, SyncTypeOK
<1> QED
  BY <1>1, <1>2, <1>3, <1>4, <1>5 DEF Next

LEMMA TypeInit == Init => TypeOK
<1> SUFFICES ASSUME Init PROVE TypeOK
  OBVIOUS
<1>1. StoreTypeOK
  BY StoreAssumption DEF Init, StoreInit, StoreTypeOK
<1>2. SyncTypeOK
  BY StoreAssumption, SyncAssumption DEF Init, SyncInit, NoListing, SyncTypeOK
<1>3. step \in [Rulers -> Steps] /\ plan \in [Rulers -> Plans] /\ breaker \in BOOLEAN
  BY EmptyPlanType DEF Init, Steps
<1> QED
  BY <1>1, <1>2, <1>3 DEF TypeOK

(* The tables, the sync and every plan always have their types: in particular
   the retries of a pass stay within maxRulerInputRevisionMismatches and a
   reservation never names anything but a rule or NULL. *)
THEOREM TypeCorrect == Spec => []TypeOK
BY TypeInit, TypeStep, PTL DEF Spec

-----------------------------------------------------------------------------
(* The plans stay valid: why one number is enough. *)

(* A step that touches neither the pass nor what its validity speaks of. *)
LEMMA PlanFrame ==
  ASSUME NEW w \in Rulers, PlanValid(w),
         step'[w] = step[w], plan'[w] = plan[w],
         UNCHANGED <<revision, intent, overrides, lost>>
  PROVE  PlanValid(w)'
<1>1. Investments' = Investments /\ Desired(w)' = Desired(w)
      /\ InputsUnchanged(w)' = InputsUnchanged(w)
  BY DEF Investments, Desired, InputsUnchanged
<1> QED
  BY <1>1 DEF PlanValid, RevisionBehind, SkipsSeen, InvestmentsStand, DeletesUndesired

(* A write that bumps makes every plan read so far fail the comparison. *)
LEMMA BumpInvalidates ==
  ASSUME TypeOK, PlansValid, UNCHANGED <<step, plan>>, revision' = revision + 1
  PROVE  PlansValid'
<1> SUFFICES ASSUME NEW w \in Rulers PROVE PlanValid(w)'
  BY DEF PlansValid
<1>1. PlanValid(w) /\ plan[w] \in Plans /\ revision \in Nat
  BY DEF PlansValid, TypeOK, StoreTypeOK
<1>2. RevisionBehind(w)'
  BY <1>1 DEF PlanValid, RevisionBehind, Plans
<1>3. step'[w] \in ReadRevision => ~InputsUnchanged(w)'
  BY <1>1 DEF PlanValid, RevisionBehind, InputsUnchanged, Plans
<1>4. ReadIntents \subseteq ReadRevision /\ ReadInvestments \subseteq ReadIntents
  BY DEF ReadRevision, ReadIntents, ReadInvestments, Steps
<1>5. DeletesUndesired(w)'
  BY <1>1 DEF PlanValid, DeletesUndesired, Desired
<1> QED
  BY <1>2, <1>3, <1>4, <1>5 DEF PlanValid, SkipsSeen, InvestmentsStand

LEMMA EnvironmentPlansValid == ASSUME TypeOK, PlansValid, Environment PROVE PlansValid'
<1>1. UNCHANGED <<step, plan>>
  BY DEF Environment, rulerVars
<1>2. CASE ApiWrite
  <2>1. revision' = revision + 1
    BY <1>2 DEF ApiWrite, PutIntent, DeleteIntent, PatchOverrides, DeleteOverrides,
       CreateRule, UpdateRule, DeleteRule, BumpRevision
  <2> QED BY <1>1, <2>1, BumpInvalidates
<1>3. CASE Tick \/ \E p \in Programs : CommitOriginal(p)
  <2>1. UNCHANGED <<revision, intent, overrides, lost>>
    BY <1>3 DEF Tick, CommitOriginal, inputVars
  <2> QED BY <1>1, <2>1, PlanFrame DEF PlansValid
<1> QED
  BY <1>2, <1>3 DEF Environment

LEMMA SyncPlansValid == ASSUME TypeOK, PlansValid, Sync PROVE PlansValid'
<1>1. UNCHANGED <<step, plan>>
  BY DEF Sync, rulerVars
<1>2. CASE SyncBump
  BY <1>1, <1>2, BumpInvalidates DEF SyncBump
<1>3. CASE SyncBegin \/ SyncFail \/ SweepPrograms \/ PrunePrograms
           \/ \E p \in Programs : UpsertPrograms(p)
  <2>1. UNCHANGED <<revision, intent, overrides, lost>>
    BY <1>3 DEF SyncBegin, SyncFail, SweepPrograms, PrunePrograms, UpsertPrograms,
       storeVars, tablesButEpg, inputVars
  <2> QED BY <1>1, <2>1, PlanFrame DEF PlansValid
<1> QED
  BY <1>2, <1>3 DEF Sync, SyncStep

(* A read only changes its own plan. *)
LEMMA ReadOthers ==
  ASSUME TypeOK, PlansValid, NEW w \in Rulers, NEW from, NEW to, NEW answer,
         Read(w, from, to, answer), NEW v \in Rulers, v # w
  PROVE  PlanValid(v)'
<1>1. step'[v] = step[v] /\ plan'[v] = plan[v] /\ UNCHANGED <<revision, intent, overrides, lost>>
  BY DEF Read, TypeOK, storeVars
<1> QED
  BY <1>1, PlanFrame DEF PlansValid

(* What a read leaves its pass with. *)
LEMMA ReadEffect ==
  ASSUME TypeOK, NEW w \in Rulers, NEW from, NEW to, NEW answer, Read(w, from, to, answer)
  PROVE  /\ step[w] = from /\ step'[w] = to /\ plan'[w] = answer
         /\ UNCHANGED <<revision, intent, overrides, lost>>
         /\ Investments' = Investments
BY DEF Read, TypeOK, storeVars, Investments

LEMMA ReadsPlansValid ==
  ASSUME TypeOK, PlansValid, NEW w \in Rulers,
         \/ GetRevision(w) \/ ObserveBreaker(w) \/ ListEnabled(w)
         \/ \E r \in Rules : MatchRule(w, r)
         \/ ListIntents(w) \/ ListInvestments(w) \/ ListFulfilled(w)
         \/ ListReservations(w) \/ ListProjected(w)
  PROVE  PlansValid'
<1> PlanValid(w) /\ plan[w] \in Plans /\ revision \in Nat
  BY DEF PlansValid, TypeOK, StoreTypeOK
<1> SUFFICES PlanValid(w)'
  BY ReadOthers DEF PlansValid, GetRevision, ObserveBreaker, ListEnabled, MatchRule,
     ListIntents, ListInvestments, ListFulfilled, ListReservations, ListProjected
<1> USE DEF PlanValid, RevisionBehind, SkipsSeen, InvestmentsStand, DeletesUndesired,
        InputsUnchanged, ReadRevision, ReadIntents, ReadInvestments, Steps
<1>1. CASE GetRevision(w)
  <2>1. step'[w] = "ObserveBreaker" /\ plan'[w].revision = revision /\ revision' = revision
    BY <1>1, ReadEffect DEF GetRevision, Plans
  <2> QED BY <2>1
<1>2. CASE ObserveBreaker(w)
  <2>1. step[w] = "ObserveBreaker" /\ step'[w] = "ListEnabled"
        /\ plan'[w].revision = plan[w].revision /\ revision' = revision
    BY <1>2, ReadEffect DEF ObserveBreaker, Plans
  <2> QED BY <2>1
<1>3. CASE ListEnabled(w)
  <2>1. step[w] = "ListEnabled" /\ step'[w] = "MatchRules"
        /\ plan'[w].revision = plan[w].revision /\ revision' = revision
    BY <1>3, ReadEffect DEF ListEnabled, Plans
  <2> QED BY <2>1
<1>4. ASSUME NEW r \in Rules, MatchRule(w, r) PROVE PlanValid(w)'
  <2> DEFINE answer == [plan[w] EXCEPT
               !.rules = @ \ {r},
               !.winner = [p \in Programs |->
                  IF @[p] = NoRule /\ p \in Matched(r) THEN r ELSE @[p]]]
  <2>1. Read(w, "MatchRules", "MatchRules", answer) /\ answer.revision = plan[w].revision
    BY <1>4 DEF MatchRule, Plans
  <2> HIDE DEF answer
  <2>2. step[w] = "MatchRules" /\ step'[w] = "MatchRules"
        /\ plan'[w].revision = plan[w].revision /\ revision' = revision
    BY <2>1, ReadEffect
  <2> QED BY <2>2
<1>5. CASE ListIntents(w)
  <2>1. /\ step[w] = "MatchRules" /\ step'[w] = "ListInvestments"
        /\ plan'[w].revision = plan[w].revision /\ revision' = revision /\ intent' = intent
        /\ plan'[w].skips = {p \in Programs : intent[p] = "skip"}
    BY <1>5, ReadEffect DEF ListIntents, Plans
  <2> QED BY <2>1
<1>6. CASE ListInvestments(w)
  <2>1. /\ step[w] = "ListInvestments" /\ step'[w] = "ListFulfilled"
        /\ plan'[w].revision = plan[w].revision /\ revision' = revision /\ intent' = intent
        /\ plan'[w].skips = plan[w].skips /\ plan'[w].investments = Investments
        /\ Investments' = Investments
    BY <1>6, ReadEffect DEF ListInvestments, Plans
  <2> QED BY <2>1
<1>7. CASE ListFulfilled(w)
  <2>1. /\ step[w] = "ListFulfilled" /\ step'[w] = "ListReservations"
        /\ plan'[w].revision = plan[w].revision /\ UNCHANGED <<revision, intent, lost>>
        /\ plan'[w].skips = plan[w].skips /\ plan'[w].investments = plan[w].investments
        /\ Investments' = Investments
    BY <1>7, ReadEffect DEF ListFulfilled, Plans
  <2> QED BY <2>1
<1>8. CASE ListReservations(w)
  <2>1. /\ step[w] = "ListReservations" /\ step'[w] = "ListProjected"
        /\ plan'[w].revision = plan[w].revision /\ UNCHANGED <<revision, intent, lost>>
        /\ plan'[w].skips = plan[w].skips /\ plan'[w].investments = plan[w].investments
        /\ Investments' = Investments
    BY <1>8, ReadEffect DEF ListReservations, Plans
  <2> QED BY <2>1
<1>9. CASE ListProjected(w)
  <2> DEFINE D == {p \in plan[w].existing \ Desired(w) : epg[p] # Absent} \ plan[w].fulfilled
             answer == [plan[w] EXCEPT !.deletes = D]
  <2>1. /\ answer.deletes = D /\ answer.revision = plan[w].revision
        /\ answer.skips = plan[w].skips /\ answer.investments = plan[w].investments
        /\ answer.winner = plan[w].winner /\ answer.fulfilled = plan[w].fulfilled
    BY DEF Plans
  <2>2. D \cap Desired(w) = {}
    OBVIOUS
  <2>3. Read(w, "ListProjected", "ApplyPass", answer)
    BY <1>9 DEF ListProjected
  <2> HIDE DEF answer, D
  <2>4. /\ step[w] = "ListProjected" /\ step'[w] = "ApplyPass" /\ plan'[w] = answer
        /\ UNCHANGED <<revision, intent, lost>> /\ Investments' = Investments
    BY <2>3, ReadEffect
  <2>5. Desired(w)' = Desired(w)
    BY <2>1, <2>4 DEF Desired
  <2> QED BY <2>1, <2>2, <2>4, <2>5
<1> QED
  BY <1>1, <1>2, <1>3, <1>4, <1>5, <1>6, <1>7, <1>8, <1>9

LEMMA WritesPlansValid ==
  ASSUME TypeOK, PlansValid, NEW w \in Rulers,
         \/ ApplyPass(w) \/ RollbackPass(w) \/ PassFails(w)
         \/ \E r \in Rules : MatchDeletedRule(w, r)
  PROVE  PlansValid'
<1> SUFFICES ASSUME NEW v \in Rulers PROVE PlanValid(v)'
  BY DEF PlansValid
<1>1. UNCHANGED <<revision, intent, overrides, lost>>
  BY DEF ApplyPass, RollbackPass, PassFails, MatchDeletedRule, storeVars, inputVars
<1>2. CASE v = w
  <2>1. step'[w] \in {"idle", "GetRevision", "GC"}
    BY DEF ApplyPass, RollbackPass, PassFails, MatchDeletedRule, TypeOK
  <2> QED
    BY <1>2, <2>1 DEF PlanValid, RevisionBehind, SkipsSeen, InvestmentsStand,
       DeletesUndesired, ReadRevision, ReadIntents, ReadInvestments
<1>3. CASE v # w
  <2>1. step'[v] = step[v] /\ plan'[v] = plan[v]
    BY <1>3 DEF ApplyPass, RollbackPass, PassFails, MatchDeletedRule, TypeOK
  <2> QED BY <1>1, <2>1, PlanFrame DEF PlansValid
<1> QED BY <1>2, <1>3

(* Collecting an investment does not bump, but it leaves its mark. *)
LEMMA GCPlansValid ==
  ASSUME TypeOK, PlansValid, NEW w \in Rulers, GC(w)
  PROVE  PlansValid'
<1> SUFFICES ASSUME NEW v \in Rulers PROVE PlanValid(v)'
  BY DEF PlansValid
<1>1. CASE v = w
  <2>1. step'[w] = "idle"
    BY DEF GC, TypeOK
  <2> QED
    BY <1>1, <2>1 DEF PlanValid, RevisionBehind, SkipsSeen, InvestmentsStand,
       DeletesUndesired, ReadRevision, ReadIntents, ReadInvestments, Steps
<1>2. CASE v # w
  <2> PlanValid(v) /\ plan[v] \in Plans
    BY DEF PlansValid, TypeOK
  <2>1. step'[v] = step[v] /\ plan'[v] = plan[v] /\ revision' = revision
    BY <1>2 DEF GC, TypeOK
  <2>2. \A p \in Programs : intent'[p] = intent[p] \/ intent'[p] = "none"
    BY DEF GC, TypeOK, StoreTypeOK
  <2>3. ASSUME NEW p \in Investments \ Investments'
        PROVE  lost'[p] # "never" /\ intent'[p] = "none"
    <3>1. p \in Programs
      BY DesiredPrograms
    <3>2. p \in Expired
      BY <2>3, <3>1 DEF GC, Investments, TypeOK, StoreTypeOK
    <3> QED
      BY <2>3, <3>1, <3>2 DEF GC, RecordLoss
  <2>4. \A p \in Programs : lost[p] # "never" => lost'[p] # "never"
    BY DEF GC, RecordLoss, TypeOK, StoreTypeOK
  <2>5. RevisionBehind(v)' /\ DeletesUndesired(v)'
    BY <2>1 DEF PlanValid, RevisionBehind, DeletesUndesired, Desired
  <2>6. SkipsSeen(v)'
    BY <2>1, <2>2 DEF PlanValid, SkipsSeen, InputsUnchanged
  <2>7. InvestmentsStand(v)'
    BY <2>1, <2>2, <2>3, <2>4 DEF PlanValid, InvestmentsStand, InputsUnchanged, Plans
  <2> QED BY <2>5, <2>6, <2>7 DEF PlanValid
<1> QED BY <1>1, <1>2

LEMMA PlansValidInit == Init => PlansValid
BY DEF Init, PlansValid, PlanValid, RevisionBehind, SkipsSeen, InvestmentsStand,
   DeletesUndesired, ReadRevision, ReadIntents, ReadInvestments

LEMMA PlansValidStep == ASSUME TypeOK, PlansValid, [Next]_vars PROVE PlansValid'
<1>1. ASSUME NEW w \in Rulers, RulerStep(w) \/ PassFails(w) PROVE PlansValid'
  BY <1>1, ReadsPlansValid, WritesPlansValid, GCPlansValid DEF RulerStep
<1>2. CASE Sync
  BY <1>2, SyncPlansValid
<1>3. CASE Environment
  BY <1>3, EnvironmentPlansValid
<1>4. CASE Resume \/ UNCHANGED vars
  BY <1>4, PlanFrame DEF Resume, PlansValid, vars, storeVars, rulerVars
<1> QED
  BY <1>1, <1>2, <1>3, <1>4 DEF Next

(* While the input revision is the one a pass has read, its plan holds every
   skip and only investments that stand or were collected. *)
THEOREM PlansAlwaysValid == Spec => []PlansValid
<1>1. Init => TypeOK /\ PlansValid
  BY TypeInit, PlansValidInit
<1>2. TypeOK /\ PlansValid /\ [Next]_vars => (TypeOK /\ PlansValid)'
  BY TypeStep, PlansValidStep
<1> QED
  BY <1>1, <1>2, PTL DEF Spec

-----------------------------------------------------------------------------
(* Reservations without a rule. *)

(* An investment does not vanish without a trace. *)
LEMMA InvestmentTrace ==
  ASSUME TypeOK, [Next]_vars, NEW p \in Programs,
         p \in Investments \/ lost[p] # "never"
  PROVE  p \in Investments' \/ lost'[p] # "never"
<1>1. CASE UNCHANGED <<intent, overrides, lost>>
  BY <1>1 DEF Investments
<1>2. ASSUME NEW cause \in {"user", "gc"}, RecordLoss(cause)
      PROVE  p \in Investments' \/ lost'[p] # "never"
  BY <1>2 DEF RecordLoss
<1>3. ASSUME NEW w \in Rulers, RulerStep(w) \/ PassFails(w), ~GC(w)
      PROVE  UNCHANGED <<intent, overrides, lost>>
  BY <1>3 DEF RulerStep, GetRevision, ObserveBreaker, ListEnabled, MatchRule, MatchDeletedRule,
     ListIntents, ListInvestments, ListFulfilled, ListReservations, ListProjected, Read,
     ApplyPass, RollbackPass, PassFails, storeVars, inputVars
<1>4. ASSUME NEW w \in Rulers, GC(w) PROVE RecordLoss("gc")
  BY <1>4 DEF GC
<1>5. CASE Sync \/ Resume \/ UNCHANGED vars
  <2>1. UNCHANGED <<intent, overrides, lost>>
    BY <1>5 DEF Sync, SyncBegin, SyncStep, SyncFail, SweepPrograms, PrunePrograms, SyncBump,
       UpsertPrograms, Resume, vars, storeVars, tablesButEpg, inputVars
  <2> QED BY <1>1, <2>1
<1>6. CASE Environment
  <2>1. RecordLoss("user") \/ UNCHANGED <<intent, overrides, lost>>
    BY <1>6 DEF Environment, ApiWrite, PutIntent, DeleteIntent, PatchOverrides, DeleteOverrides,
       CreateRule, UpdateRule, DeleteRule, Tick, CommitOriginal, inputVars
  <2> QED BY <1>1, <1>2, <2>1
<1> QED
  BY <1>1, <1>2, <1>3, <1>4, <1>5, <1>6 DEF Next

(* The only steps that write rule_id NULL: a pass that books an investment no
   rule has found, and the deletion of a rule. *)
LEMMA NewRuleless ==
  ASSUME TypeOK, PlansValid, [Next]_vars, NEW p \in Programs,
         reservation'[p] = NoRule, reservation[p] # NoRule
  PROVE  p \in Investments \/ lost[p] # "never"
<1>1. ASSUME NEW w \in Rulers, ApplyPass(w) PROVE p \in Investments \/ lost[p] # "never"
  <2>1. plan[w] \in Plans /\ PlanValid(w)
    BY DEF TypeOK, PlansValid
  <2>2. p \in Desired(w) /\ plan[w].winner[p] = NoRule
    BY <1>1, StoreAssumption DEF ApplyPass, CommitPlan, Upserted, TypeOK, StoreTypeOK
  <2>3. p \in plan[w].investments
    BY <2>2 DEF Desired
  <2> QED
    BY <1>1, <2>1, <2>3 DEF ApplyPass, PlanValid, InvestmentsStand, ReadInvestments, ReadIntents
<1>2. ASSUME NEW r \in Rules, DeleteRule(r) PROVE p \in Investments
  BY <1>2, StoreAssumption DEF DeleteRule, TypeOK, StoreTypeOK
<1>3. ASSUME NEW w \in Rulers, GC(w) PROVE FALSE
  BY <1>3, StoreAssumption DEF GC, TypeOK, StoreTypeOK
<1>4. ASSUME NEW w \in Rulers, RulerStep(w) \/ PassFails(w), ~GC(w), ~ApplyPass(w)
      PROVE  reservation' = reservation
  BY <1>4 DEF RulerStep, GetRevision, ObserveBreaker, ListEnabled, MatchRule, MatchDeletedRule,
     ListIntents, ListInvestments, ListFulfilled, ListReservations, ListProjected, Read,
     RollbackPass, PassFails, storeVars
<1>5. CASE Sync \/ Resume \/ UNCHANGED vars
  <2>1. reservation' = reservation
    BY <1>5 DEF Sync, SyncBegin, SyncStep, SyncFail, SweepPrograms, PrunePrograms, SyncBump,
       UpsertPrograms, Resume, vars, storeVars, tablesButEpg
  <2> QED BY <2>1
<1>6. ASSUME Environment, \A r \in Rules : ~DeleteRule(r) PROVE reservation' = reservation
  BY <1>6 DEF Environment, ApiWrite, PutIntent, DeleteIntent, PatchOverrides, DeleteOverrides,
     CreateRule, UpdateRule, Tick, CommitOriginal
<1> QED
  BY <1>1, <1>2, <1>3, <1>4, <1>5, <1>6 DEF Next

(* The ruler never invents a manual reservation, with any number of passes at
   once and whatever the syncs, the users and the clock do meanwhile. *)
THEOREM RulelessInvested == Spec => []RulelessWasInvested
<1> DEFINE IInv == TypeOK /\ PlansValid /\ RulelessWasInvested
<1>1. Init => IInv
  <2>1. Init => RulelessWasInvested
    BY StoreAssumption DEF Init, StoreInit, RulelessWasInvested
  <2> QED BY <2>1, TypeInit, PlansValidInit
<1>2. IInv /\ [Next]_vars => IInv'
  <2> SUFFICES ASSUME IInv, [Next]_vars PROVE RulelessWasInvested'
    BY TypeStep, PlansValidStep
  <2> SUFFICES ASSUME NEW p \in Programs, reservation'[p] = NoRule
               PROVE  p \in Investments' \/ lost'[p] # "never"
    BY DEF RulelessWasInvested
  <2>1. p \in Investments \/ lost[p] # "never"
    BY NewRuleless DEF RulelessWasInvested
  <2> QED BY <2>1, InvestmentTrace
<1> QED
  BY <1>1, <1>2, PTL DEF Spec

-----------------------------------------------------------------------------
(* What a step may never do to reservations. *)

(* The steps that write reservations at all. *)
LEMMA ReservationWriters ==
  ASSUME [Next]_vars, reservation' # reservation
  PROVE  \/ \E w \in Rulers : ApplyPass(w) \/ GC(w)
         \/ \E r \in Rules : DeleteRule(r)
<1>1. ASSUME NEW w \in Rulers, RulerStep(w) \/ PassFails(w) PROVE ApplyPass(w) \/ GC(w)
  BY <1>1 DEF RulerStep, GetRevision, ObserveBreaker, ListEnabled, MatchRule, MatchDeletedRule,
     ListIntents, ListInvestments, ListFulfilled, ListReservations, ListProjected, Read,
     RollbackPass, PassFails, storeVars
<1>2. ~(Sync \/ Resume \/ UNCHANGED vars)
  BY DEF Sync, SyncBegin, SyncStep, SyncFail, SweepPrograms, PrunePrograms, SyncBump,
     UpsertPrograms, Resume, vars, storeVars, tablesButEpg
<1>3. CASE Environment
  BY <1>3 DEF Environment, ApiWrite, PutIntent, DeleteIntent, PatchOverrides, DeleteOverrides,
     CreateRule, UpdateRule, Tick, CommitOriginal
<1> QED
  BY <1>1, <1>2, <1>3 DEF Next

(* A reservation a pass removes is fulfilled, released or derived. *)
LEMMA PassRemovals ==
  ASSUME TypeOK, NEW w \in Rulers, ApplyPass(w), NEW p \in Reserved \ Reserved'
  PROVE  p \in FulfilledDeletes(w) \cup Released(w) \cup DerivedDeletes(w)
BY StoreAssumption DEF ApplyPass, CommitPlan, Upserted, Reserved, TypeOK, StoreTypeOK, Plans

(* A reservation the user has invested in goes only when it is recorded or
   its program is collected. *)
THEOREM InvestmentsAreKept == Spec => InvestmentsKept
<1>1. TypeOK /\ [Next]_vars =>
        [\A p \in Reserved \ Reserved' :
            intent[p] = "record" \/ p \in overrides
               => p \in originals \/ snapshot'[p] = Absent]_vars
  <2> SUFFICES ASSUME TypeOK, [Next]_vars, NEW p \in Reserved \ Reserved', p \in Investments
               PROVE  p \in originals \/ snapshot'[p] = Absent
    BY DEF Investments, Reserved, TypeOK, StoreTypeOK
  <2>1. reservation' # reservation /\ p \in Programs
    BY DEF Reserved
  <2>2. ASSUME NEW w \in Rulers, ApplyPass(w) PROVE p \in originals
    <3>1. p \notin Released(w) /\ p \notin DerivedDeletes(w)
      BY DEF Released, DerivedDeletes
    <3> QED
      BY <2>2, <3>1, PassRemovals DEF FulfilledDeletes, Fulfilled
  <2>3. ASSUME NEW w \in Rulers, GC(w) PROVE snapshot'[p] = Absent
    BY <2>1, <2>3 DEF GC, Reserved, TypeOK, StoreTypeOK
  <2>4. ASSUME NEW r \in Rules, DeleteRule(r) PROVE FALSE
    BY <2>1, <2>4, StoreAssumption DEF DeleteRule, Reserved, TypeOK, StoreTypeOK
  <2> QED
    BY <2>1, <2>2, <2>3, <2>4, ReservationWriters
<1> QED
  BY <1>1, TypeCorrect, PTL DEF Spec, InvestmentsKept

(* A program the user skipped is never booked, however old the plan. *)
THEOREM SkipsAreRespected == Spec => SkipsRespected
<1>1. TypeOK /\ PlansValid /\ [Next]_vars =>
        [\A p \in Reserved' \ Reserved : intent[p] = "skip" => p \in overrides]_vars
  <2> SUFFICES ASSUME TypeOK, PlansValid, [Next]_vars, NEW p \in Reserved' \ Reserved,
                      intent[p] = "skip"
               PROVE  p \in overrides
    OBVIOUS
  <2>1. reservation' # reservation /\ p \in Programs
    BY DEF Reserved
  <2>2. ASSUME NEW w \in Rulers, ApplyPass(w) PROVE p \in overrides
    <3>1. PlanValid(w) /\ plan[w] \in Plans
      BY DEF PlansValid, TypeOK
    <3>2. p \in Desired(w)
      BY <2>1, <2>2 DEF ApplyPass, CommitPlan, Upserted, Reserved, TypeOK, StoreTypeOK
    <3>3. p \in plan[w].skips
      BY <2>1, <2>2, <3>1 DEF ApplyPass, PlanValid, SkipsSeen, ReadIntents
    <3>4. p \in plan[w].investments
      BY <3>2, <3>3 DEF Desired
    <3>5. p \in Investments
      BY <2>2, <3>1, <3>4 DEF ApplyPass, PlanValid, InvestmentsStand, ReadInvestments, ReadIntents
    <3> QED
      BY <3>5 DEF Investments
  <2>3. ASSUME NEW w \in Rulers, GC(w) PROVE FALSE
    BY <2>1, <2>3 DEF GC, Reserved, TypeOK, StoreTypeOK
  <2>4. ASSUME NEW r \in Rules, DeleteRule(r) PROVE FALSE
    BY <2>1, <2>4, StoreAssumption DEF DeleteRule, Reserved, TypeOK, StoreTypeOK
  <2> QED
    BY <2>1, <2>2, <2>3, <2>4, ReservationWriters
<1> QED
  BY <1>1, TypeCorrect, PlansAlwaysValid, PTL DEF Spec, SkipsRespected

(* What a pass removes and no user explains went through the guard. *)
LEMMA DerivedRemovalsGuarded ==
  ASSUME TypeOK, PlansValid, NEW w \in Rulers, ApplyPass(w)
  PROVE  DerivedRemovals \subseteq DerivedDeletes(w)
<1> SUFFICES ASSUME NEW p \in DerivedRemovals PROVE p \in DerivedDeletes(w)
  OBVIOUS
<1>1. /\ p \in Reserved \ Reserved' /\ p \in Programs
      /\ p \notin originals /\ intent[p] = "none" /\ reservation[p] \in Rules
  BY DEF DerivedRemovals, Reserved
<1>2. p \notin FulfilledDeletes(w)
  BY <1>1 DEF FulfilledDeletes, Fulfilled
<1>3. ASSUME p \in Released(w) PROVE FALSE
  <2>1. p \notin Desired(w)
    BY <1>3 DEF Released, ApplyPass, PlansValid, PlanValid, DeletesUndesired
  <2>2. Upserted(w)[p] = reservation[p]
    BY <1>1, <2>1 DEF Upserted
  <2> QED
    BY <1>1, <1>3, <2>2, StoreAssumption DEF Released
<1> QED
  BY <1>1, <1>2, <1>3, PassRemovals

(* No step takes more derived reservations away than the limit. *)
THEOREM DerivedRemovalsAreBounded == Spec => DerivedRemovalsBounded
<1>1. TypeOK /\ PlansValid /\ [Next]_vars => [Cardinality(DerivedRemovals) <= MaxDeletes]_vars
  <2> SUFFICES ASSUME TypeOK, PlansValid, [Next]_vars
               PROVE  Cardinality(DerivedRemovals) <= MaxDeletes
    OBVIOUS
  <2>1. MaxDeletes \in Nat /\ MaxDeletes >= 0 /\ Cardinality({}) = 0
    BY RulerAssumption, FS_EmptySet
  <2>2. ASSUME NEW w \in Rulers, ApplyPass(w) PROVE Cardinality(DerivedRemovals) <= MaxDeletes
    <3>1. DerivedRemovals \subseteq DerivedDeletes(w)
      BY <2>2, DerivedRemovalsGuarded
    <3>2. CASE DerivedDeletes(w) = {}
      BY <2>1, <3>1, <3>2
    <3>3. CASE DerivedDeletes(w) # {}
      <4>1. ~TooMany(w) /\ DerivedDeletes(w) \subseteq DerivedCandidates(w)
        BY <3>3 DEF DerivedDeletes
      <4>2. DerivedCandidates(w) \subseteq Programs
        BY DEF DerivedCandidates, TypeOK, Plans
      <4>3. IsFiniteSet(DerivedCandidates(w))
        BY <4>2, StoreAssumption, FS_Subset
      <4>4. /\ IsFiniteSet(DerivedRemovals)
            /\ Cardinality(DerivedRemovals) <= Cardinality(DerivedCandidates(w))
        BY <3>1, <4>1, <4>3, FS_Subset
      <4>5. Cardinality(DerivedCandidates(w)) \in Nat /\ Cardinality(DerivedRemovals) \in Nat
        BY <4>3, <4>4, FS_CardinalityType
      <4>6. Cardinality(DerivedCandidates(w)) <= MaxDeletes
        BY <4>1, <4>5, <2>1 DEF TooMany
      <4> QED BY <2>1, <4>4, <4>5, <4>6
    <3> QED BY <3>2, <3>3
  <2>3. ASSUME NEW w \in Rulers, GC(w) PROVE DerivedRemovals = {}
    BY <2>3 DEF GC, DerivedRemovals, Reserved, TypeOK, StoreTypeOK
  <2>4. ASSUME NEW r \in Rules, DeleteRule(r) PROVE DerivedRemovals = {}
    BY <2>4, StoreAssumption DEF DeleteRule, DerivedRemovals, Reserved, TypeOK, StoreTypeOK
  <2>5. CASE reservation' = reservation
    <3>1. DerivedRemovals = {}
      BY <2>5 DEF DerivedRemovals, Reserved
    <3> QED BY <2>1, <3>1
  <2> QED
    BY <2>1, <2>2, <2>3, <2>4, <2>5, ReservationWriters
<1> QED
  BY <1>1, TypeCorrect, PlansAlwaysValid, PTL DEF Spec, DerivedRemovalsBounded

-----------------------------------------------------------------------------
(* One pass at a time.  Rescued jobs may overlap, and the two properties below
   are then false; a pass that is alone has seen every trip of the breaker, and
   collects nothing between reading an investment and applying its plan. *)

OneRuler == \A v, w \in Rulers : v = w

AfterBreaker == ReadRevision \ {"ObserveBreaker"}

TripSeen(w) == step[w] \in AfterBreaker /\ breaker => plan[w].tripped

InvestmentsHeld(w) ==
    step[w] \in ReadInvestments /\ InputsUnchanged(w) => plan[w].investments \subseteq Investments

AloneInv == \A w \in Rulers : TripSeen(w) /\ InvestmentsHeld(w)

LEMMA ReadStepsAreReads == ReadInvestments \subseteq AfterBreaker /\ AfterBreaker \subseteq ReadRevision
BY DEF ReadInvestments, ReadIntents, AfterBreaker, ReadRevision, Steps

(* A query that is about neither the breaker nor the investments. *)
LEMMA AloneReads ==
  ASSUME TypeOK, OneRuler, AloneInv, NEW w \in Rulers, NEW from, NEW to, NEW answer,
         Read(w, from, to, answer), answer.tripped = plan[w].tripped,
         answer.revision = plan[w].revision \/ to \notin ReadInvestments,
         answer.investments = plan[w].investments,
         to \in AfterBreaker => from \in AfterBreaker,
         to \in ReadInvestments => from \in ReadInvestments
  PROVE  AloneInv'
<1>1. /\ step[w] = from /\ step'[w] = to /\ plan'[w] = answer
      /\ UNCHANGED revision /\ Investments' = Investments
  BY ReadEffect
<1>2. UNCHANGED breaker
  BY DEF Read
<1>3. TripSeen(w)' /\ InvestmentsHeld(w)'
  BY <1>1, <1>2 DEF AloneInv, TripSeen, InvestmentsHeld, InputsUnchanged
<1> QED BY <1>3 DEF AloneInv, OneRuler

LEMMA ReadsAlone ==
  ASSUME TypeOK, OneRuler, AloneInv, NEW w \in Rulers,
         \/ GetRevision(w) \/ ObserveBreaker(w) \/ ListEnabled(w)
         \/ \E r \in Rules : MatchRule(w, r)
         \/ ListIntents(w) \/ ListInvestments(w) \/ ListFulfilled(w)
         \/ ListReservations(w) \/ ListProjected(w)
  PROVE  AloneInv'
<1> plan[w] \in Plans
  BY DEF TypeOK
<1>0. /\ {"ListEnabled", "MatchRules", "ListInvestments", "ListFulfilled", "ListReservations",
          "ListProjected", "ApplyPass"} \subseteq AfterBreaker
      /\ {"ListFulfilled", "ListReservations", "ListProjected", "ApplyPass"} \subseteq ReadInvestments
      /\ {"ObserveBreaker", "idle", "GetRevision"} \cap AfterBreaker = {}
      /\ {"ObserveBreaker", "ListEnabled", "MatchRules", "ListInvestments"} \cap ReadInvestments = {}
  BY DEF AfterBreaker, ReadRevision, ReadInvestments, ReadIntents, Steps
<1>1. CASE GetRevision(w)
  <2> DEFINE answer == [plan[w] EXCEPT !.revision = revision]
  <2>1. answer.tripped = plan[w].tripped /\ answer.investments = plan[w].investments
    BY DEF Plans
  <2>2. PICK from : Read(w, from, "ObserveBreaker", answer)
    BY <1>1 DEF GetRevision
  <2> HIDE DEF answer
  <2> QED BY <1>0, <2>1, <2>2, AloneReads
<1>2. CASE ObserveBreaker(w)
  <2> DEFINE answer == [plan[w] EXCEPT !.tripped = breaker]
  <2>1. answer.tripped = breaker
    BY DEF Plans
  <2>2. Read(w, "ObserveBreaker", "ListEnabled", answer)
    BY <1>2 DEF ObserveBreaker
  <2> HIDE DEF answer
  <2>3. step'[w] = "ListEnabled" /\ plan'[w] = answer /\ UNCHANGED breaker
    BY <2>2, ReadEffect DEF Read
  <2>4. TripSeen(w)' /\ InvestmentsHeld(w)'
    BY <1>0, <2>1, <2>3 DEF TripSeen, InvestmentsHeld
  <2> QED BY <2>4 DEF AloneInv, OneRuler
<1>3. CASE ListInvestments(w)
  <2> DEFINE answer == [plan[w] EXCEPT !.investments = Investments]
  <2>1. answer.investments = Investments /\ answer.tripped = plan[w].tripped
    BY DEF Plans
  <2>2. Read(w, "ListInvestments", "ListFulfilled", answer)
    BY <1>3 DEF ListInvestments
  <2> HIDE DEF answer
  <2>3. /\ step[w] = "ListInvestments" /\ step'[w] = "ListFulfilled" /\ plan'[w] = answer
        /\ UNCHANGED breaker /\ Investments' = Investments
    BY <2>2, ReadEffect DEF Read
  <2>4. TripSeen(w)' /\ InvestmentsHeld(w)'
    BY <1>0, <2>1, <2>3 DEF TripSeen, InvestmentsHeld, AloneInv
  <2> QED BY <2>4 DEF AloneInv, OneRuler
<1>4. CASE \/ ListEnabled(w) \/ ListIntents(w) \/ ListFulfilled(w) \/ ListReservations(w)
           \/ ListProjected(w) \/ \E r \in Rules : MatchRule(w, r)
  <2>1. \E from, to, answer :
           /\ Read(w, from, to, answer)
           /\ answer.tripped = plan[w].tripped /\ answer.revision = plan[w].revision
           /\ answer.investments = plan[w].investments
           /\ from \in AfterBreaker
           /\ to \in ReadInvestments => from \in ReadInvestments
    <3>1. CASE ListEnabled(w)
      <4> DEFINE answer == [plan[w] EXCEPT !.rules = EnabledRules]
      <4>1. answer.tripped = plan[w].tripped /\ answer.revision = plan[w].revision
            /\ answer.investments = plan[w].investments
        BY DEF Plans
      <4>2. Read(w, "ListEnabled", "MatchRules", answer)
        BY <3>1 DEF ListEnabled
      <4> HIDE DEF answer
      <4> QED BY <1>0, <4>1, <4>2
    <3>2. CASE ListIntents(w)
      <4> DEFINE answer == [plan[w] EXCEPT !.skips = {p \in Programs : intent[p] = "skip"}]
      <4>1. answer.tripped = plan[w].tripped /\ answer.revision = plan[w].revision
            /\ answer.investments = plan[w].investments
        BY DEF Plans
      <4>2. Read(w, "MatchRules", "ListInvestments", answer)
        BY <3>2 DEF ListIntents
      <4> HIDE DEF answer
      <4> QED BY <1>0, <4>1, <4>2
    <3>3. CASE ListFulfilled(w)
      <4> DEFINE answer == [plan[w] EXCEPT !.fulfilled = Fulfilled]
      <4>1. answer.tripped = plan[w].tripped /\ answer.revision = plan[w].revision
            /\ answer.investments = plan[w].investments
        BY DEF Plans
      <4>2. Read(w, "ListFulfilled", "ListReservations", answer)
        BY <3>3 DEF ListFulfilled
      <4> HIDE DEF answer
      <4> QED BY <1>0, <4>1, <4>2
    <3>4. CASE ListReservations(w)
      <4> DEFINE answer == [plan[w] EXCEPT !.existing = Reserved]
      <4>1. answer.tripped = plan[w].tripped /\ answer.revision = plan[w].revision
            /\ answer.investments = plan[w].investments
        BY DEF Plans
      <4>2. Read(w, "ListReservations", "ListProjected", answer)
        BY <3>4 DEF ListReservations
      <4> HIDE DEF answer
      <4> QED BY <1>0, <4>1, <4>2
    <3>5. CASE ListProjected(w)
      <4> DEFINE D == {p \in plan[w].existing \ Desired(w) : epg[p] # Absent}
                        \ plan[w].fulfilled
                 answer == [plan[w] EXCEPT !.deletes = D]
      <4>1. answer.tripped = plan[w].tripped /\ answer.revision = plan[w].revision
            /\ answer.investments = plan[w].investments
        BY DEF Plans
      <4>2. Read(w, "ListProjected", "ApplyPass", answer)
        BY <3>5 DEF ListProjected
      <4> HIDE DEF answer
      <4> QED BY <1>0, <4>1, <4>2
    <3>6. ASSUME NEW r \in Rules, MatchRule(w, r)
          PROVE  \E answer :
                    /\ Read(w, "MatchRules", "MatchRules", answer)
                    /\ answer.tripped = plan[w].tripped /\ answer.revision = plan[w].revision
                    /\ answer.investments = plan[w].investments
      <4> DEFINE rest == plan[w].rules \ {r}
                 won == [p \in Programs |-> IF plan[w].winner[p] = NoRule /\ p \in Matched(r)
                                            THEN r ELSE plan[w].winner[p]]
                 answer == [plan[w] EXCEPT !.rules = rest, !.winner = won]
      <4>1. Read(w, "MatchRules", "MatchRules", answer)
        BY <3>6 DEF MatchRule
      <4> HIDE DEF rest, won
      <4>2. answer.tripped = plan[w].tripped /\ answer.revision = plan[w].revision
            /\ answer.investments = plan[w].investments
        BY DEF Plans
      <4> HIDE DEF answer
      <4> QED BY <4>1, <4>2
    <3> QED BY <1>0, <1>4, <3>1, <3>2, <3>3, <3>4, <3>5, <3>6
  <2> QED BY <2>1, AloneReads
<1> QED BY <1>1, <1>2, <1>3, <1>4

LEMMA AloneStep ==
  ASSUME TypeOK, PlansValid, OneRuler, AloneInv, [Next]_vars
  PROVE  AloneInv'
<1>1. ASSUME NEW w \in Rulers,
             \/ ApplyPass(w) \/ RollbackPass(w) \/ PassFails(w) \/ GC(w)
             \/ \E r \in Rules : MatchDeletedRule(w, r)
      PROVE  AloneInv'
  <2>1. step'[w] \in {"idle", "GetRevision", "GC"}
    BY <1>1 DEF ApplyPass, RollbackPass, PassFails, GC, MatchDeletedRule, TypeOK
  <2>2. TripSeen(w)' /\ InvestmentsHeld(w)'
    BY <2>1 DEF TripSeen, InvestmentsHeld, AfterBreaker, ReadRevision, ReadInvestments, ReadIntents
  <2> QED BY <2>2 DEF AloneInv, OneRuler
<1>2. ASSUME NEW w \in Rulers, RulerStep(w) \/ PassFails(w) PROVE AloneInv'
  BY <1>1, <1>2, ReadsAlone DEF RulerStep
<1>3. ASSUME UNCHANGED <<step, plan, revision, intent, overrides>>, breaker' => breaker
      PROVE  AloneInv'
  <2>1. Investments' = Investments
    BY <1>3 DEF Investments
  <2> QED BY <1>3, <2>1 DEF AloneInv, TripSeen, InvestmentsHeld, InputsUnchanged
<1>4. ASSUME UNCHANGED <<step, plan, breaker>>, revision' = revision + 1
      PROVE  AloneInv'
  <2> SUFFICES ASSUME NEW w \in Rulers PROVE TripSeen(w)' /\ InvestmentsHeld(w)'
    BY DEF AloneInv
  <2>1. PlanValid(w) /\ plan[w] \in Plans /\ revision \in Nat
    BY DEF PlansValid, TypeOK, StoreTypeOK
  <2>2. step'[w] \in ReadRevision => ~InputsUnchanged(w)'
    BY <1>4, <2>1 DEF PlanValid, RevisionBehind, InputsUnchanged, Plans
  <2> QED BY <1>4, <2>2, ReadStepsAreReads DEF AloneInv, TripSeen, InvestmentsHeld
<1>5. CASE Environment
  <2>1. \/ UNCHANGED <<revision, intent, overrides>>
        \/ revision' = revision + 1
    BY <1>5 DEF Environment, ApiWrite, PutIntent, DeleteIntent, PatchOverrides, DeleteOverrides,
       CreateRule, UpdateRule, DeleteRule, BumpRevision, Tick, CommitOriginal, inputVars
  <2> QED BY <1>3, <1>4, <1>5, <2>1 DEF Environment, rulerVars
<1>6. CASE Sync
  <2>1. \/ UNCHANGED <<revision, intent, overrides>>
        \/ revision' = revision + 1
    BY <1>6 DEF Sync, SyncBegin, SyncStep, SyncFail, SweepPrograms, PrunePrograms, SyncBump,
       UpsertPrograms, storeVars, tablesButEpg, inputVars
  <2> QED BY <1>3, <1>4, <1>6, <2>1 DEF Sync, rulerVars
<1>7. CASE Resume \/ UNCHANGED vars
  BY <1>3, <1>7 DEF Resume, vars, storeVars, rulerVars
<1> QED BY <1>2, <1>5, <1>6, <1>7 DEF Next

LEMMA AloneInit == Init => AloneInv
BY DEF Init, AloneInv, TripSeen, InvestmentsHeld, AfterBreaker, ReadRevision, ReadInvestments,
   ReadIntents

(* While its breaker is tripped, a pass that is alone removes nothing that the
   EPG or a rule may have lost by accident (applyRulerDeleteGuard). *)
THEOREM BreakerIsHeld ==
  ASSUME OneRuler
  PROVE  Spec => BreakerHolds
<1>1. TypeOK /\ PlansValid /\ AloneInv /\ [Next]_vars => AloneInv'
  BY AloneStep
<1>2. TypeOK /\ PlansValid /\ AloneInv /\ [Next]_vars => [breaker => DerivedRemovals = {}]_vars
  <2> SUFFICES ASSUME TypeOK, PlansValid, AloneInv, [Next]_vars, breaker
               PROVE  DerivedRemovals = {}
    OBVIOUS
  <2>1. ASSUME NEW w \in Rulers, ApplyPass(w) PROVE DerivedRemovals = {}
    <3>1. step[w] \in AfterBreaker
      BY <2>1 DEF ApplyPass, AfterBreaker, ReadRevision, Steps
    <3>2. DerivedDeletes(w) = {}
      BY <3>1 DEF AloneInv, TripSeen, DerivedDeletes
    <3> QED BY <2>1, <3>2, DerivedRemovalsGuarded
  <2>2. ASSUME NEW w \in Rulers, GC(w) PROVE DerivedRemovals = {}
    BY <2>2 DEF GC, DerivedRemovals, Reserved, TypeOK, StoreTypeOK
  <2>3. ASSUME NEW r \in Rules, DeleteRule(r) PROVE DerivedRemovals = {}
    BY <2>3, StoreAssumption DEF DeleteRule, DerivedRemovals, Reserved, TypeOK, StoreTypeOK
  <2>4. CASE reservation' = reservation
    BY <2>4 DEF DerivedRemovals, Reserved
  <2> QED BY <2>1, <2>2, <2>3, <2>4, ReservationWriters
<1> QED
  BY AloneInit, <1>1, <1>2, TypeCorrect, PlansAlwaysValid, PTL DEF Spec, BreakerHolds

(* A reservation without a rule and without an investment lost it by a user's
   write, if passes do not overlap: what Released deletes past the breaker
   follows a user's write. *)
THEOREM ReleasesFollowUsers ==
  ASSUME OneRuler
  PROVE  Spec => []RulelessLostByUser
<1>1. TypeOK /\ PlansValid /\ AloneInv /\ [Next]_vars => AloneInv'
  BY AloneStep
<1>2. Init => RulelessLostByUser
  BY StoreAssumption DEF Init, StoreInit, RulelessLostByUser
<1>3. TypeOK /\ PlansValid /\ AloneInv /\ RulelessLostByUser /\ [Next]_vars => RulelessLostByUser'
  <2> SUFFICES ASSUME TypeOK, PlansValid, AloneInv, RulelessLostByUser, [Next]_vars,
                      NEW p \in Programs, reservation'[p] = NoRule
               PROVE  p \in Investments' \/ lost'[p] = "user"
    BY DEF RulelessLostByUser
  <2>1. ASSUME NEW w \in Rulers, ApplyPass(w) PROVE p \in Investments' \/ lost'[p] = "user"
    <3>1. Investments' = Investments /\ lost' = lost
      BY <2>1 DEF ApplyPass, Investments, inputVars
    <3>2. CASE reservation[p] = NoRule
      BY <3>1, <3>2 DEF RulelessLostByUser
    <3>3. CASE reservation[p] # NoRule
      <4>1. p \in Desired(w) /\ plan[w].winner[p] = NoRule
        BY <2>1, <3>3, StoreAssumption DEF ApplyPass, CommitPlan, Upserted, TypeOK, StoreTypeOK
      <4>2. p \in plan[w].investments
        BY <4>1 DEF Desired
      <4>3. p \in Investments
        BY <2>1, <4>2 DEF AloneInv, InvestmentsHeld, ApplyPass, ReadInvestments, ReadIntents
      <4> QED BY <3>1, <4>3
    <3> QED BY <3>2, <3>3
  <2>2. ASSUME NEW w \in Rulers, GC(w) PROVE p \in Investments' \/ lost'[p] = "user"
    <3>1. p \notin Expired /\ reservation[p] = NoRule
      BY <2>2, StoreAssumption DEF GC, TypeOK, StoreTypeOK
    <3>2. p \in Investments <=> p \in Investments'
      BY <2>2, <3>1 DEF GC, Investments, TypeOK, StoreTypeOK
    <3>3. lost'[p] = lost[p]
      BY <2>2, <3>2 DEF GC, RecordLoss
    <3> QED BY <3>1, <3>2, <3>3 DEF RulelessLostByUser
  <2>3. ASSUME ~\E w \in Rulers : ApplyPass(w) \/ GC(w)
        PROVE  /\ p \in Investments \/ lost[p] = "user"
               /\ RecordLoss("user") \/ UNCHANGED <<intent, overrides, lost>>
    <3>1. ASSUME reservation' = reservation
          PROVE  p \in Investments \/ lost[p] = "user"
      BY <3>1 DEF RulelessLostByUser
    <3>2. ASSUME NEW r \in Rules, DeleteRule(r)
          PROVE  p \in Investments \/ lost[p] = "user"
      BY <3>2, StoreAssumption DEF DeleteRule, RulelessLostByUser, TypeOK, StoreTypeOK
    <3>3. p \in Investments \/ lost[p] = "user"
      BY <2>3, <3>1, <3>2, ReservationWriters
    <3>4. ASSUME NEW w \in Rulers, RulerStep(w) \/ PassFails(w)
          PROVE  UNCHANGED <<intent, overrides, lost>>
      BY <2>3, <3>4 DEF RulerStep, GetRevision, ObserveBreaker, ListEnabled, MatchRule,
         MatchDeletedRule, ListIntents, ListInvestments, ListFulfilled, ListReservations,
         ListProjected, Read, RollbackPass, PassFails, storeVars
    <3>5. ASSUME Sync \/ Resume \/ UNCHANGED vars
          PROVE  UNCHANGED <<intent, overrides, lost>>
      BY <3>5 DEF Sync, SyncBegin, SyncStep, SyncFail, SweepPrograms, PrunePrograms, SyncBump,
         UpsertPrograms, Resume, vars, storeVars, tablesButEpg, inputVars
    <3>6. ASSUME Environment
          PROVE  RecordLoss("user") \/ UNCHANGED <<intent, overrides, lost>>
      BY <3>6 DEF Environment, ApiWrite, PutIntent, DeleteIntent, PatchOverrides, DeleteOverrides,
         CreateRule, UpdateRule, DeleteRule, Tick, CommitOriginal, inputVars
    <3>7. RecordLoss("user") \/ UNCHANGED <<intent, overrides, lost>>
      BY <2>3, <3>4, <3>5, <3>6 DEF Next
    <3> QED BY <3>3, <3>7
  <2>4. ASSUME ~\E w \in Rulers : ApplyPass(w) \/ GC(w)
        PROVE  p \in Investments' \/ lost'[p] = "user"
    <3>1. CASE UNCHANGED <<intent, overrides, lost>>
      BY <2>3, <2>4, <3>1 DEF Investments
    <3>2. CASE RecordLoss("user")
      BY <2>3, <2>4, <3>2 DEF RecordLoss
    <3> QED BY <2>3, <2>4, <3>1, <3>2
  <2> QED BY <2>1, <2>2, <2>4
<1> QED
  BY AloneInit, <1>1, <1>2, <1>3, TypeCorrect, PlansAlwaysValid, PTL DEF Spec

=============================================================================
