------------------------------- MODULE RulerPass -------------------------------
(***************************************************************************)
(* The ruler: a job that evaluates every rule against the whole projection *)
(* and turns the result into reservations.  It reads its inputs one query  *)
(* at a time, outside a transaction, and writes the plan in one            *)
(* transaction that first applies the plan and last compares the input     *)
(* revision with the one read at the start; a difference rolls everything  *)
(* back and the pass reads again, up to MaxMismatches times.               *)
(*                                                                         *)
(* Rulers is the set of passes that may run at once.  The job queue        *)
(* coalesces the jobs of a site, but a rescued job may run beside its      *)
(* predecessor, and the GC at the end of another site's pass covers every  *)
(* site.                                                                   *)
(***************************************************************************)
EXTENDS EpgSync

CONSTANTS
    Rulers,         \* passes that may run concurrently
    Rank,           \* evaluation order of the rules: priority DESC, id ASC
    MaxMismatches,  \* maxRulerInputRevisionMismatches
    MaxDeletes,     \* ruler.max_deletes_per_pass
    RetractGrace    \* ruler.retract_grace

ASSUME RulerAssumption ==
    /\ Rank \in [Rules -> Nat]
    /\ \A r, s \in Rules : Rank[r] = Rank[s] => r = s
    /\ MaxMismatches \in Nat \ {0} /\ MaxDeletes \in Nat /\ RetractGrace \in Nat

VARIABLES
    step,     \* step[w]: what pass w does next
    plan,     \* plan[w]: what pass w has read in this attempt
    breaker   \* circuit_breakers has a row for ruler_deletes

rulerVars == <<step, plan, breaker>>
vars == <<storeVars, syncVars, syncs, faults, rulerVars>>

Steps == {"idle", "GetRevision", "ObserveBreaker", "ListEnabled", "MatchRules",
          "ListIntents", "ListInvestments", "ListFulfilled", "ListReservations",
          "ListProjected", "ApplyPass", "GC"}

Plans == [revision : Nat, mismatches : 0..MaxMismatches, tripped : BOOLEAN,
          rules : SUBSET Rules, winner : [Programs -> Rules \cup {NoRule}],
          skips : SUBSET Programs, investments : SUBSET Programs,
          fulfilled : SUBSET Programs, existing : SUBSET Programs,
          deletes : SUBSET Programs]

EmptyPlan == [revision |-> 0, mismatches |-> 0, tripped |-> FALSE,
              rules |-> {}, winner |-> [p \in Programs |-> NoRule],
              skips |-> {}, investments |-> {}, fulfilled |-> {},
              existing |-> {}, deletes |-> {}]

TypeOK ==
    /\ StoreTypeOK
    /\ SyncTypeOK
    /\ step \in [Rulers -> Steps]
    /\ plan \in [Rulers -> Plans]
    /\ breaker \in BOOLEAN

Init ==
    /\ StoreInit
    /\ SyncInit
    /\ step = [w \in Rulers |-> "idle"]
    /\ plan = [w \in Rulers |-> EmptyPlan]
    /\ breaker = FALSE

-----------------------------------------------------------------------------
(* Reading.  Each query is a step of its own: it keeps its answer in the
   plan and nothing protects that answer from then on. *)

Read(w, from, to, answer) ==
    /\ step[w] = from
    /\ step' = [step EXCEPT ![w] = to]
    /\ plan' = [plan EXCEPT ![w] = answer]
    /\ UNCHANGED <<storeVars, syncVars, syncs, faults, breaker>>

GetRevision(w) ==
    \E from \in {"idle", "GetRevision"} :
       Read(w, from, "ObserveBreaker", [plan[w] EXCEPT !.revision = revision])

ObserveBreaker(w) ==
    Read(w, "ObserveBreaker", "ListEnabled", [plan[w] EXCEPT !.tripped = breaker])

ListEnabled(w) ==
    Read(w, "ListEnabled", "MatchRules", [plan[w] EXCEPT !.rules = EnabledRules])

(* The programs a rule matches: projected, and accepted by its conditions as
   they are now.  A rule already listed is evaluated even if it was disabled
   since; a rule that was deleted fails the pass. *)
Matched(r) == {p \in accepts[r] : epg[p] # Absent}

NextRule(w, r) == r \in plan[w].rules /\ \A s \in plan[w].rules : Rank[r] <= Rank[s]

MatchRule(w, r) ==
    /\ NextRule(w, r) /\ rule[r] # "deleted"
    /\ Read(w, "MatchRules", "MatchRules",
            [plan[w] EXCEPT
               !.rules = @ \ {r},
               !.winner = [p \in Programs |->
                  IF @[p] = NoRule /\ p \in Matched(r) THEN r ELSE @[p]]])

ListIntents(w) ==
    /\ plan[w].rules = {}
    /\ Read(w, "MatchRules", "ListInvestments",
            [plan[w] EXCEPT !.skips = {p \in Programs : intent[p] = "skip"}])

ListInvestments(w) ==
    Read(w, "ListInvestments", "ListFulfilled",
         [plan[w] EXCEPT !.investments = Investments])

ListFulfilled(w) ==
    Read(w, "ListFulfilled", "ListReservations",
         [plan[w] EXCEPT !.fulfilled = Fulfilled])

ListReservations(w) ==
    Read(w, "ListReservations", "ListProjected",
         [plan[w] EXCEPT !.existing = Reserved])

(* Winners that are not skipped, and everything the user invested in, unless
   its recording is already in the library. *)
Desired(w) ==
    (({p \in Programs : plan[w].winner[p] # NoRule} \ plan[w].skips)
       \cup plan[w].investments) \ plan[w].fulfilled

(* A reservation that is no longer desired is a candidate for deletion only
   while its program is projected; otherwise it stays frozen. *)
ListProjected(w) ==
    Read(w, "ListProjected", "ApplyPass",
         [plan[w] EXCEPT !.deletes =
            {p \in plan[w].existing \ Desired(w) : epg[p] # Absent}
               \ plan[w].fulfilled])

-----------------------------------------------------------------------------
(* Writing: the transaction ApplyPass.  Its statements re-read the tables, so
   they are evaluated in the state in which it commits. *)

SnapshotsAfter(w) ==
    LET followed == Desired(w) \cup plan[w].skips \cup plan[w].existing
    IN  [p \in Programs |->
           IF p \in followed /\ epg[p] # Absent THEN epg[p] ELSE snapshot[p]]

(* Mutant: a reservation that is there keeps its rule. *)
UpsertedOnce(w) ==
    [p \in Programs |->
       IF p \in Desired(w) \ Reserved /\ SnapshotsAfter(w)[p] # Absent
       THEN plan[w].winner[p] ELSE reservation[p]]

(* Reservations after the upsert: only a program with a snapshot can have a
   row, and a program without a winning rule gets rule_id NULL. *)
Upserted(w) ==
    [p \in Programs |->
       IF p \in Desired(w) /\ SnapshotsAfter(w)[p] # Absent
       THEN plan[w].winner[p] ELSE reservation[p]]

FulfilledDeletes(w) == plan[w].fulfilled \cap Fulfilled

(* Programs about to start, whose rule is still there and enabled. *)
GraceProtected(p) ==
    /\ reservation[p] \in EnabledRules
    /\ epg[p] # Absent
    /\ clock <= epg[p] /\ epg[p] < clock + RetractGrace

(* Mutant: a tripped breaker withholds these as well. *)
ReleasedUnlessTripped(w) ==
    {p \in plan[w].deletes :
       /\ Upserted(w)[p] # NoReservation
       /\ p \notin Investments /\ ~plan[w].tripped
       /\ Upserted(w)[p] = NoRule \/ intent[p] = "skip"}

(* Deletions only a user's write can cause; the breaker does not count them. *)
Released(w) ==
    {p \in plan[w].deletes :
       /\ Upserted(w)[p] # NoReservation
       /\ p \notin Investments
       /\ Upserted(w)[p] = NoRule \/ intent[p] = "skip"}

(* Deletions the EPG may have caused. *)
DerivedCandidates(w) ==
    {p \in plan[w].deletes \ Released(w) : ~GraceProtected(p)}

(* Mutant: one deletion too many goes through. *)
TooManyOffByOne(w) == Cardinality(DerivedCandidates(w)) > MaxDeletes + 1

TooMany(w) == Cardinality(DerivedCandidates(w)) > MaxDeletes

(* Mutant: only the pass that trips the breaker withholds. *)
DerivedDeletesUnlatched(w) ==
    IF TooMany(w) THEN {} ELSE DerivedCandidates(w) \ Investments

DerivedDeletes(w) ==
    IF TooMany(w) \/ plan[w].tripped THEN {}
    ELSE DerivedCandidates(w) \ Investments

(* Mutant: the plan is committed without looking at the revision. *)
InputsUnchangedUnchecked(w) == TRUE

InputsUnchanged(w) == plan[w].revision = revision

CommitPlan(w) ==
    LET gone == FulfilledDeletes(w) \cup Released(w) \cup DerivedDeletes(w)
    IN  /\ snapshot' = SnapshotsAfter(w)
        /\ reservation' = [p \in Programs |->
              IF p \in gone THEN NoReservation ELSE Upserted(w)[p]]
        /\ breaker' = (breaker \/ TooMany(w))

ApplyPass(w) ==
    /\ step[w] = "ApplyPass"
    /\ InputsUnchanged(w)
    /\ CommitPlan(w)
    /\ step' = [step EXCEPT ![w] = "GC"]
    /\ plan' = [plan EXCEPT ![w] = EmptyPlan]
    /\ UNCHANGED <<clock, ruleVars, epg, inputVars, originals, revision, lost,
                   syncVars, syncs, faults>>

(* Mutant: one retry too many. *)
RollbackPassOnceMore(w) ==
    /\ step[w] = "ApplyPass"
    /\ ~InputsUnchanged(w)
    /\ LET mismatches == plan[w].mismatches + 1
       IN  IF mismatches <= MaxMismatches + 1
           THEN /\ step' = [step EXCEPT ![w] = "GetRevision"]
                /\ plan' = [plan EXCEPT ![w] = [EmptyPlan EXCEPT !.mismatches = mismatches]]
           ELSE /\ step' = [step EXCEPT ![w] = "GC"]
                /\ plan' = [plan EXCEPT ![w] = EmptyPlan]
    /\ UNCHANGED <<storeVars, syncVars, syncs, faults, breaker>>

(* The inputs changed: everything is rolled back, the trip included.  The
   pass reads again, or gives the site up until its next job. *)
RollbackPass(w) ==
    /\ step[w] = "ApplyPass"
    /\ ~InputsUnchanged(w)
    /\ LET mismatches == plan[w].mismatches + 1
       IN  IF mismatches < MaxMismatches
           THEN /\ step' = [step EXCEPT ![w] = "GetRevision"]
                /\ plan' = [plan EXCEPT ![w] = [EmptyPlan EXCEPT !.mismatches = mismatches]]
           ELSE /\ step' = [step EXCEPT ![w] = "GC"]
                /\ plan' = [plan EXCEPT ![w] = EmptyPlan]
    /\ UNCHANGED <<storeVars, syncVars, syncs, faults, breaker>>

(* PruneEndedSnapshots: the foreign keys cascade to reservations, intents and
   overrides.  It bumps nothing. *)
Expired == {p \in Programs : snapshot[p] # Absent /\ snapshot[p] + 1 < clock - RetentionGrace}

GC(w) ==
    /\ step[w] = "GC"
    /\ step' = [step EXCEPT ![w] = "idle"]
    /\ snapshot' = [p \in Programs |-> IF p \in Expired THEN Absent ELSE snapshot[p]]
    /\ intent' = [p \in Programs |-> IF p \in Expired THEN "none" ELSE intent[p]]
    /\ overrides' = overrides \ Expired
    /\ reservation' = [p \in Programs |-> IF p \in Expired THEN NoReservation ELSE reservation[p]]
    /\ RecordLoss("gc")
    /\ UNCHANGED <<clock, ruleVars, epg, originals, revision,
                   syncVars, syncs, faults, plan, breaker>>

(* Evaluating a rule that was deleted under the pass fails the pass, which
   still collects garbage. *)
MatchDeletedRule(w, r) ==
    /\ step[w] = "MatchRules"
    /\ NextRule(w, r) /\ rule[r] = "deleted"
    /\ step' = [step EXCEPT ![w] = "GC"]
    /\ plan' = [plan EXCEPT ![w] = EmptyPlan]
    /\ UNCHANGED <<storeVars, syncVars, syncs, faults, breaker>>

(* A query fails, with the same effect, or the process dies without GC. *)
PassFails(w) ==
    /\ step[w] \notin {"idle", "GC"} /\ faults < MaxFaults
    /\ faults' = faults + 1
    /\ step' \in {[step EXCEPT ![w] = "GC"], [step EXCEPT ![w] = "idle"]}
    /\ plan' = [plan EXCEPT ![w] = EmptyPlan]
    /\ UNCHANGED <<storeVars, syncVars, syncs, breaker>>

(* An operator clears the breaker after looking at what it held back. *)
Resume ==
    /\ breaker
    /\ breaker' = FALSE
    /\ UNCHANGED <<storeVars, syncVars, syncs, faults, step, plan>>

-----------------------------------------------------------------------------
RulerStep(w) ==
    \/ GetRevision(w) \/ ObserveBreaker(w) \/ ListEnabled(w)
    \/ \E r \in Rules : MatchRule(w, r) \/ MatchDeletedRule(w, r)
    \/ ListIntents(w) \/ ListInvestments(w) \/ ListFulfilled(w)
    \/ ListReservations(w) \/ ListProjected(w)
    \/ ApplyPass(w) \/ RollbackPass(w) \/ GC(w)

Environment ==
    /\ ApiWrite \/ Tick \/ \E p \in Programs : CommitOriginal(p)
    /\ UNCHANGED <<syncVars, syncs, faults, rulerVars>>

Sync == (SyncBegin \/ SyncStep \/ SyncFail) /\ UNCHANGED rulerVars

Next ==
    \/ \E w \in Rulers : RulerStep(w) \/ PassFails(w)
    \/ Sync
    \/ Environment
    \/ Resume

Spec == Init /\ [][Next]_vars

(* A pass that is queued runs, its queries are answered, and a sync goes on.
   Nothing makes users write, programs air, mirakc answer or operators act. *)
Fairness ==
    /\ \A w \in Rulers : WF_vars(RulerStep(w))
    /\ WF_vars(SyncStep /\ UNCHANGED rulerVars)

FairSpec == Spec /\ Fairness

-----------------------------------------------------------------------------
(* Safety. *)

(* A reservation without a rule belongs to a program that has, or once had,
   an investment: the ruler never invents a manual reservation. *)
RulelessWasInvested ==
    \A p \in Programs :
        reservation[p] = NoRule => p \in Investments \/ lost[p] # "never"

(* More precisely, an investment that only a user's write can have ended: it
   is why the deletions Released makes, which the breaker does not count, can
   only follow a user's write (internal/db/queries/ruler.sql:113-118). *)
RulelessLostByUser ==
    \A p \in Programs :
        reservation[p] = NoRule => p \in Investments \/ lost[p] = "user"

(* Reservations the pass removed because the rules and the EPG no longer
   asked for them: not collected, not fulfilled, not released, not removed
   with their rule. *)
DerivedRemovals ==
    {p \in Reserved \ Reserved' :
       /\ snapshot'[p] # Absent /\ p \notin originals
       /\ intent[p] = "none" /\ p \notin overrides
       /\ reservation[p] \in Rules /\ rule'[reservation[p]] # "deleted"}

(* While the breaker is tripped no derived deletion happens, whatever was
   read before it tripped (internal/breaker/breaker.go, applyRulerDeleteGuard). *)
BreakerHolds == [][breaker => DerivedRemovals = {}]_vars

(* No step removes more derived reservations than the limit: an EPG that lost
   a channel cannot empty the schedule (applyRulerDeleteGuard). *)
DerivedRemovalsBounded == [][Cardinality(DerivedRemovals) <= MaxDeletes]_vars

(* A program the user asked to record, or changed options of, keeps its
   reservation until it is recorded or its snapshot is collected, however
   stale the plan that is applied (DeleteReservationsBySiteAndProgramIDs). *)
InvestmentsKept ==
    [][\A p \in Reserved \ Reserved' :
          intent[p] = "record" \/ p \in overrides
             => p \in originals \/ snapshot'[p] = Absent]_vars

(* A pass that read the intents before the user skipped a program does not
   book it afterwards (ApplyPass compares the input revision last). *)
SkipsRespected ==
    [][\A p \in Reserved' \ Reserved :
          intent[p] = "skip" => p \in overrides]_vars

(* What a plan may still rely on, at the step that uses it. *)
ReadRevision == Steps \ {"idle", "GetRevision", "GC"}
ReadIntents == {"ListInvestments", "ListFulfilled", "ListReservations",
                "ListProjected", "ApplyPass"}
ReadInvestments == ReadIntents \ {"ListInvestments"}

RevisionBehind(w) == step[w] \in ReadRevision => plan[w].revision <= revision

SkipsSeen(w) ==
    step[w] \in ReadIntents /\ InputsUnchanged(w)
       => \A p \in Programs : intent[p] = "skip" => p \in plan[w].skips

InvestmentsStand(w) ==
    step[w] \in ReadInvestments /\ InputsUnchanged(w)
       => \A p \in plan[w].investments :
             p \in Investments \/ (lost[p] # "never" /\ intent[p] = "none")

DeletesUndesired(w) == step[w] = "ApplyPass" => plan[w].deletes \cap Desired(w) = {}

PlanValid(w) ==
    RevisionBehind(w) /\ SkipsSeen(w) /\ InvestmentsStand(w) /\ DeletesUndesired(w)

(* As long as the revision is the one a pass read, nothing a user wrote
   makes its plan wrong: every skip is in it, and an investment in it that is
   gone was collected.  This is what comparing a single number buys. *)
PlansValid == \A w \in Rulers : PlanValid(w)

-----------------------------------------------------------------------------
(* Liveness. *)

(* What a full evaluation of the current inputs gives a projected program. *)
Winners(p) ==
    {r \in EnabledRules : p \in accepts[r] /\ \A s \in EnabledRules :
                             p \in accepts[s] => Rank[r] <= Rank[s]}

Target(p) ==
    IF p \in originals THEN {NoReservation}
    ELSE IF Winners(p) # {} /\ (intent[p] # "skip" \/ p \in overrides) THEN Winners(p)
    ELSE IF p \in Investments THEN {NoRule} ELSE {NoReservation}

Aired(p) == epg[p] + 1 < clock - RetentionGrace

(* Derived deletions, the ones the grace and the breaker hold back. *)
Derived(p) ==
    /\ reservation[p] \in Rules /\ Target(p) = {NoReservation}
    /\ p \notin originals /\ intent[p] # "skip"

Due == {p \in Programs : Derived(p) /\ epg[p] # Absent /\ ~GraceProtected(p)}

HeldBack(p) ==
    Derived(p) /\ (GraceProtected(p) \/ breaker \/ Cardinality(Due) > MaxDeletes)

(* Whatever was lost, raced or rolled back on the way, once the inputs stop
   changing the reservations become what a full evaluation gives: passes are
   level triggered.  Exceptions: a program gone from the EPG (frozen) or about
   to be collected, and deletions held back by the grace or by the breaker,
   which trips again after every resumption while too many are due. *)
Converges ==
    <>[](\A p \in Programs :
            \/ epg[p] = Absent \/ Aired(p) \/ HeldBack(p)
            \/ reservation[p] \in Target(p))

(* A skipped program is eventually not reserved, even just before it starts
   and even while the breaker is tripped, unless the user changes their mind
   or the program leaves the EPG (which freezes it until it returns). *)
SkipReleases ==
    \A p \in Touched :
        (intent[p] = "skip" /\ p \notin overrides)
          ~> (\/ p \notin Reserved \/ intent[p] # "skip" \/ p \in overrides
              \/ epg[p] = Absent)

=============================================================================
