-------------------------- MODULE ReconcilePassProofs --------------------------
(***************************************************************************)
(* What the reconciler may do to mirakc's schedules, for any number of     *)
(* passes, programs and faults: proofs about ReconcilePass.                *)
(*                                                                         *)
(* A pass acts on a plan that is as old as its listing.  What still holds  *)
(* of the plan when it is carried out is PlanTrue; only the latch of the   *)
(* breaker depends on passes not overlapping.                              *)
(***************************************************************************)
EXTENDS ReconcilePass, TLAPS, FiniteSetTheorems

-----------------------------------------------------------------------------
(* The invariant. *)

Evaluated == {"Create", "Delete", "Recreate", "RecreatePost"}

(* What holds of the plan v of a pass that is at this step, long after the
   listing. *)
PlanTrue(at, v) ==
    /\ v.now <= clock
    /\ at \in Evaluated =>
          \A p \in Programs : v.decided[p] \in {Absent, Skip} => p \in declined
    /\ at = "Create" => \A p \in v.pending : v.decided[p] \in Options
    /\ at = "Delete" => v.pending \subseteq declined
    /\ at \in {"Recreate", "RecreatePost"} =>
          \A p \in v.pending : v.decided[p] \in Options /\ v.observed[p] # NoSchedule
    /\ at = "Never" => \A p \in v.pending : ProgramEnded(p, clock)

PlansInv == \A w \in Passes : PlanTrue(step[w], view[w])

DeclinedInv ==
    /\ \A p \in Programs : decision[p] \in {Absent, Skip} => p \in declined
    /\ never \subseteq declined

(* A program is given up as never scheduled only after its end. *)
NeverMeansEnded == \A p \in never : ProgramEnded(p, clock)

Inv == TypeOK /\ PlansInv /\ DeclinedInv /\ NeverMeansEnded

(* One pass at a time: what a pass knows of the breaker, and what it still
   deletes. *)
OnePass == \A v, w \in Passes : v = w

LatchTrue(at, v) ==
    /\ at \in {"ListSchedules", "ListDesired", "Create"} /\ breaker => v.tripped
    /\ at = "Delete" /\ breaker => v.pending = {}

LatchInv == \A w \in Passes : LatchTrue(step[w], view[w])

-----------------------------------------------------------------------------
(* Plans. *)

(* The clock goes on, and what was once declined stays declined. *)
Later == clock' \in 0..MaxClock /\ clock <= clock' /\ declined \subseteq declined'

LEMMA EndedStays ==
  ASSUME TypeOK, Later, NEW p \in Programs, ProgramEnded(p, clock)
  PROVE  ProgramEnded(p, clock')
<1>1. clock \in Nat /\ clock' \in Nat /\ End[p] \in Nat
  BY ReconcileAssumption DEF TypeOK, Later
<1> QED BY <1>1 DEF ProgramEnded, Later

(* A plan is as true later as it is now. *)
LEMMA PlanStays ==
  ASSUME TypeOK, Later, NEW at, NEW v \in Views, PlanTrue(at, v)
  PROVE  /\ v.now <= clock'
         /\ at \in Evaluated =>
               \A p \in Programs : v.decided[p] \in {Absent, Skip} => p \in declined'
         /\ at = "Create" => \A p \in v.pending : v.decided[p] \in Options
         /\ at = "Delete" => v.pending \subseteq declined'
         /\ at \in {"Recreate", "RecreatePost"} =>
               \A p \in v.pending : v.decided[p] \in Options /\ v.observed[p] # NoSchedule
         /\ at = "Never" => \A p \in v.pending : ProgramEnded(p, clock')
<1>1. v.now \in Nat /\ clock \in Nat /\ clock' \in Nat /\ v.pending \subseteq Programs
  BY ReconcileAssumption DEF Views, TypeOK, Later
<1>2. v.now <= clock'
  BY <1>1 DEF PlanTrue, Later
<1>3. at = "Never" => \A p \in v.pending : ProgramEnded(p, clock')
  BY <1>1, EndedStays DEF PlanTrue
<1> QED BY <1>2, <1>3 DEF PlanTrue, Later

LEMMA PlansStay ==
  ASSUME TypeOK, PlansInv, Later, UNCHANGED <<step, view>>
  PROVE  PlansInv'
<1>1. \A w \in Passes : view[w] \in Views /\ PlanTrue(step[w], view[w])
  BY DEF TypeOK, PlansInv
<1> QED BY <1>1, PlanStays DEF PlansInv, PlanTrue

(* Where a pass goes, its new plan is one, and is true. *)
LEMMA PassGoes ==
  ASSUME TypeOK, PlansInv, Later, NEW w \in Passes, NEW to \in Steps, NEW v \in Views,
         Goto(w, to, v), PlanTrue(to, v)
  PROVE  step' \in [Passes -> Steps] /\ view' \in [Passes -> Views] /\ PlansInv'
<1>1. step' \in [Passes -> Steps] /\ view' \in [Passes -> Views]
  BY DEF TypeOK, Goto
<1>2. /\ step'[w] = to /\ \A u \in Passes \ {w} : step'[u] = step[u]
      /\ view'[w] = v /\ \A u \in Passes \ {w} : view'[u] = view[u]
  BY DEF TypeOK, Goto
<1>3. \A u \in Passes : view[u] \in Views /\ PlanTrue(step[u], view[u])
  BY DEF TypeOK, PlansInv
<1> QED BY <1>1, <1>2, <1>3, PlanStays DEF PlansInv, PlanTrue

LEMMA FaultType == TypeOK /\ Fault => faults' \in 0..MaxFaults
BY ReconcileAssumption DEF TypeOK, Fault

LEMMA EmptyViewIsTrue ==
  ASSUME TypeOK, NEW b \in BOOLEAN
  PROVE  LET v == [EmptyView EXCEPT !.tripped = b] IN
         v \in Views /\ v.tripped = b /\ v.pending = {} /\ v.now <= clock
<1>1. EmptyView \in Views
  BY ReconcileAssumption DEF EmptyView, Views, Decisions
<1>2. EmptyView.pending = {} /\ EmptyView.now = 0 /\ 0 <= clock
  BY DEF EmptyView, TypeOK
<1> QED BY <1>1, <1>2 DEF Views

LEMMA EmptyViewIsView ==
  ASSUME TypeOK
  PROVE  EmptyView \in Views /\ EmptyView.pending = {} /\ EmptyView.now <= clock
BY ReconcileAssumption DEF EmptyView, Views, Decisions, TypeOK

(* The same plan with less to do, or with nothing to do. *)
LEMMA LessToDo ==
  ASSUME TypeOK, PlansInv, NEW w \in Passes, NEW p
  PROVE  LET v == [view[w] EXCEPT !.pending = @ \ {p}] IN
         /\ v \in Views /\ v.pending = view[w].pending \ {p}
         /\ v.observed = view[w].observed /\ v.decided = view[w].decided
         /\ v.tripped = view[w].tripped
         /\ PlanTrue(step[w], v)
         /\ step[w] = "RecreatePost" => PlanTrue("Recreate", v)
<1> DEFINE v == [view[w] EXCEPT !.pending = @ \ {p}]
<1>1. view[w] \in Views /\ PlanTrue(step[w], view[w])
  BY DEF TypeOK, PlansInv
<1>2. /\ v \in Views /\ v.pending = view[w].pending \ {p}
      /\ v.observed = view[w].observed /\ v.decided = view[w].decided
      /\ v.now = view[w].now /\ v.tripped = view[w].tripped
  BY <1>1 DEF Views
<1> HIDE DEF v
<1>3. PlanTrue(step[w], v)
  BY <1>1, <1>2 DEF PlanTrue
<1>4. step[w] = "RecreatePost" => PlanTrue("Recreate", v)
  BY <1>1, <1>2 DEF PlanTrue, Evaluated
<1> QED BY <1>2, <1>3, <1>4 DEF v

(* A schedule of ours that mirakc is asked for is a schedule. *)
LEMMA ScheduledIsASchedule ==
  ASSUME NEW p \in Programs, NEW o \in Options, NEW path \in ExplicitPaths \cup Titles
  PROVE  Scheduled(p, o.priority, path) \in Schedules
         /\ Scheduled(p, o.priority, path).path = path
BY DEF Scheduled, Schedules, States

LEMMA PathOfOptions ==
  ASSUME TypeOK, NEW w \in Passes, NEW p \in Programs, view[w].decided[p] \in Options
  PROVE  /\ NewPath(w, p) \in ExplicitPaths \cup Titles
         /\ view[w].observed[p] # NoSchedule =>
               /\ CarriedPath(w, p) \in ExplicitPaths \cup Titles
               /\ CarriedPath(w, p) \in {view[w].observed[p].path} \cup ExplicitPaths
<1> DEFINE o == view[w].decided[p]
<1>1. o.path # Generated => o.path \in ExplicitPaths
  BY DEF ExplicitPaths
<1>2. title[p] \in Titles
  BY DEF TypeOK
<1>3. view[w].observed[p] # NoSchedule => view[w].observed[p].path \in ExplicitPaths \cup Titles
  <2>1. view[w].observed[p] \in Schedules \cup {NoSchedule}
    BY DEF TypeOK, Views
  <2> QED BY <2>1 DEF Schedules
<1> QED BY <1>1, <1>2, <1>3 DEF NewPath, CarriedPath

-----------------------------------------------------------------------------
(* The steps of a pass. *)

SchedulesOK ==
    /\ schedule \in [Programs -> Schedules \cup {NoSchedule}]
    /\ first \in [Programs -> ExplicitPaths \cup Titles \cup {NoSchedule}]

LEMMA SchedulesGo ==
  ASSUME SchedulesOK, NEW p \in Programs, NEW s \in Schedules \cup {NoSchedule},
         schedule' = schedule \/ schedule' = [schedule EXCEPT ![p] = s], UNCHANGED first
  PROVE  SchedulesOK'
BY DEF SchedulesOK

(* p has a schedule of ours if it had none, and is remembered under its first
   path. *)
Posted(p, path) ==
    /\ \A q \in Programs \ {p} : schedule'[q] = schedule[q] /\ first'[q] = first[q]
    /\ schedule[p] # NoSchedule => schedule'[p] = schedule[p] /\ first'[p] = first[p]
    /\ schedule[p] = NoSchedule =>
          /\ schedule'[p] # NoSchedule /\ schedule'[p].ours /\ schedule'[p].path = path
          /\ first'[p] = first[p] \/ (first[p] = NoSchedule /\ first'[p] = path)

LEMMA PostGoes ==
  ASSUME SchedulesOK, NEW p \in Programs, NEW o \in Options,
         NEW path \in ExplicitPaths \cup Titles, Post(p, o.priority, path)
  PROVE  SchedulesOK' /\ Posted(p, path)
<1> DEFINE s == Scheduled(p, o.priority, path)
<1>1. s \in Schedules /\ s.path = path /\ s.ours
  BY ScheduledIsASchedule DEF Scheduled
<1>2. /\ schedule' = schedule \/ schedule' = [schedule EXCEPT ![p] = s]
      /\ first' = first \/ first' = [first EXCEPT ![p] = path]
      /\ schedule[p] # NoSchedule => schedule' = schedule /\ first' = first
      /\ schedule[p] = NoSchedule => schedule' = [schedule EXCEPT ![p] = s]
      /\ first[p] # NoSchedule => first' = first
  BY DEF Post
<1> HIDE DEF s
<1>3. SchedulesOK'
  BY <1>1, <1>2 DEF SchedulesOK
<1>4. \A q \in Programs \ {p} : schedule'[q] = schedule[q] /\ first'[q] = first[q]
  BY <1>2 DEF SchedulesOK
<1>5. first'[p] = first[p] \/ (first[p] = NoSchedule /\ first'[p] = path)
  BY <1>2 DEF SchedulesOK
<1>6. schedule[p] = NoSchedule => schedule'[p] = s
  BY <1>2 DEF SchedulesOK
<1>7. s # NoSchedule
  BY <1>1, NoScheduleAssumption
<1> QED BY <1>1, <1>2, <1>3, <1>4, <1>5, <1>6, <1>7 DEF Posted

(* A step of a pass that leaves the clock and the database alone. *)
LEMMA PassKeeps ==
  ASSUME Inv, UNCHANGED <<clock, dbVars>>, SchedulesOK', faults' \in 0..MaxFaults,
         NEW w \in Passes, NEW to \in Steps, NEW v \in Views, Goto(w, to, v), PlanTrue(to, v)
  PROVE  Inv'
<1>1. Later
  BY DEF Later, Inv, TypeOK, dbVars
<1>2. step' \in [Passes -> Steps] /\ view' \in [Passes -> Views] /\ PlansInv'
  BY <1>1, PassGoes DEF Inv
<1>3. TypeOK'
  BY <1>2 DEF Inv, TypeOK, dbVars, SchedulesOK
<1>4. DeclinedInv' /\ NeverMeansEnded'
  BY DEF Inv, DeclinedInv, NeverMeansEnded, dbVars
<1> QED BY <1>2, <1>3, <1>4 DEF Inv

LEMMA SchedulesUnchanged == Inv /\ UNCHANGED <<schedule, first>> => SchedulesOK'
BY DEF Inv, TypeOK, SchedulesOK

LEMMA FaultsUnchanged == Inv /\ UNCHANGED faults => faults' \in 0..MaxFaults
BY DEF Inv, TypeOK

LEMMA ObserveBreakerKeeps ==
  ASSUME Inv, NEW w \in Passes, ObserveBreaker(w)
  PROVE  Inv'
<1> DEFINE v(b) == [EmptyView EXCEPT !.tripped = b]
<1>1. PICK b \in BOOLEAN : Goto(w, "ListSchedules", v(b)) /\ (Fault \/ UNCHANGED faults)
  BY DEF ObserveBreaker, Inv, TypeOK
<1>2. v(b) \in Views /\ v(b).pending = {} /\ v(b).now <= clock
  BY EmptyViewIsTrue DEF Inv
<1> HIDE DEF v
<1>3. PlanTrue("ListSchedules", v(b)) /\ "ListSchedules" \in Steps
  BY <1>2 DEF PlanTrue, Evaluated, Steps
<1>4. faults' \in 0..MaxFaults
  BY <1>1, FaultType, FaultsUnchanged DEF Inv
<1> QED BY <1>1, <1>2, <1>3, <1>4, SchedulesUnchanged, PassKeeps DEF ObserveBreaker

LEMMA ListSchedulesKeeps ==
  ASSUME Inv, NEW w \in Passes, ListSchedules(w)
  PROVE  Inv'
<1> DEFINE v == [view[w] EXCEPT !.observed = schedule]
<1>1. Goto(w, "ListDesired", v) /\ UNCHANGED <<clock, dbVars, schedule, first, faults>>
  BY DEF ListSchedules
<1>2. view[w] \in Views /\ PlanTrue(step[w], view[w]) /\ SchedulesOK
  BY DEF Inv, TypeOK, PlansInv, SchedulesOK
<1>3. v \in Views /\ v.now = view[w].now
  BY <1>2 DEF Views, SchedulesOK
<1> HIDE DEF v
<1>4. PlanTrue("ListDesired", v) /\ "ListDesired" \in Steps
  BY <1>2, <1>3 DEF PlanTrue, Evaluated, Steps
<1> QED BY <1>1, <1>3, <1>4, SchedulesUnchanged, FaultsUnchanged, PassKeeps

LEMMA ListDesiredKeeps ==
  ASSUME Inv, NEW w \in Passes, ListDesired(w)
  PROVE  Inv'
<1> DEFINE decided == [p \in Programs |-> IF p \in never THEN Absent ELSE decision[p]]
           S == ToCreate(w, decided, clock)
           v == [view[w] EXCEPT !.decided = decided, !.now = clock, !.pending = S]
<1>1. Goto(w, "Create", v) /\ UNCHANGED <<clock, dbVars, schedule, first, faults>>
  BY DEF ListDesired
<1>2. view[w] \in Views /\ clock \in 0..MaxClock
  BY DEF Inv, TypeOK
<1>3. decided \in [Programs -> Decisions]
  BY DEF Inv, TypeOK, Decisions
<1>4. \A p \in Programs : decided[p] \in {Absent, Skip} => p \in declined
  BY DEF Inv, DeclinedInv
<1>5. S \subseteq Programs /\ \A p \in S : decided[p] \in Options
  BY DEF ToCreate
<1> HIDE DEF decided, S
<1>6. v \in Views /\ v.decided = decided /\ v.now = clock /\ v.pending = S
  BY <1>2, <1>3, <1>5 DEF Views
<1> HIDE DEF v
<1>7. clock <= clock
  BY <1>2
<1>8. PlanTrue("Create", v) /\ "Create" \in Steps
  BY <1>4, <1>5, <1>6, <1>7 DEF PlanTrue, Evaluated, Steps
<1> QED BY <1>1, <1>6, <1>8, SchedulesUnchanged, FaultsUnchanged, PassKeeps

LEMMA CreateScheduleKeeps ==
  ASSUME Inv, NEW w \in Passes, NEW p \in Programs, CreateSchedule(w, p)
  PROVE  Inv'
<1> DEFINE v == [view[w] EXCEPT !.pending = @ \ {p}]
<1>1. /\ Goto(w, "Create", v) /\ UNCHANGED <<clock, dbVars, faults>>
      /\ step[w] = "Create" /\ p \in view[w].pending
      /\ Post(p, view[w].decided[p].priority, NewPath(w, p))
  BY DEF CreateSchedule
<1>2. v \in Views /\ PlanTrue("Create", v) /\ "Create" \in Steps
  BY <1>1, LessToDo DEF Inv, Steps
<1>3. view[w].decided[p] \in Options
  BY <1>1 DEF Inv, PlansInv, PlanTrue
<1> HIDE DEF v
<1>4. NewPath(w, p) \in ExplicitPaths \cup Titles
  BY <1>3, PathOfOptions DEF Inv
<1>5. SchedulesOK'
  BY <1>1, <1>3, <1>4, PostGoes DEF Inv, TypeOK, SchedulesOK
<1> QED BY <1>1, <1>2, <1>5, FaultsUnchanged, PassKeeps

(* What a pass would delete is declined: its reservation was looked for and
   evaluated, and is none or is skipped. *)
LEMMA DeletesAreDeclined ==
  ASSUME Inv, NEW w \in Passes, step[w] \in Evaluated
  PROVE  ToDelete(w) \subseteq Programs \cap declined
<1>1. view[w] \in Views /\ PlanTrue(step[w], view[w])
  BY DEF Inv, TypeOK, PlansInv
<1>2. \A p \in ToDelete(w) : p \in Programs /\ view[w].decided[p] \in {Absent, Skip}
  BY <1>1 DEF ToDelete, Desired, Unresolved, Views, Decisions
<1> QED BY <1>1, <1>2 DEF PlanTrue

(* The collected plan of deletions, withheld or not. *)
LEMMA DeletesKeep ==
  ASSUME Inv, NEW w \in Passes, step[w] = "Create", NEW b \in BOOLEAN,
         NEW S \in SUBSET ToDelete(w)
  PROVE  LET v == [view[w] EXCEPT !.tripped = b, !.pending = S] IN
         /\ v \in Views /\ v.tripped = b /\ v.pending = S
         /\ PlanTrue("Delete", v) /\ "Delete" \in Steps
<1> DEFINE v == [view[w] EXCEPT !.tripped = b, !.pending = S]
<1>1. view[w] \in Views /\ PlanTrue("Create", view[w])
  BY DEF Inv, TypeOK, PlansInv
<1>2. S \subseteq Programs /\ S \subseteq declined
  BY DeletesAreDeclined DEF Evaluated
<1>3. /\ v \in Views /\ v.pending = S /\ v.tripped = b
      /\ v.decided = view[w].decided /\ v.now = view[w].now
  BY <1>1, <1>2 DEF Views
<1> HIDE DEF v
<1>4. PlanTrue("Delete", v) /\ "Delete" \in Steps
  BY <1>1, <1>2, <1>3 DEF PlanTrue, Evaluated, Steps
<1> QED BY <1>3, <1>4 DEF v

LEMMA CollectDeletesKeeps ==
  ASSUME Inv, NEW w \in Passes, CollectDeletes(w)
  PROVE  Inv'
<1> DEFINE S == IF Withheld(w) THEN {} ELSE ToDelete(w)
           v == [view[w] EXCEPT !.tripped = Withheld(w), !.pending = S]
<1>1. /\ Goto(w, "Delete", v) /\ breaker' \in BOOLEAN /\ step[w] = "Create"
      /\ UNCHANGED <<clock, decision, title, never, recorded, decisions, declined,
                     schedule, first, faults>>
  BY DEF CollectDeletes, Inv, TypeOK
<1>2. Withheld(w) \in BOOLEAN
  BY DEF Withheld, TotalLoss, Inv, TypeOK, Views
<1>3. v \in Views /\ PlanTrue("Delete", v) /\ "Delete" \in Steps
  BY <1>1, <1>2, DeletesKeep
<1> HIDE DEF v
<1>4. Later
  BY <1>1 DEF Later, Inv, TypeOK
<1>5. step' \in [Passes -> Steps] /\ view' \in [Passes -> Views] /\ PlansInv'
  BY <1>1, <1>3, <1>4, PassGoes DEF Inv
<1>6. TypeOK' /\ DeclinedInv' /\ NeverMeansEnded'
  BY <1>1, <1>5 DEF Inv, TypeOK, DeclinedInv, NeverMeansEnded
<1> QED BY <1>5, <1>6 DEF Inv

LEMMA TripFailsKeeps ==
  ASSUME Inv, NEW w \in Passes, TripFails(w)
  PROVE  Inv'
<1> DEFINE v == [view[w] EXCEPT !.tripped = TRUE, !.pending = {}]
<1>1. Goto(w, "Delete", v) /\ UNCHANGED <<clock, dbVars, schedule, first>> /\ Fault
      /\ step[w] = "Create"
  BY DEF TripFails
<1>2. v \in Views /\ PlanTrue("Delete", v) /\ "Delete" \in Steps
  BY <1>1, DeletesKeep
<1> HIDE DEF v
<1> QED BY <1>1, <1>2, FaultType, SchedulesUnchanged, PassKeeps DEF Inv

LEMMA DeleteScheduleKeeps ==
  ASSUME Inv, NEW w \in Passes, NEW p \in Programs, DeleteSchedule(w, p)
  PROVE  Inv'
<1> DEFINE v == [view[w] EXCEPT !.pending = @ \ {p}]
<1>1. /\ Goto(w, "Delete", v) /\ UNCHANGED <<clock, dbVars, first, faults>> /\ step[w] = "Delete"
      /\ schedule' = [schedule EXCEPT ![p] = NoSchedule]
  BY DEF DeleteSchedule
<1>2. v \in Views /\ PlanTrue("Delete", v) /\ "Delete" \in Steps
  BY <1>1, LessToDo DEF Inv, Steps
<1>3. SchedulesOK'
  BY <1>1 DEF Inv, TypeOK, SchedulesOK
<1> HIDE DEF v
<1> QED BY <1>1, <1>2, <1>3, FaultsUnchanged, PassKeeps

LEMMA CollectRecreatesKeeps ==
  ASSUME Inv, NEW w \in Passes, CollectRecreates(w)
  PROVE  Inv'
<1> DEFINE v == [view[w] EXCEPT !.tripped = FALSE, !.pending = ToRecreate(w)]
<1>1. Goto(w, "Recreate", v) /\ UNCHANGED <<clock, dbVars, schedule, first, faults>>
      /\ step[w] = "Delete"
  BY DEF CollectRecreates
<1>2. view[w] \in Views /\ PlanTrue("Delete", view[w])
  BY <1>1 DEF Inv, TypeOK, PlansInv
<1>3. ToRecreate(w) \in SUBSET Programs /\ \A p \in ToRecreate(w) :
         view[w].decided[p] \in Options /\ view[w].observed[p] # NoSchedule
  BY DEF ToRecreate, Eligible, Desired, Observed
<1>4. /\ v \in Views /\ v.pending = ToRecreate(w) /\ v.observed = view[w].observed
      /\ v.decided = view[w].decided /\ v.now = view[w].now
  BY <1>2, <1>3 DEF Views
<1> HIDE DEF v
<1>5. PlanTrue("Recreate", v) /\ "Recreate" \in Steps
  BY <1>2, <1>3, <1>4 DEF PlanTrue, Evaluated, Steps
<1> QED BY <1>1, <1>4, <1>5, SchedulesUnchanged, FaultsUnchanged, PassKeeps

LEMMA RecreateDeleteKeeps ==
  ASSUME Inv, NEW w \in Passes, NEW p \in Programs, RecreateDelete(w, p)
  PROVE  Inv'
<1>1. /\ UNCHANGED <<clock, dbVars, first, faults>> /\ step[w] = "Recreate"
      /\ schedule' = [schedule EXCEPT ![p] = NoSchedule]
      /\ \/ Goto(w, "Recreate", [view[w] EXCEPT !.pending = @ \ {p}])
         \/ Goto(w, "RecreatePost", view[w])
  BY DEF RecreateDelete
<1>2. SchedulesOK'
  BY <1>1 DEF Inv, TypeOK, SchedulesOK
<1>3. CASE Goto(w, "Recreate", [view[w] EXCEPT !.pending = @ \ {p}])
  <2> DEFINE v == [view[w] EXCEPT !.pending = @ \ {p}]
  <2>1. v \in Views /\ PlanTrue("Recreate", v) /\ "Recreate" \in Steps
    BY <1>1, LessToDo DEF Inv, Steps
  <2>2. Goto(w, "Recreate", v)
    BY <1>3
  <2> HIDE DEF v
  <2> QED BY <1>1, <1>2, <2>1, <2>2, FaultsUnchanged, PassKeeps
<1>4. CASE Goto(w, "RecreatePost", view[w])
  <2>1. view[w] \in Views /\ PlanTrue("Recreate", view[w])
    BY <1>1 DEF Inv, TypeOK, PlansInv
  <2>2. PlanTrue("RecreatePost", view[w]) /\ "RecreatePost" \in Steps
    BY <2>1 DEF PlanTrue, Evaluated, Steps
  <2> QED BY <1>1, <1>2, <1>4, <2>1, <2>2, FaultsUnchanged, PassKeeps
<1> QED BY <1>1, <1>3, <1>4

LEMMA RecreatePostKeeps ==
  ASSUME Inv, NEW w \in Passes, NEW p \in Programs, RecreatePost(w, p)
  PROVE  Inv'
<1> DEFINE v == [view[w] EXCEPT !.pending = @ \ {p}]
<1>1. /\ Goto(w, "Recreate", v) /\ UNCHANGED <<clock, dbVars, faults>>
      /\ step[w] = "RecreatePost" /\ p \in view[w].pending
      /\ Post(p, view[w].decided[p].priority, CarriedPath(w, p))
  BY DEF RecreatePost, IsNext
<1>2. v \in Views /\ PlanTrue("Recreate", v) /\ "Recreate" \in Steps
  BY <1>1, LessToDo DEF Inv, Steps
<1>3. view[w].decided[p] \in Options /\ view[w].observed[p] # NoSchedule
  BY <1>1 DEF Inv, PlansInv, PlanTrue
<1> HIDE DEF v
<1>4. CarriedPath(w, p) \in ExplicitPaths \cup Titles
  BY <1>3, PathOfOptions DEF Inv
<1>5. SchedulesOK'
  BY <1>1, <1>3, <1>4, PostGoes DEF Inv, TypeOK, SchedulesOK
<1> QED BY <1>1, <1>2, <1>5, FaultsUnchanged, PassKeeps

LEMMA CollectNeverKeeps ==
  ASSUME Inv, NEW w \in Passes, CollectNever(w)
  PROVE  Inv'
<1> DEFINE v == [EmptyView EXCEPT !.pending = ToRecordNever(w)]
<1>1. Goto(w, "Never", v) /\ UNCHANGED <<clock, dbVars, schedule, first, faults>>
      /\ step[w] = "Recreate"
  BY DEF CollectNever
<1>2. view[w] \in Views /\ PlanTrue("Recreate", view[w])
  BY <1>1 DEF Inv, TypeOK, PlansInv
<1>3. ToRecordNever(w) \in SUBSET Programs
  BY DEF ToRecordNever, Desired
<1>4. \A p \in ToRecordNever(w) : ProgramEnded(p, clock)
  <2> SUFFICES ASSUME NEW p \in ToRecordNever(w)
               PROVE  ProgramEnded(p, clock)
    OBVIOUS
  <2>1. p \in Programs /\ End[p] < view[w].now
    BY DEF ToRecordNever, Desired, ProgramEnded
  <2>2. End[p] \in Nat /\ view[w].now \in Nat /\ clock \in Nat /\ view[w].now <= clock
    BY <1>2, <2>1, ReconcileAssumption DEF Inv, TypeOK, Views, PlanTrue
  <2> QED BY <2>1, <2>2 DEF ProgramEnded
<1>5. v \in Views /\ v.pending = ToRecordNever(w) /\ v.now <= clock
  BY <1>3, EmptyViewIsView DEF Inv, Views
<1> HIDE DEF v
<1>6. PlanTrue("Never", v) /\ "Never" \in Steps
  BY <1>4, <1>5 DEF PlanTrue, Evaluated, Steps
<1> QED BY <1>1, <1>5, <1>6, SchedulesUnchanged, FaultsUnchanged, PassKeeps

LEMMA RecordNeverScheduledKeeps ==
  ASSUME Inv, NEW w \in Passes, NEW p \in Programs, RecordNeverScheduled(w, p)
  PROVE  Inv'
<1> DEFINE v == [view[w] EXCEPT !.pending = @ \ {p}]
<1>1. /\ Goto(w, "Never", v) /\ step[w] = "Never" /\ p \in view[w].pending
      /\ UNCHANGED <<clock, decision, title, recorded, breaker, decisions, schedule, first, faults>>
      /\ \/ UNCHANGED <<never, declined>>
         \/ never' = never \cup {p} /\ declined' = declined \cup {p}
  BY DEF RecordNeverScheduled
<1>2. v \in Views /\ PlanTrue("Never", v) /\ "Never" \in Steps
  BY <1>1, LessToDo DEF Inv, Steps
<1>3. ProgramEnded(p, clock)
  BY <1>1 DEF Inv, PlansInv, PlanTrue
<1> HIDE DEF v
<1>4. Later
  BY <1>1 DEF Later, Inv, TypeOK
<1>5. step' \in [Passes -> Steps] /\ view' \in [Passes -> Views] /\ PlansInv'
  BY <1>1, <1>2, <1>4, PassGoes DEF Inv
<1>6. TypeOK'
  BY <1>1, <1>5 DEF Inv, TypeOK
<1>7. DeclinedInv' /\ NeverMeansEnded'
  BY <1>1, <1>3 DEF Inv, DeclinedInv, NeverMeansEnded
<1> QED BY <1>5, <1>6, <1>7 DEF Inv

LEMMA PassEndsKeeps ==
  ASSUME Inv, NEW w \in Passes, EndPass(w) \/ PassFails(w)
  PROVE  Inv'
<1>1. /\ Goto(w, "idle", EmptyView) /\ UNCHANGED <<clock, dbVars, schedule, first>>
      /\ Fault \/ UNCHANGED faults
  BY DEF EndPass, PassFails
<1>2. EmptyView \in Views /\ PlanTrue("idle", EmptyView) /\ "idle" \in Steps
  BY EmptyViewIsView DEF Inv, PlanTrue, Evaluated, Steps
<1>3. faults' \in 0..MaxFaults
  BY <1>1, FaultType, FaultsUnchanged DEF Inv
<1> QED BY <1>1, <1>2, <1>3, SchedulesUnchanged, PassKeeps

LEMMA CallFailsKeeps ==
  ASSUME Inv, NEW w \in Passes, NEW p \in Programs, CallFails(w, p)
  PROVE  Inv'
<1> DEFINE v == [view[w] EXCEPT !.pending = @ \ {p}]
           to == IF step[w] = "RecreatePost" THEN "Recreate" ELSE step[w]
<1>1. Goto(w, to, v) /\ UNCHANGED <<clock, dbVars, schedule, first>> /\ Fault
  BY DEF CallFails
<1>2. v \in Views /\ PlanTrue(to, v)
  BY LessToDo DEF Inv
<1>3. to \in Steps
  BY DEF Inv, TypeOK, Steps
<1> HIDE DEF v, to
<1> QED BY <1>1, <1>2, <1>3, FaultType, SchedulesUnchanged, PassKeeps DEF Inv

-----------------------------------------------------------------------------
(* Everyone else. *)

(* A step that is no pass's. *)
LEMMA OthersKeep ==
  ASSUME Inv, Later, UNCHANGED <<step, view, never>>, SchedulesOK',
         faults' \in 0..MaxFaults, decisions' \in 0..MaxDecisions, declined' \subseteq Programs,
         decision' \in [Programs -> Decisions], title' \in [Programs -> Titles],
         recorded' \subseteq Programs, breaker' \in BOOLEAN,
         \A p \in Programs : decision'[p] \in {Absent, Skip} => p \in declined'
  PROVE  Inv'
<1>1. PlansInv'
  BY PlansStay DEF Inv
<1>2. TypeOK'
  BY DEF Inv, TypeOK, SchedulesOK, Later
<1>3. DeclinedInv'
  BY DEF Inv, DeclinedInv, Later
<1>4. NeverMeansEnded'
  <2>1. \A p \in never : p \in Programs /\ ProgramEnded(p, clock)
    BY DEF Inv, TypeOK, NeverMeansEnded
  <2>2. \A p \in never : ProgramEnded(p, clock')
    BY <2>1, EndedStays DEF Inv
  <2> QED BY <2>2 DEF NeverMeansEnded
<1> QED BY <1>1, <1>2, <1>3, <1>4 DEF Inv

(* A step that only changes mirakc's schedules. *)
LEMMA MirakcKeeps ==
  ASSUME Inv, UNCHANGED <<clock, dbVars, step, view>>, SchedulesOK', faults' \in 0..MaxFaults
  PROVE  Inv'
<1>1. Later
  BY DEF Later, Inv, TypeOK, dbVars
<1>2. /\ decisions' \in 0..MaxDecisions /\ declined' \subseteq Programs
      /\ decision' \in [Programs -> Decisions] /\ title' \in [Programs -> Titles]
      /\ recorded' \subseteq Programs /\ breaker' \in BOOLEAN
  BY DEF Inv, TypeOK, dbVars
<1>3. \A p \in Programs : decision'[p] \in {Absent, Skip} => p \in declined'
  BY DEF Inv, DeclinedInv, dbVars
<1> QED BY <1>1, <1>2, <1>3, OthersKeep DEF dbVars

LEMMA DecisionsType ==
  Inv /\ decisions < MaxDecisions => decisions + 1 \in 0..MaxDecisions
BY ReconcileAssumption DEF Inv, TypeOK

LEMMA DecideKeeps ==
  ASSUME Inv, NEW p \in Programs, Decide(p)
  PROVE  Inv'
<1>1. PICK d \in Decisions :
         /\ decision' = [decision EXCEPT ![p] = d]
         /\ declined' = IF d \in {Absent, Skip} THEN declined \cup {p} ELSE declined
  BY DEF Decide
<1>2. UNCHANGED <<clock, title, never, recorded, breaker, schedule, first, step, view, faults>>
  BY DEF Decide
<1>3. Later
  BY <1>1, <1>2 DEF Later, Inv, TypeOK
<1>4. decisions' \in 0..MaxDecisions
  BY DecisionsType DEF Decide
<1>5. /\ declined' \subseteq Programs /\ decision' \in [Programs -> Decisions]
      /\ \A q \in Programs : decision'[q] \in {Absent, Skip} => q \in declined'
  BY <1>1 DEF Inv, TypeOK, DeclinedInv
<1>6. SchedulesOK' /\ faults' \in 0..MaxFaults
  BY <1>2, SchedulesUnchanged, FaultsUnchanged
<1>7. title' \in [Programs -> Titles] /\ recorded' \subseteq Programs /\ breaker' \in BOOLEAN
  BY <1>2 DEF Inv, TypeOK
<1> QED BY <1>2, <1>3, <1>4, <1>5, <1>6, <1>7, OthersKeep

(* Titles, records, the breaker and the clock: none of them a plan. *)
LEMMA SmallStepsKeep ==
  ASSUME Inv, (\E p \in Programs : Retitle(p) \/ ObserveRecord(p)) \/ Resume \/ Tick
  PROVE  Inv'
<1>1. /\ UNCHANGED <<decision, never, declined, schedule, first, step, view, faults>>
      /\ \/ clock' = clock
         \/ clock < MaxClock /\ clock' = clock + 1
      /\ \/ UNCHANGED decisions
         \/ decisions < MaxDecisions /\ decisions' = decisions + 1
  BY DEF Retitle, ObserveRecord, Resume, Tick, dbVars
<1>2. Later
  BY <1>1, ReconcileAssumption DEF Later, Inv, TypeOK
<1>3. decisions' \in 0..MaxDecisions
  BY <1>1, DecisionsType DEF Inv, TypeOK
<1>4. title' \in [Programs -> Titles] /\ recorded' \subseteq Programs /\ breaker' \in BOOLEAN
  BY DEF Retitle, ObserveRecord, Resume, Tick, dbVars, Inv, TypeOK
<1>5. SchedulesOK' /\ faults' \in 0..MaxFaults
  BY <1>1, SchedulesUnchanged, FaultsUnchanged
<1>6. /\ declined' \subseteq Programs /\ decision' \in [Programs -> Decisions]
      /\ \A q \in Programs : decision'[q] \in {Absent, Skip} => q \in declined'
  BY <1>1 DEF Inv, TypeOK, DeclinedInv
<1> QED BY <1>1, <1>2, <1>3, <1>4, <1>5, <1>6, OthersKeep

LEMMA MirakcStepKeeps ==
  ASSUME Inv, NEW p \in Programs, MirakcStep(p)
  PROVE  Inv'
<1>1. ASSUME NEW from, NEW to \in States, Moves(p, from, to)
      PROVE  Inv'
  <2> DEFINE s == [schedule[p] EXCEPT !.state = to]
  <2>1. /\ schedule[p] \in Schedules /\ schedule' = [schedule EXCEPT ![p] = s]
        /\ UNCHANGED first
    BY <1>1 DEF Moves, Inv, TypeOK
  <2>2. s \in Schedules
    BY <2>1 DEF Schedules
  <2> HIDE DEF s
  <2>3. SchedulesOK'
    BY <2>1, <2>2, SchedulesGo DEF Inv, TypeOK, SchedulesOK
  <2> QED BY <1>1, <2>3, FaultsUnchanged, MirakcKeeps DEF Moves
<1> QED BY <1>1 DEF MirakcStep, States

LEMMA ForeignIsASchedule ==
  ASSUME Inv, NEW p \in Programs
  PROVE  Foreign \in Schedules /\ ~Foreign.ours
<1>1. PICK o \in Options : TRUE
  BY ReconcileAssumption
<1>2. title[p] \in Titles
  BY DEF Inv, TypeOK
<1> DEFINE s == [state |-> "scheduled", ours |-> FALSE, priority |-> o.priority, path |-> title[p]]
<1>3. s \in Schedules /\ ~s.ours /\ s.state = "scheduled"
  BY <1>1, <1>2 DEF Schedules, States
<1> HIDE DEF s
<1> QED BY <1>3 DEF Foreign

LEMMA MeddleKeeps ==
  ASSUME Inv, NEW p \in Programs, Meddle(p)
  PROVE  Inv'
<1>1. UNCHANGED first /\ \E s \in Schedules \cup {NoSchedule} :
                              schedule' = [schedule EXCEPT ![p] = s]
  BY ForeignIsASchedule DEF Meddle
<1>2. SchedulesOK'
  BY <1>1, SchedulesGo DEF Inv, TypeOK, SchedulesOK
<1>3. faults' \in 0..MaxFaults
  BY FaultType DEF Meddle, Inv
<1> QED BY <1>2, <1>3, MirakcKeeps DEF Meddle

-----------------------------------------------------------------------------
(* The results. *)

LEMMA InitInv == Init => Inv
<1> SUFFICES ASSUME Init
             PROVE  Inv
  OBVIOUS
<1>1. EmptyView \in Views /\ EmptyView.pending = {} /\ EmptyView.now <= clock
  BY ReconcileAssumption DEF Init, EmptyView, Views, Decisions
<1>2. TypeOK
  <2>1. clock \in 0..MaxClock /\ decisions \in 0..MaxDecisions /\ faults \in 0..MaxFaults
    BY ReconcileAssumption DEF Init
  <2>2. decision \in [Programs -> Decisions] /\ title \in [Programs -> Titles]
        /\ never \subseteq Programs /\ recorded \subseteq Programs
        /\ breaker \in BOOLEAN /\ declined \subseteq Programs
    BY DEF Init
  <2>3. schedule \in [Programs -> Schedules \cup {NoSchedule}]
        /\ first \in [Programs -> ExplicitPaths \cup Titles \cup {NoSchedule}]
        /\ step \in [Passes -> Steps] /\ view \in [Passes -> Views]
    BY <1>1 DEF Init, Steps
  <2> QED BY <2>1, <2>2, <2>3 DEF TypeOK
<1>3. PlansInv
  BY <1>1 DEF Init, PlansInv, PlanTrue, Evaluated
<1>4. DeclinedInv /\ NeverMeansEnded
  BY DEF Init, DeclinedInv, NeverMeansEnded
<1> QED BY <1>2, <1>3, <1>4 DEF Inv

LEMMA EveryStepKeeps == Inv /\ [Next]_vars => Inv'
<1> SUFFICES ASSUME Inv, [Next]_vars
             PROVE  Inv'
  OBVIOUS
<1>1. ASSUME NEW w \in Passes, PassStep(w)
      PROVE  Inv'
  BY <1>1, ObserveBreakerKeeps, ListSchedulesKeeps, ListDesiredKeeps, CollectDeletesKeeps,
     CollectRecreatesKeeps, CollectNeverKeeps, PassEndsKeeps, CreateScheduleKeeps,
     DeleteScheduleKeeps, RecreateDeleteKeeps, RecreatePostKeeps, RecordNeverScheduledKeeps
     DEF PassStep
<1>2. ASSUME NEW w \in Passes, PassFault(w)
      PROVE  Inv'
  BY <1>2, TripFailsKeeps, PassEndsKeeps, CallFailsKeeps DEF PassFault
<1>3. CASE Others
  BY <1>3, DecideKeeps, SmallStepsKeep, MirakcStepKeeps, MeddleKeeps DEF Others
<1>4. CASE UNCHANGED vars
  <2>1. SchedulesOK' /\ faults' \in 0..MaxFaults
    BY <1>4, SchedulesUnchanged, FaultsUnchanged DEF vars
  <2> QED BY <1>4, <2>1, MirakcKeeps DEF vars
<1> QED BY <1>1, <1>2, <1>3, <1>4 DEF Next

(* The invariant of the plans, for any number of passes at once. *)
THEOREM InvHolds == Spec => []Inv
BY InitInv, EveryStepKeeps, PTL DEF Spec

(* The types of the reconciler's state. *)
THEOREM TypeCorrect == Spec => []TypeOK
<1>1. Inv => TypeOK
  BY DEF Inv
<1> QED BY InvHolds, <1>1, PTL

(* A never_scheduled_events row, which takes a program out of every later pass,
   is only written of a program that is over (recordNeverScheduled). *)
THEOREM GivenUpOnlyAfterTheEnd == Spec => []NeverMeansEnded
<1>1. Inv => NeverMeansEnded
  BY DEF Inv
<1> QED BY InvHolds, <1>1, PTL

(* No schedule is deleted that was wanted all along, whatever fails or changes
   in mid-pass and however many passes overlap (collectDeleteCandidates). *)
THEOREM DeletesOnlyDeclined == Spec => DeletedOnlyDeclined
<1>1. Inv /\ [Next]_vars =>
        [\A w \in Passes, p \in Programs : DeletedBy(w, p) => p \in declined]_vars
  BY DEF Inv, PlansInv, PlanTrue, DeletedBy
<1> QED BY InvHolds, <1>1, PTL DEF DeletedOnlyDeclined, Spec

-----------------------------------------------------------------------------
(* The latch, with one pass at a time. *)

(* A pass that goes on within a loop, or ends, knows of the breaker what it
   knew. *)
LEMMA LatchGoes ==
  ASSUME Inv, LatchInv, OnePass, NEW w \in Passes, NEW to, NEW v, Goto(w, to, v),
         /\ to \in {"ListSchedules", "ListDesired", "Create"} /\ breaker' => v.tripped
         /\ to = "Delete" /\ breaker' => v.pending = {}
  PROVE  LatchInv'
<1>1. step'[w] = to /\ view'[w] = v
  BY DEF Goto, Inv, TypeOK
<1> QED BY <1>1 DEF LatchInv, LatchTrue, OnePass

LEMMA LatchStays ==
  ASSUME LatchInv, UNCHANGED <<step, view>>, breaker' => breaker
  PROVE  LatchInv'
BY DEF LatchInv, LatchTrue

LEMMA LatchOfLessToDo ==
  ASSUME Inv, LatchInv, OnePass, NEW w \in Passes, NEW p, NEW to,
         Goto(w, to, [view[w] EXCEPT !.pending = @ \ {p}]), UNCHANGED breaker,
         to = step[w] \/ to = "Recreate"
  PROVE  LatchInv'
<1> DEFINE v == [view[w] EXCEPT !.pending = @ \ {p}]
<1>1. v.pending = view[w].pending \ {p} /\ v.tripped = view[w].tripped
  BY LessToDo DEF Inv
<1>2. LatchTrue(step[w], view[w])
  BY DEF LatchInv
<1>3. Goto(w, to, v)
  OBVIOUS
<1> HIDE DEF v
<1>4. /\ to \in {"ListSchedules", "ListDesired", "Create"} /\ breaker' => v.tripped
      /\ to = "Delete" /\ breaker' => v.pending = {}
  BY <1>1, <1>2 DEF LatchTrue
<1> QED BY <1>3, <1>4, LatchGoes

LEMMA LatchOfPassStep ==
  ASSUME Inv, LatchInv, OnePass, NEW w \in Passes, PassStep(w) \/ PassFault(w)
  PROVE  LatchInv'
<1>0. LatchTrue(step[w], view[w]) /\ view[w] \in Views
  BY DEF LatchInv, Inv, TypeOK
<1>1. CASE ObserveBreaker(w)
  <2> DEFINE v(b) == [EmptyView EXCEPT !.tripped = b]
  <2>1. PICK b \in BOOLEAN : /\ Goto(w, "ListSchedules", v(b)) /\ (breaker => b)
                             /\ UNCHANGED breaker
    BY <1>1 DEF ObserveBreaker, dbVars, Inv, TypeOK
  <2>2. v(b).tripped = b
    BY EmptyViewIsTrue DEF Inv
  <2> HIDE DEF v
  <2> QED BY <2>1, <2>2, LatchGoes
<1>2. CASE ListSchedules(w)
  <2> DEFINE v == [view[w] EXCEPT !.observed = schedule]
  <2>1. Goto(w, "ListDesired", v) /\ UNCHANGED breaker /\ step[w] = "ListSchedules"
    BY <1>2 DEF ListSchedules, dbVars
  <2>2. v.tripped = view[w].tripped
    BY <1>0 DEF Views
  <2> HIDE DEF v
  <2> QED BY <1>0, <2>1, <2>2, LatchGoes DEF LatchTrue
<1>3. CASE ListDesired(w)
  <2> DEFINE decided == [p \in Programs |-> IF p \in never THEN Absent ELSE decision[p]]
             S == ToCreate(w, decided, clock)
             v == [view[w] EXCEPT !.decided = decided, !.now = clock, !.pending = S]
  <2>1. Goto(w, "Create", v) /\ UNCHANGED breaker /\ step[w] = "ListDesired"
    BY <1>3 DEF ListDesired, dbVars
  <2> HIDE DEF decided, S
  <2>2. v.tripped = view[w].tripped
    BY <1>0 DEF Views
  <2> HIDE DEF v
  <2> QED BY <1>0, <2>1, <2>2, LatchGoes DEF LatchTrue
<1>4. CASE CollectDeletes(w)
  <2> DEFINE S == IF Withheld(w) THEN {} ELSE ToDelete(w)
             v == [view[w] EXCEPT !.tripped = Withheld(w), !.pending = S]
  <2>1. /\ Goto(w, "Delete", v) /\ breaker' = (breaker \/ TotalLoss(w)) /\ step[w] = "Create"
    BY <1>4 DEF CollectDeletes
  <2>2. breaker \/ TotalLoss(w) => Withheld(w)
    BY <1>0, <2>1 DEF Withheld, LatchTrue
  <2>3. breaker' => S = {}
    BY <2>1, <2>2
  <2> HIDE DEF S
  <2>4. v.pending = S
    BY <1>0 DEF Views
  <2> HIDE DEF v
  <2> QED BY <2>1, <2>3, <2>4, LatchGoes
<1>5. CASE TripFails(w)
  <2> DEFINE v == [view[w] EXCEPT !.tripped = TRUE, !.pending = {}]
  <2>1. Goto(w, "Delete", v)
    BY <1>5 DEF TripFails
  <2>2. v.pending = {}
    BY <1>0 DEF Views
  <2> HIDE DEF v
  <2> QED BY <2>1, <2>2, LatchGoes
<1>6. CASE CollectRecreates(w) \/ CollectNever(w) \/ EndPass(w) \/ PassFails(w)
  <2>1. PICK to \in {"Recreate", "Never", "idle"} : \E v : Goto(w, to, v)
    BY <1>6 DEF CollectRecreates, CollectNever, EndPass, PassFails
  <2> QED BY <2>1, LatchGoes
<1>7. ASSUME NEW p \in Programs,
             \/ CreateSchedule(w, p) \/ DeleteSchedule(w, p) \/ RecreatePost(w, p)
             \/ RecordNeverScheduled(w, p) \/ CallFails(w, p)
      PROVE  LatchInv'
  <2>1. \E to : /\ Goto(w, to, [view[w] EXCEPT !.pending = @ \ {p}])
                /\ to = step[w] \/ to = "Recreate"
                /\ UNCHANGED breaker
    BY <1>7 DEF CreateSchedule, DeleteSchedule, RecreatePost, RecordNeverScheduled,
       CallFails, dbVars
  <2> QED BY <2>1, LatchOfLessToDo
<1>8. ASSUME NEW p \in Programs, RecreateDelete(w, p)
      PROVE  LatchInv'
  <2>1. PICK to \in {"Recreate", "RecreatePost"} : \E v : Goto(w, to, v)
    BY <1>8 DEF RecreateDelete
  <2> QED BY <2>1, LatchGoes
<1> QED BY <1>1, <1>2, <1>3, <1>4, <1>5, <1>6, <1>7, <1>8 DEF PassStep, PassFault

LEMMA LatchOfOthers ==
  ASSUME LatchInv, Others \/ UNCHANGED vars
  PROVE  LatchInv'
<1>1. UNCHANGED <<step, view>> /\ (breaker' => breaker)
  BY DEF Others, Decide, Retitle, ObserveRecord, MirakcStep, Moves, Meddle, Resume, Tick,
     vars, dbVars
<1> QED BY <1>1, LatchStays

(* While the breaker is tripped nothing is deleted, although it may trip, and
   be resumed, at any moment of a pass: passes are unique jobs, and a pass that
   read the breaker before its listing judges by it after (deleteSchedules). *)
THEOREM LatchIsHeld ==
  ASSUME OnePass
  PROVE  Spec => LatchHolds
<1>1. Init => LatchInv
  BY DEF Init, LatchInv, LatchTrue
<1>2. Inv /\ LatchInv /\ [Next]_vars => LatchInv'
  BY LatchOfPassStep, LatchOfOthers DEF Next
<1>3. Inv /\ LatchInv /\ [Next]_vars =>
        [breaker => \A w \in Passes, p \in Programs : ~DeletedBy(w, p)]_vars
  BY DEF LatchInv, LatchTrue, DeletedBy
<1> QED BY InvHolds, <1>1, <1>2, <1>3, PTL DEF LatchHolds, Spec

-----------------------------------------------------------------------------
(* What a fault may cost, with one pass at a time. *)

LEMMA CreatePosts ==
  ASSUME Inv, NEW w \in Passes, NEW p \in Programs, CreateSchedule(w, p)
  PROVE  Posted(p, NewPath(w, p))
<1>1. view[w].decided[p] \in Options
  BY DEF Inv, PlansInv, PlanTrue, CreateSchedule
<1> QED BY <1>1, PathOfOptions, PostGoes DEF CreateSchedule, Inv, TypeOK, SchedulesOK

LEMMA RecreatePosts ==
  ASSUME Inv, NEW w \in Passes, NEW p \in Programs, RecreatePost(w, p)
  PROVE  Posted(p, CarriedPath(w, p))
<1>1. view[w].decided[p] \in Options /\ view[w].observed[p] # NoSchedule
  BY DEF Inv, PlansInv, PlanTrue, RecreatePost, IsNext
<1> QED BY <1>1, PathOfOptions, PostGoes DEF RecreatePost, Inv, TypeOK, SchedulesOK

(* What the pass has seen of p is the path p's schedule has now, as long as
   both are ours. *)
SamePath(p, v) ==
    /\ v.observed[p] # NoSchedule /\ v.observed[p].ours
    /\ schedule[p] # NoSchedule /\ schedule[p].ours
    => v.observed[p].path = schedule[p].path

PathTrue(at, v) ==
    /\ at \in {"ListDesired", "Create", "Delete"} => \A p \in Programs : SamePath(p, v)
    /\ at = "Create" => \A p \in v.pending : v.observed[p] = NoSchedule
    /\ at \in {"Recreate", "RecreatePost"} =>
          \A p \in v.pending : v.observed[p].ours /\ SamePath(p, v)

PathInv == \A w \in Passes : PathTrue(step[w], view[w])

(* No schedule of ours that was not there before, under that path. *)
NothingNew ==
    \A p \in Programs :
        schedule'[p] # NoSchedule /\ schedule'[p].ours
        => /\ schedule[p] # NoSchedule /\ schedule[p].ours
           /\ schedule'[p].path = schedule[p].path

LEMMA SamePathStays ==
  ASSUME NothingNew, NEW p \in Programs, NEW v, SamePath(p, v)
  PROVE  v.observed[p] # NoSchedule /\ v.observed[p].ours
            /\ schedule'[p] # NoSchedule /\ schedule'[p].ours
            => v.observed[p].path = schedule'[p].path
BY DEF NothingNew, SamePath

LEMMA PathStays ==
  ASSUME Inv, PathInv, NothingNew, UNCHANGED <<step, view>>
  PROVE  PathInv'
<1> SUFFICES ASSUME NEW w \in Passes
             PROVE  PathTrue(step[w], view[w])'
  BY DEF PathInv
<1>1. PathTrue(step[w], view[w]) /\ view[w].pending \subseteq Programs
  BY DEF PathInv, Inv, TypeOK, Views
<1>2. \A p \in Programs : SamePath(p, view[w]) => SamePath(p, view[w])'
  BY SamePathStays DEF SamePath
<1> QED BY <1>1, <1>2 DEF PathTrue

(* The only pass there is goes on to v. *)
LEMMA PathGoes ==
  ASSUME Inv, OnePass, NEW w \in Passes, NEW to, NEW v, Goto(w, to, v),
         /\ to \in {"ListDesired", "Create", "Delete"} =>
               \A p \in Programs : v.observed[p] # NoSchedule /\ v.observed[p].ours
                  /\ schedule'[p] # NoSchedule /\ schedule'[p].ours
                  => v.observed[p].path = schedule'[p].path
         /\ to = "Create" => \A p \in v.pending : v.observed[p] = NoSchedule
         /\ to \in {"Recreate", "RecreatePost"} =>
               \A p \in v.pending :
                  /\ v.observed[p].ours
                  /\ v.observed[p] # NoSchedule /\ v.observed[p].ours
                     /\ schedule'[p] # NoSchedule /\ schedule'[p].ours
                     => v.observed[p].path = schedule'[p].path
  PROVE  PathInv'
<1>1. step'[w] = to /\ view'[w] = v /\ \A u \in Passes : u = w
  BY DEF Goto, Inv, TypeOK, OnePass
<1> QED BY <1>1 DEF PathInv, PathTrue, SamePath

(* A pass that takes a program off its list, or none, and adds no schedule. *)
LEMMA PathOfLessToDo ==
  ASSUME Inv, PathInv, OnePass, NothingNew, NEW w \in Passes, NEW to, NEW v, Goto(w, to, v),
         v.observed = view[w].observed, v.pending \subseteq view[w].pending,
         \/ to = step[w]
         \/ step[w] \in {"Recreate", "RecreatePost"} /\ to \in {"Recreate", "RecreatePost"}
  PROVE  PathInv'
<1>1. PathTrue(step[w], view[w]) /\ view[w].pending \subseteq Programs
  BY DEF PathInv, Inv, TypeOK, Views
<1>2. \A p \in Programs : SamePath(p, view[w]) =>
         (v.observed[p] # NoSchedule /\ v.observed[p].ours
            /\ schedule'[p] # NoSchedule /\ schedule'[p].ours
            => v.observed[p].path = schedule'[p].path)
  BY SamePathStays
<1> QED BY <1>1, <1>2, PathGoes DEF PathTrue

LEMMA NothingNewIfUnchanged ==
  ASSUME \A p \in Programs : schedule'[p] \in {schedule[p], NoSchedule}
  PROVE  NothingNew
BY DEF NothingNew

LEMMA PathOfPassStep ==
  ASSUME Inv, PathInv, OnePass, NEW w \in Passes, PassStep(w) \/ PassFault(w)
  PROVE  PathInv'
<1>0. /\ PathTrue(step[w], view[w]) /\ view[w] \in Views
      /\ schedule \in [Programs -> Schedules \cup {NoSchedule}]
      /\ Programs \subseteq Nat
  BY ReconcileAssumption DEF PathInv, Inv, TypeOK
<1>1. CASE ObserveBreaker(w) \/ CollectNever(w) \/ EndPass(w) \/ PassFails(w)
  <2>1. PICK to \in {"ListSchedules", "Never", "idle"} : \E v : Goto(w, to, v)
    BY <1>1 DEF ObserveBreaker, CollectNever, EndPass, PassFails
  <2> QED BY <2>1, PathGoes
<1>2. CASE ListSchedules(w)
  <2> DEFINE v == [view[w] EXCEPT !.observed = schedule]
  <2>1. Goto(w, "ListDesired", v) /\ UNCHANGED schedule
    BY <1>2 DEF ListSchedules
  <2>2. v.observed = schedule
    BY <1>0 DEF Views
  <2> HIDE DEF v
  <2> QED BY <2>1, <2>2, PathGoes
<1>3. CASE ListDesired(w)
  <2> DEFINE decided == [p \in Programs |-> IF p \in never THEN Absent ELSE decision[p]]
             S == ToCreate(w, decided, clock)
             v == [view[w] EXCEPT !.decided = decided, !.now = clock, !.pending = S]
  <2>1. Goto(w, "Create", v) /\ UNCHANGED schedule /\ step[w] = "ListDesired"
    BY <1>3 DEF ListDesired
  <2>2. \A p \in S : view[w].observed[p] = NoSchedule
    BY DEF ToCreate, Observed
  <2> HIDE DEF decided, S
  <2>3. v.observed = view[w].observed /\ v.pending = S
    BY <1>0 DEF Views
  <2> HIDE DEF v
  <2> QED BY <1>0, <2>1, <2>2, <2>3, PathGoes DEF PathTrue, SamePath
<1>4. ASSUME NEW p \in Programs, CreateSchedule(w, p)
      PROVE  PathInv'
  <2> DEFINE v == [view[w] EXCEPT !.pending = @ \ {p}]
  <2>1. /\ Goto(w, "Create", v) /\ step[w] = "Create" /\ p \in view[w].pending
        /\ \A q \in Programs \ {p} : schedule'[q] = schedule[q]
    BY <1>4, CreatePosts DEF CreateSchedule, Posted
  <2>2. v.observed = view[w].observed /\ v.pending = view[w].pending \ {p}
    BY <1>0 DEF Views
  <2> HIDE DEF v
  <2>3. view[w].observed[p] = NoSchedule
    BY <1>0, <2>1 DEF PathTrue
  <2> QED BY <1>0, <2>1, <2>2, <2>3, PathGoes DEF PathTrue, SamePath
<1>5. ASSUME NEW b, NEW S, Goto(w, "Delete", [view[w] EXCEPT !.tripped = b, !.pending = S]),
             step[w] = "Create", UNCHANGED schedule
      PROVE  PathInv'
  <2> DEFINE v == [view[w] EXCEPT !.tripped = b, !.pending = S]
  <2>1. Goto(w, "Delete", v)
    BY <1>5
  <2>2. v.observed = view[w].observed
    BY <1>0 DEF Views
  <2> HIDE DEF v
  <2> QED BY <1>0, <1>5, <2>1, <2>2, PathGoes DEF PathTrue, SamePath
<1>6. CASE CollectDeletes(w) \/ TripFails(w)
  BY <1>5, <1>6 DEF CollectDeletes, TripFails
<1>7. CASE CollectRecreates(w)
  <2> DEFINE v == [view[w] EXCEPT !.tripped = FALSE, !.pending = ToRecreate(w)]
  <2>1. Goto(w, "Recreate", v) /\ UNCHANGED schedule /\ step[w] = "Delete"
    BY <1>7 DEF CollectRecreates
  <2>2. v.observed = view[w].observed /\ v.pending = ToRecreate(w)
    BY <1>0 DEF Views
  <2> HIDE DEF v
  <2>3. \A p \in ToRecreate(w) : p \in Programs /\ view[w].observed[p].ours
    BY DEF ToRecreate, Eligible, Desired
  <2> QED BY <1>0, <2>1, <2>2, <2>3, PathGoes DEF PathTrue, SamePath
<1>8. ASSUME NEW p \in Programs, NEW to,
             Goto(w, to, [view[w] EXCEPT !.pending = @ \ {p}]), NothingNew,
             \/ to = step[w]
             \/ step[w] \in {"Recreate", "RecreatePost"} /\ to \in {"Recreate", "RecreatePost"}
      PROVE  PathInv'
  <2> DEFINE v == [view[w] EXCEPT !.pending = @ \ {p}]
  <2>1. Goto(w, to, v)
    BY <1>8
  <2>2. v.observed = view[w].observed /\ v.pending = view[w].pending \ {p}
    BY <1>0 DEF Views
  <2> HIDE DEF v
  <2> QED BY <1>8, <2>1, <2>2, PathOfLessToDo
<1>9. ASSUME NEW p \in Programs,
             DeleteSchedule(w, p) \/ RecordNeverScheduled(w, p) \/ CallFails(w, p)
      PROVE  PathInv'
  <2>1. NothingNew
    BY <1>0, <1>9, NothingNewIfUnchanged DEF DeleteSchedule, RecordNeverScheduled, CallFails
  <2>2. \E to : /\ Goto(w, to, [view[w] EXCEPT !.pending = @ \ {p}])
                /\ \/ to = step[w]
                   \/ /\ step[w] \in {"Recreate", "RecreatePost"}
                      /\ to \in {"Recreate", "RecreatePost"}
    BY <1>9 DEF DeleteSchedule, RecordNeverScheduled, CallFails
  <2> QED BY <1>8, <2>1, <2>2
<1>10. ASSUME NEW p \in Programs, RecreateDelete(w, p)
       PROVE  PathInv'
  <2>1. NothingNew /\ step[w] = "Recreate"
    BY <1>0, <1>10, NothingNewIfUnchanged DEF RecreateDelete
  <2>2. \/ Goto(w, "Recreate", [view[w] EXCEPT !.pending = @ \ {p}])
        \/ Goto(w, "RecreatePost", view[w])
    BY <1>10 DEF RecreateDelete
  <2> QED BY <1>8, <2>1, <2>2, PathOfLessToDo
<1>11. ASSUME NEW p \in Programs, RecreatePost(w, p)
       PROVE  PathInv'
  <2> DEFINE v == [view[w] EXCEPT !.pending = @ \ {p}]
  <2>1. /\ Goto(w, "Recreate", v) /\ step[w] = "RecreatePost"
        /\ \A q \in Programs \ {p} : schedule'[q] = schedule[q]
    BY <1>11, RecreatePosts DEF RecreatePost, Posted
  <2>2. /\ v.observed = view[w].observed /\ v.pending = view[w].pending \ {p}
        /\ v.pending \subseteq Programs \ {p}
    BY <1>0 DEF Views
  <2> HIDE DEF v
  <2> QED BY <1>0, <2>1, <2>2, PathGoes DEF PathTrue, SamePath
<1> QED BY <1>1, <1>2, <1>3, <1>4, <1>6, <1>7, <1>9, <1>10, <1>11 DEF PassStep, PassFault

LEMMA PathOfOthers ==
  ASSUME Inv, PathInv, Others \/ UNCHANGED vars
  PROVE  PathInv'
<1>0. schedule \in [Programs -> Schedules \cup {NoSchedule}]
  BY DEF Inv, TypeOK
<1>1. UNCHANGED <<step, view>>
  BY DEF Others, Decide, Retitle, ObserveRecord, MirakcStep, Moves, Meddle, Resume, Tick,
     vars, dbVars
<1>2. CASE UNCHANGED schedule
  BY <1>1, <1>2, NothingNewIfUnchanged, PathStays
<1>3. ASSUME NEW p \in Programs, NEW from, NEW to, Moves(p, from, to)
      PROVE  NothingNew
  <2> DEFINE s == [schedule[p] EXCEPT !.state = to]
  <2>1. schedule[p] \in Schedules /\ schedule' = [schedule EXCEPT ![p] = s]
    BY <1>0, <1>3 DEF Moves
  <2>2. s.ours = schedule[p].ours /\ s.path = schedule[p].path
    BY <2>1 DEF Schedules
  <2>3. schedule[p] # NoSchedule
    BY <1>3 DEF Moves
  <2> HIDE DEF s
  <2> QED BY <1>0, <2>1, <2>2, <2>3 DEF NothingNew
<1>4. ASSUME NEW p \in Programs, Meddle(p)
      PROVE  NothingNew
  BY <1>0, <1>4, ForeignIsASchedule DEF Meddle, NothingNew
<1>5. CASE \E p \in Programs : MirakcStep(p) \/ Meddle(p)
  BY <1>1, <1>3, <1>4, <1>5, PathStays DEF MirakcStep
<1>6. UNCHANGED schedule \/ \E p \in Programs : MirakcStep(p) \/ Meddle(p)
  BY DEF Others, Decide, Retitle, ObserveRecord, Resume, Tick, vars
<1> QED BY <1>2, <1>5, <1>6

LEMMA Remembered ==
  ASSUME Inv, Next, NEW p \in Programs
  PROVE  \/ first'[p] = first[p]
         \/ /\ first[p] = NoSchedule
            /\ schedule[p] = NoSchedule /\ schedule'[p] # NoSchedule
            /\ schedule'[p].ours /\ first'[p] = schedule'[p].path
<1>1. ASSUME NEW w \in Passes, NEW q \in Programs, CreateSchedule(w, q) \/ RecreatePost(w, q)
      PROVE  \/ first'[p] = first[p]
             \/ /\ first[p] = NoSchedule
                /\ schedule[p] = NoSchedule /\ schedule'[p] # NoSchedule
                /\ schedule'[p].ours /\ first'[p] = schedule'[p].path
  BY <1>1, CreatePosts, RecreatePosts DEF Posted
<1>2. \/ UNCHANGED first
      \/ \E w \in Passes, q \in Programs : CreateSchedule(w, q) \/ RecreatePost(w, q)
  BY DEF Next, Others, Decide, Retitle, ObserveRecord, MirakcStep, Moves, Meddle, Resume, Tick,
     PassStep, PassFault, TripFails, PassFails, CallFails, ObserveBreaker, ListSchedules,
     ListDesired, CollectDeletes, DeleteSchedule, CollectRecreates, RecreateDelete,
     CollectNever, RecordNeverScheduled, EndPass
<1> QED BY <1>1, <1>2

LEMMA OnlyOneIsNext ==
  ASSUME Inv, NEW w \in Passes, NEW p \in Programs, NEW q \in Programs,
         IsNext(w, p), IsNext(w, q)
  PROVE  p = q
<1>1. p \in Nat /\ q \in Nat /\ p <= q /\ q <= p
  BY ReconcileAssumption DEF IsNext
<1> QED BY <1>1

LEMMA DeclinedStays == Next => declined \subseteq declined'
BY DEF Next, Others, Decide, Retitle, ObserveRecord, MirakcStep, Moves, Meddle, Resume, Tick,
   PassStep, PassFault, TripFails, PassFails, CallFails, ObserveBreaker, ListSchedules,
   ListDesired, CreateSchedule, CollectDeletes, DeleteSchedule, CollectRecreates,
   RecreateDelete, RecreatePost, CollectNever, RecordNeverScheduled, EndPass, dbVars

(* As long as p's own schedule stays what it was to p, p is not harmed. *)
LEMMA Unharmed ==
  ASSUME Inv, Next, declined \subseteq declined', NEW p \in Programs,
         \/ schedule'[p] = schedule[p]
         \/ /\ schedule[p] # NoSchedule /\ schedule'[p] # NoSchedule
            /\ schedule'[p].ours = schedule[p].ours
            /\ schedule'[p].path = schedule[p].path,
         UNCHANGED <<step, view>> \/ \A w \in Passes : ~Recreating(w, p),
         p \in Harmed'
  PROVE  p \in Harmed
<1>1. first'[p] = first[p]
  BY Remembered DEF Harmed, Kept
<1>2. Kept(p, schedule[p]) => Kept(p, schedule[p])'
  BY <1>1 DEF Kept
<1>3. ~Kept(p, schedule[p])
  BY <1>2 DEF Harmed
<1>4. \A w \in Passes : ~(Recreating(w, p) /\ Kept(p, view[w].observed[p]))
  BY <1>1 DEF Harmed, Kept, Recreating, IsNext
<1> QED BY <1>1, <1>3, <1>4 DEF Harmed

(* No step of the pass that fails nothing harms anyone. *)
LEMMA HarmOfPassStep ==
  ASSUME Inv, PathInv, OnePass, Next, NEW w \in Passes, PassStep(w),
         NEW p \in Programs, p \in Harmed'
  PROVE  p \in Harmed
<1>0. /\ PathTrue(step[w], view[w]) /\ PlanTrue(step[w], view[w]) /\ view[w] \in Views
      /\ schedule \in [Programs -> Schedules \cup {NoSchedule}]
      /\ step \in [Passes -> Steps] /\ view \in [Passes -> Views]
      /\ declined \subseteq declined'
      /\ \A u \in Passes : u = w
  BY DeclinedStays DEF PathInv, Inv, TypeOK, PlansInv, OnePass
<1>1. CASE schedule'[p] = schedule[p] /\ step[w] # "RecreatePost"
  BY <1>0, <1>1, Unharmed DEF Recreating
<1>2. CASE CreateSchedule(w, p) /\ schedule'[p] # schedule[p]
  <2>1. /\ schedule[p] = NoSchedule /\ schedule'[p] # NoSchedule /\ step[w] = "Create"
    BY <1>2, CreatePosts DEF CreateSchedule, Posted
  <2>2. first[p] # NoSchedule
    BY <1>2, <2>1, CreatePosts DEF Posted, Harmed, Kept
  <2> QED BY <1>0, <2>1, <2>2 DEF Harmed, Kept, Recreating
<1>3. CASE DeleteSchedule(w, p)
  BY <1>0, <1>3 DEF DeleteSchedule, PlanTrue, Harmed
<1>4. CASE RecreateDelete(w, p) /\ schedule[p] # NoSchedule
  <2>1. /\ step[w] = "Recreate" /\ IsNext(w, p) /\ schedule'[p] = NoSchedule
        /\ step'[w] = "RecreatePost" /\ view'[w] = view[w]
    BY <1>0, <1>4 DEF RecreateDelete, Goto
  <2>2. first'[p] = first[p]
    BY <2>1, Remembered
  <2>3. Recreating(w, p)'
    BY <2>1 DEF Recreating, IsNext
  <2>4. ~Kept(p, view[w].observed[p])'
    BY <2>1, <2>3 DEF Harmed
  <2>5. ~(/\ view[w].observed[p] # NoSchedule /\ view[w].observed[p].ours
          /\ view[w].observed[p].path \in {first[p]} \cup ExplicitPaths)
    BY <2>1, <2>2, <2>4 DEF Kept
  <2>6. /\ view[w].observed[p].ours /\ view[w].observed[p] # NoSchedule
        /\ SamePath(p, view[w])
    BY <1>0, <2>1 DEF PathTrue, PlanTrue, IsNext
  <2>7. ~Kept(p, schedule[p])
    BY <1>4, <2>5, <2>6 DEF SamePath, Kept
  <2> QED BY <1>0, <2>1, <2>2, <2>7 DEF Harmed, Recreating
<1>5. CASE RecreatePost(w, p)
  <2>1. /\ step[w] = "RecreatePost" /\ IsNext(w, p) /\ step'[w] = "Recreate"
    BY <1>0, <1>5 DEF RecreatePost, Goto
  <2>2. CASE schedule[p] # NoSchedule
    BY <1>0, <1>5, <2>2, RecreatePosts, Unharmed DEF Posted, Recreating
  <2>3. CASE schedule[p] = NoSchedule
    <3>1. /\ schedule'[p] # NoSchedule /\ schedule'[p].ours
          /\ schedule'[p].path = CarriedPath(w, p)
      BY <1>5, <2>3, RecreatePosts DEF Posted
    <3>2. view[w].decided[p] \in Options /\ view[w].observed[p] # NoSchedule
      BY <1>0, <2>1 DEF PlanTrue, IsNext
    <3>3. CarriedPath(w, p) \in {view[w].observed[p].path} \cup ExplicitPaths
      BY <3>2, PathOfOptions DEF Inv
    <3>4. first'[p] = first[p] /\ first[p] # NoSchedule
      BY <3>1, Remembered DEF Harmed, Kept
    <3>5. CarriedPath(w, p) \notin {first[p]} \cup ExplicitPaths
      BY <3>1, <3>4 DEF Harmed, Kept
    <3>6. ~Kept(p, view[w].observed[p]) /\ ~Kept(p, schedule[p])
      BY <2>3, <3>3, <3>5 DEF Kept
    <3> QED BY <1>0, <3>4, <3>6 DEF Harmed
  <2> QED BY <2>2, <2>3
<1>6. ASSUME NEW q \in Programs \ {p}, RecreatePost(w, q)
      PROVE  p \in Harmed
  <2>1. schedule'[p] = schedule[p] /\ IsNext(w, q)
    BY <1>6, RecreatePosts DEF RecreatePost, Posted
  <2>2. \A u \in Passes : ~Recreating(u, p)
    BY <1>0, <1>6, <2>1, OnlyOneIsNext DEF Recreating
  <2> QED BY <1>0, <2>1, <2>2, Unharmed
<1>7. \/ schedule'[p] = schedule[p] /\ step[w] # "RecreatePost"
      \/ CreateSchedule(w, p) /\ schedule'[p] # schedule[p]
      \/ DeleteSchedule(w, p)
      \/ RecreateDelete(w, p) /\ schedule[p] # NoSchedule
      \/ RecreatePost(w, p)
      \/ \E q \in Programs \ {p} : RecreatePost(w, q)
  <2>1. ASSUME NEW q \in Programs \ {p}, CreateSchedule(w, q)
        PROVE  schedule'[p] = schedule[p] /\ step[w] # "RecreatePost"
    BY <2>1, CreatePosts DEF CreateSchedule, Posted
  <2>2. CreateSchedule(w, p) => step[w] # "RecreatePost"
    BY DEF CreateSchedule
  <2>3. CASE \E q \in Programs : CreateSchedule(w, q) \/ RecreatePost(w, q)
    BY <2>1, <2>2, <2>3
  <2> QED BY <1>0, <2>3 DEF PassStep, ObserveBreaker, ListSchedules, ListDesired,
          CollectDeletes, CollectRecreates, CollectNever, EndPass, DeleteSchedule,
          RecreateDelete, RecordNeverScheduled
<1> QED BY <1>1, <1>2, <1>3, <1>4, <1>5, <1>6, <1>7

(* A fault of a pass harms at most the program it is about. *)
LEMMA HarmOfPassFault ==
  ASSUME Inv, OnePass, Next, NEW w \in Passes, PassFault(w)
  PROVE  \/ Harmed' \subseteq Harmed
         \/ \E q \in Programs : Harmed' \subseteq Harmed \cup {q}
<1>0. UNCHANGED schedule /\ declined \subseteq declined' /\ \A u \in Passes : u = w
  BY DeclinedStays DEF PassFault, TripFails, PassFails, CallFails, OnePass
<1>1. CASE \A p \in Programs : ~Recreating(w, p)
  <2>1. \A p \in Harmed' : p \in Programs
    BY DEF Harmed
  <2> QED BY <1>0, <1>1, <2>1, Unharmed
<1>2. ASSUME NEW q \in Programs, Recreating(w, q)
      PROVE  Harmed' \subseteq Harmed \cup {q}
  <2> SUFFICES ASSUME NEW p \in Harmed', p # q
               PROVE  p \in Harmed
    OBVIOUS
  <2>1. p \in Programs
    BY DEF Harmed
  <2>2. ~Recreating(w, p)
    BY <1>2, <2>1, OnlyOneIsNext DEF Recreating
  <2> QED BY <1>0, <2>1, <2>2, Unharmed
<1> QED BY <1>1, <1>2

(* Others harm no one, but for mirakc's loss of a schedule. *)
LEMMA HarmOfOthers ==
  ASSUME Inv, Next, Others,
         NEW p \in Programs, p \in Harmed'
  PROVE  p \in Harmed \/ Meddle(p)
<1>0. /\ schedule \in [Programs -> Schedules \cup {NoSchedule}]
      /\ declined \subseteq declined'
  BY DeclinedStays DEF Inv, TypeOK
<1>1. UNCHANGED <<step, view>>
  BY DEF Others, Decide, Retitle, ObserveRecord, MirakcStep, Moves, Meddle, Resume, Tick, dbVars
<1>2. CASE schedule'[p] = schedule[p]
  BY <1>0, <1>1, <1>2, Unharmed
<1>3. ASSUME NEW from, NEW to \in States, Moves(p, from, to)
      PROVE  p \in Harmed
  <2> DEFINE s == [schedule[p] EXCEPT !.state = to]
  <2>1. /\ schedule[p] \in Schedules /\ schedule[p] # NoSchedule /\ schedule'[p] = s
    BY <1>0, <1>3 DEF Moves
  <2>2. s.ours = schedule[p].ours /\ s.path = schedule[p].path /\ s \in Schedules
    BY <2>1 DEF Schedules
  <2> HIDE DEF s
  <2> QED BY <1>0, <1>1, <2>1, <2>2, Unharmed, NoScheduleAssumption
<1>4. CASE MirakcStep(p)
  BY <1>3, <1>4 DEF MirakcStep, States
<1>5. schedule'[p] = schedule[p] \/ MirakcStep(p) \/ Meddle(p)
  BY <1>0 DEF Others, Decide, Retitle, ObserveRecord, MirakcStep, Moves, Meddle, Resume,
     Tick, dbVars
<1> QED BY <1>2, <1>4, <1>5

(* Who is harmed is paid for. *)
LEMMA HarmIsPaidFor ==
  ASSUME Inv, PathInv, OnePass, Next
  PROVE  \/ faults' = faults /\ Harmed' \subseteq Harmed
         \/ faults' = faults + 1 /\ Harmed' \subseteq Harmed
         \/ faults' = faults + 1 /\ \E q \in Programs : Harmed' \subseteq Harmed \cup {q}
<1>0. \A p \in Harmed' : p \in Programs
  BY DEF Harmed
<1>1. ASSUME NEW w \in Passes, PassStep(w)
      PROVE  Harmed' \subseteq Harmed
  BY <1>0, <1>1, HarmOfPassStep
<1>2. ASSUME NEW w \in Passes, PassFault(w)
      PROVE  faults' = faults + 1
  BY <1>2 DEF PassFault, TripFails, PassFails, CallFails, Fault
<1>3. ASSUME NEW q \in Programs, Meddle(q)
      PROVE  faults' = faults + 1 /\ Harmed' \subseteq Harmed \cup {q}
  <2>1. faults' = faults + 1
    BY <1>3 DEF Meddle, Fault
  <2> SUFFICES ASSUME NEW p \in Harmed', p # q
               PROVE  p \in Harmed
    BY <2>1
  <2>2. UNCHANGED <<step, view>> /\ schedule'[p] = schedule[p] /\ p \in Programs
    BY <1>0, <1>3 DEF Meddle, Inv, TypeOK
  <2> QED BY <2>2, DeclinedStays, Unharmed
<1>4. ASSUME Others, ~\E q \in Programs : Meddle(q)
      PROVE  Harmed' \subseteq Harmed
  BY <1>0, <1>4, HarmOfOthers
<1>5. ASSUME \/ \E w \in Passes : PassStep(w)
             \/ Others /\ ~\E q \in Programs : Meddle(q)
      PROVE  faults' = faults \/ faults' = faults + 1
  BY <1>5 DEF PassStep, ObserveBreaker, ListSchedules, ListDesired, CollectDeletes,
     CollectRecreates, CollectNever, EndPass, CreateSchedule, DeleteSchedule,
     RecreateDelete, RecreatePost, RecordNeverScheduled, Fault,
     Others, Decide, Retitle, ObserveRecord, MirakcStep, Moves, Resume, Tick
<1>6. CASE \E w \in Passes : PassStep(w)
  BY <1>1, <1>5, <1>6
<1>7. CASE \E w \in Passes : PassFault(w)
  BY <1>2, <1>7, HarmOfPassFault
<1> QED BY <1>3, <1>4, <1>5, <1>6, <1>7 DEF Next

LEMMA LossStays ==
  ASSUME IsFiniteSet(Programs), Inv, PathInv, OnePass, OneLossPerFault, Next
  PROVE  OneLossPerFault'
<1>1. /\ IsFiniteSet(Harmed) /\ Cardinality(Harmed) \in Nat
      /\ IsFiniteSet(Harmed') /\ Cardinality(Harmed') \in Nat
  <2>1. Harmed \subseteq Programs /\ Harmed' \subseteq Programs
    BY DEF Harmed
  <2> QED BY <2>1, FS_Subset, FS_CardinalityType
<1>2. faults \in Nat /\ Cardinality(Harmed) <= faults
  BY ReconcileAssumption DEF Inv, TypeOK, OneLossPerFault
<1>3. ASSUME Harmed' \subseteq Harmed
      PROVE  Cardinality(Harmed') <= Cardinality(Harmed)
  BY <1>1, <1>3, FS_Subset
<1>4. ASSUME NEW q \in Programs, Harmed' \subseteq Harmed \cup {q}
      PROVE  Cardinality(Harmed') <= Cardinality(Harmed) + 1
  <2>1. /\ IsFiniteSet(Harmed \cup {q})
        /\ Cardinality(Harmed \cup {q}) \in {Cardinality(Harmed), Cardinality(Harmed) + 1}
    BY <1>1, FS_AddElement
  <2>2. Cardinality(Harmed') <= Cardinality(Harmed \cup {q})
    BY <1>4, <2>1, FS_Subset
  <2> QED BY <1>1, <2>1, <2>2
<1>5. Cardinality(Harmed') <= faults'
  BY <1>1, <1>2, <1>3, <1>4, HarmIsPaidFor
<1> QED BY <1>5 DEF OneLossPerFault

(* With one pass at a time and any number of programs, a fault costs at most
   one program its schedule or its path, and without a fault none loses it,
   whatever options, titles and reservations become meanwhile: a recreation
   carries the path that the listing saw, nothing else of ours came in since,
   and only one schedule at a time exists in the memory of a pass alone
   (recreateChanged, recreateSchedule). *)
THEOREM LossesAreFaults ==
  ASSUME OnePass, IsFiniteSet(Programs)
  PROVE  Spec => []OneLossPerFault
<1> DEFINE LossInv == Inv /\ PathInv /\ OneLossPerFault
<1>1. Init => LossInv
  <2> SUFFICES ASSUME Init
               PROVE  LossInv
    OBVIOUS
  <2>1. Harmed = {}
    BY DEF Init, Harmed
  <2>2. OneLossPerFault
    BY <2>1, FS_EmptySet DEF Init, OneLossPerFault
  <2>3. PathInv
    BY DEF Init, PathInv, PathTrue
  <2> QED BY <2>2, <2>3, InitInv
<1>2. LossInv /\ [Next]_vars => LossInv'
  <2> SUFFICES ASSUME LossInv, [Next]_vars
               PROVE  LossInv'
    OBVIOUS
  <2>1. Inv'
    BY EveryStepKeeps
  <2>2. PathInv'
    BY PathOfPassStep, PathOfOthers DEF Next
  <2>3. ASSUME Next
        PROVE  OneLossPerFault'
    BY <2>3, LossStays
  <2>4. ASSUME UNCHANGED vars
        PROVE  OneLossPerFault'
    <3>1. Harmed' = Harmed /\ faults' = faults
      BY <2>4 DEF vars, dbVars, Harmed, Kept, Recreating, IsNext
    <3> QED BY <3>1 DEF OneLossPerFault
  <2>5. OneLossPerFault'
    BY <2>3, <2>4
  <2> QED BY <2>1, <2>2, <2>5
<1> QED BY <1>1, <1>2, PTL DEF Spec

=============================================================================
