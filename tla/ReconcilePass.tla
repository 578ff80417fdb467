----------------------------- MODULE ReconcilePass -----------------------------
(***************************************************************************)
(* The reconciler: a job that makes the schedules of mirakc what the       *)
(* reservations ask for.  A pass lists mirakc's schedules once, evaluates  *)
(* the reservations once, and then creates, deletes and recreates          *)
(* schedules one HTTP call at a time; mirakc, the users and the clock move *)
(* on between any two calls, every call may fail alone, and the process    *)
(* may die anywhere.                                                       *)
(*                                                                         *)
(* mirakc is external.  Its state "recording" stands for tracking,         *)
(* recording and rescheduling: the reconciler treats the three alike.      *)
(***************************************************************************)
EXTENDS Integers, FiniteSets

CONSTANTS
    Programs,       \* program ids
    Passes,         \* passes that may run at once
    End,            \* End[p]: when program p ends (program_snapshots)
    Options,        \* effective options: [priority, path]
    Titles,         \* contentPaths the filename template can give
    Generated,      \* the path of options without an explicit contentPath
    Absent, Skip, Broken,   \* no reservation, an effective skip, options
                            \* that do not parse
    NoSchedule,     \* mirakc has no schedule for the program
    MaxRecreates,   \* reconciler.max_recreates_per_pass
    Recordable,     \* bound: programs whose records the watcher sees
    MaxClock, MaxDecisions, MaxFaults   \* bounds

ASSUME ReconcileAssumption ==
    /\ Programs \subseteq Nat
    /\ End \in [Programs -> Nat]
    /\ MaxRecreates \in Nat \ {0}
    /\ MaxClock \in Nat /\ MaxDecisions \in Nat /\ MaxFaults \in Nat
    /\ Generated \notin Titles
    /\ Options # {}
    /\ \A o \in Options : {"priority", "path"} \subseteq DOMAIN o

VARIABLES
    clock,      \* the time of the reconciler
    decision,   \* decision[p]: what p's reservation evaluates to
    title,      \* title[p]: what the template gives for p at present
    never,      \* programs with a never_scheduled_events row
    recorded,   \* programs with a live recordings row
    breaker,    \* circuit_breakers has a row for reconcile_total_loss
    schedule,   \* schedule[p]: mirakc's schedule of p
    step,       \* step[w]: what pass w does next
    view,       \* view[w]: what pass w holds in memory
    decisions, faults,  \* used up so far
    declined,   \* history: programs that were at some time not to be recorded
    first       \* history: first[p], the path of the first schedule made for p

dbVars == <<decision, title, never, recorded, breaker, decisions, declined>>
vars == <<clock, dbVars, schedule, first, step, view, faults>>

(* What the reservation of a program may evaluate to. *)
Decisions == {Absent, Skip, Broken} \cup Options

States == {"scheduled", "recording", "finished", "failed"}
ExplicitPaths == {o.path : o \in Options} \ {Generated}
Schedules ==
    [state : States, ours : BOOLEAN,
     priority : {o.priority : o \in Options}, path : ExplicitPaths \cup Titles]

ASSUME NoScheduleAssumption == NoSchedule \notin Schedules

Steps == {"idle", "ListSchedules", "ListDesired", "Create", "Delete",
          "Recreate", "RecreatePost", "Never"}

Views == [tripped : BOOLEAN, observed : [Programs -> Schedules \cup {NoSchedule}],
          decided : [Programs -> Decisions], now : 0..MaxClock,
          pending : SUBSET Programs]

EmptyView == [tripped |-> FALSE, observed |-> [p \in Programs |-> NoSchedule],
              decided |-> [p \in Programs |-> Absent], now |-> 0,
              pending |-> {}]

TypeOK ==
    /\ clock \in 0..MaxClock
    /\ decision \in [Programs -> Decisions]
    /\ title \in [Programs -> Titles]
    /\ never \subseteq Programs /\ recorded \subseteq Programs
    /\ breaker \in BOOLEAN
    /\ schedule \in [Programs -> Schedules \cup {NoSchedule}]
    /\ first \in [Programs -> ExplicitPaths \cup Titles \cup {NoSchedule}]
    /\ step \in [Passes -> Steps]
    /\ view \in [Passes -> Views]
    /\ decisions \in 0..MaxDecisions /\ faults \in 0..MaxFaults
    /\ declined \subseteq Programs

Init ==
    /\ clock = 0
    /\ decision \in [Programs -> Decisions]
    /\ title \in [Programs -> Titles]
    /\ never = {} /\ recorded = {} /\ breaker = FALSE
    /\ schedule = [p \in Programs |-> NoSchedule]
    /\ first = [p \in Programs |-> NoSchedule]
    /\ step = [w \in Passes |-> "idle"]
    /\ view = [w \in Passes |-> EmptyView]
    /\ decisions = 0 /\ faults = 0
    /\ declined = {p \in Programs : decision[p] \in {Absent, Skip}}

-----------------------------------------------------------------------------
(* The rules every loop of a pass shares (internal/schedulesync). *)

(* A program that ends this very moment has not ended. *)
ProgramEnded(p, now) == End[p] < now

(* Mutant: deleting is allowed when recreating is. *)
IsDeleteAllowedScheduled(s) == s.state = "scheduled"

IsDeleteAllowed(s) == s.state \in {"scheduled", "finished", "failed"}
IsRecreateAllowed(s) == s.state = "scheduled"

(* A generated path is never compared: it follows the title of the program. *)
OptionsDiffer(o, s) ==
    \/ s.priority # o.priority
    \/ o.path # Generated /\ s.path # o.path

Desired(w) == {p \in Programs : view[w].decided[p] \in Options}
Unresolved(w) == {p \in Programs : view[w].decided[p] = Broken}
Observed(w, p) == view[w].observed[p] # NoSchedule

(* Mutant: a tripped breaker stops creation too. *)
ToCreateUnlessTripped(w, decided, now) ==
    {p \in Programs : /\ decided[p] \in Options /\ ~Observed(w, p)
                      /\ ~ProgramEnded(p, now) /\ ~view[w].tripped}

ToCreate(w, decided, now) ==
    {p \in Programs : decided[p] \in Options /\ ~Observed(w, p) /\ ~ProgramEnded(p, now)}

(* Mutant: a reservation that cannot be resolved is not desired. *)
ToDeleteUnresolved(w) ==
    {p \in Programs \ Desired(w) :
        /\ Observed(w, p) /\ view[w].observed[p].ours
        /\ IsDeleteAllowed(view[w].observed[p])}

(* Our schedules that no reservation asks for and none could ask for. *)
ToDelete(w) ==
    {p \in Programs \ (Desired(w) \cup Unresolved(w)) :
        /\ Observed(w, p) /\ view[w].observed[p].ours
        /\ IsDeleteAllowed(view[w].observed[p])}

Eligible(w) ==
    {p \in Desired(w) :
        /\ Observed(w, p) /\ view[w].observed[p].ours
        /\ OptionsDiffer(view[w].decided[p], view[w].observed[p])
        /\ IsRecreateAllowed(view[w].observed[p])}

(* The first MaxRecreates of them by program id; the rest is carried over. *)
ToRecreate(w) ==
    {p \in Eligible(w) : Cardinality({q \in Eligible(w) : q < p}) < MaxRecreates}

ToRecordNever(w) ==
    {p \in Desired(w) : ProgramEnded(p, view[w].now) /\ ~Observed(w, p)}

(* mirakc gives up at once on a program that has ended. *)
Scheduled(p, priority, path) ==
    [state |-> IF ProgramEnded(p, clock) THEN "failed" ELSE "scheduled",
     ours |-> TRUE, priority |-> priority, path |-> path]

NewPath(w, p) ==
    LET o == view[w].decided[p] IN IF o.path = Generated THEN title[p] ELSE o.path

(* A recreated schedule keeps the path it had unless one is given.  mirakc
   returns the path it was given, so that there is always one to keep. *)
CarriedPath(w, p) ==
    LET o == view[w].decided[p]
    IN  IF o.path = Generated THEN view[w].observed[p].path ELSE o.path

-----------------------------------------------------------------------------
(* A pass. *)

Goto(w, to, v) ==
    /\ step' = [step EXCEPT ![w] = to]
    /\ view' = [view EXCEPT ![w] = v]

Fault == faults < MaxFaults /\ faults' = faults + 1

(* A breaker that cannot be read counts as tripped. *)
ObserveBreaker(w) ==
    /\ step[w] = "idle"
    /\ \/ /\ Goto(w, "ListSchedules", [EmptyView EXCEPT !.tripped = breaker])
          /\ UNCHANGED faults
       \/ /\ Goto(w, "ListSchedules", [EmptyView EXCEPT !.tripped = TRUE])
          /\ Fault
    /\ UNCHANGED <<clock, dbVars, schedule, first>>

(* The listing also replaces schedule_sync, which no pass reads. *)
ListSchedules(w) ==
    /\ step[w] = "ListSchedules"
    /\ Goto(w, "ListDesired", [view[w] EXCEPT !.observed = schedule])
    /\ UNCHANGED <<clock, dbVars, schedule, first, faults>>

(* Mutant: reservations of ended programs are left out. *)
ListDesiredUnended(w) ==
    LET decided == [p \in Programs |->
                      IF p \in never \/ ProgramEnded(p, clock) THEN Absent ELSE decision[p]]
    IN  /\ step[w] = "ListDesired"
        /\ Goto(w, "Create",
                [view[w] EXCEPT !.decided = decided, !.now = clock,
                                !.pending = ToCreate(w, decided, clock)])
        /\ UNCHANGED <<clock, dbVars, schedule, first, faults>>

(* The reservations that are not known to be never scheduled, and the one
   reading of the clock that the whole pass judges by. *)
ListDesired(w) ==
    LET decided == [p \in Programs |-> IF p \in never THEN Absent ELSE decision[p]]
    IN  /\ step[w] = "ListDesired"
        /\ Goto(w, "Create",
                [view[w] EXCEPT !.decided = decided, !.now = clock,
                                !.pending = ToCreate(w, decided, clock)])
        /\ UNCHANGED <<clock, dbVars, schedule, first, faults>>

(* mirakc refuses a second schedule of a program. *)
Post(p, priority, path) ==
    /\ schedule' = IF schedule[p] # NoSchedule THEN schedule
                   ELSE [schedule EXCEPT ![p] = Scheduled(p, priority, path)]
    /\ first' = IF schedule[p] # NoSchedule \/ first[p] # NoSchedule THEN first
                ELSE [first EXCEPT ![p] = path]

CreateSchedule(w, p) ==
    /\ step[w] = "Create" /\ p \in view[w].pending
    /\ Goto(w, "Create", [view[w] EXCEPT !.pending = @ \ {p}])
    /\ Post(p, view[w].decided[p].priority, NewPath(w, p))
    /\ UNCHANGED <<clock, dbVars, faults>>

(* Nothing is desired, yet mirakc holds schedules of ours. *)
TotalLoss(w) == Desired(w) = {} /\ ToDelete(w) # {}

(* Mutant: only the pass that trips the breaker withholds its deletions. *)
WithheldUnlatched(w) == TotalLoss(w)

Withheld(w) == view[w].tripped \/ TotalLoss(w)

CollectDeletes(w) ==
    /\ step[w] = "Create" /\ view[w].pending = {}
    /\ Goto(w, "Delete", [view[w] EXCEPT
          !.tripped = Withheld(w),
          !.pending = IF Withheld(w) THEN {} ELSE ToDelete(w)])
    /\ breaker' = (breaker \/ TotalLoss(w))
    /\ UNCHANGED <<clock, decision, title, never, recorded, decisions, declined,
                   schedule, first, faults>>

(* A trip that cannot be recorded withholds the deletions of this pass. *)
TripFails(w) ==
    /\ step[w] = "Create" /\ view[w].pending = {} /\ TotalLoss(w)
    /\ Fault
    /\ Goto(w, "Delete", [view[w] EXCEPT !.tripped = TRUE, !.pending = {}])
    /\ UNCHANGED <<clock, dbVars, schedule, first>>

DeleteSchedule(w, p) ==
    /\ step[w] = "Delete" /\ p \in view[w].pending
    /\ Goto(w, "Delete", [view[w] EXCEPT !.pending = @ \ {p}])
    /\ schedule' = [schedule EXCEPT ![p] = NoSchedule]
    /\ UNCHANGED <<clock, dbVars, first, faults>>

(* No later loop asks for the breaker. *)
CollectRecreates(w) ==
    /\ step[w] = "Delete" /\ view[w].pending = {}
    /\ Goto(w, "Recreate", [view[w] EXCEPT !.tripped = FALSE, !.pending = ToRecreate(w)])
    /\ UNCHANGED <<clock, dbVars, schedule, first, faults>>

IsNext(w, p) == p \in view[w].pending /\ \A q \in view[w].pending : p <= q

(* Mutant: everything that is to be recreated is deleted first. *)
RecreateDeleteAll(w, p) ==
    /\ step[w] = "Recreate" /\ IsNext(w, p)
    /\ Goto(w, "RecreatePost", view[w])
    /\ schedule' = [q \in Programs |->
                      IF q \in view[w].pending THEN NoSchedule ELSE schedule[q]]
    /\ UNCHANGED <<clock, dbVars, first, faults>>

(* There is no update in mirakc's API: a changed schedule is deleted and
   posted again.  One that is gone in the meantime is left to the next pass. *)
RecreateDelete(w, p) ==
    /\ step[w] = "Recreate" /\ IsNext(w, p)
    /\ IF schedule[p] = NoSchedule
       THEN Goto(w, "Recreate", [view[w] EXCEPT !.pending = @ \ {p}])
       ELSE Goto(w, "RecreatePost", view[w])
    /\ schedule' = [schedule EXCEPT ![p] = NoSchedule]
    /\ UNCHANGED <<clock, dbVars, first, faults>>

(* A POST that is lost is not repeated: the next pass finds no schedule, and
   creates one with NewPath. *)
RecreatePost(w, p) ==
    /\ step[w] = "RecreatePost" /\ IsNext(w, p)
    /\ Goto(w, "Recreate", [view[w] EXCEPT !.pending = @ \ {p}])
    /\ Post(p, view[w].decided[p].priority, CarriedPath(w, p))
    /\ UNCHANGED <<clock, dbVars, faults>>

(* The last loop needs nothing else of what the pass has in memory. *)
CollectNever(w) ==
    /\ step[w] = "Recreate" /\ view[w].pending = {}
    /\ Goto(w, "Never", [EmptyView EXCEPT !.pending = ToRecordNever(w)])
    /\ UNCHANGED <<clock, dbVars, schedule, first, faults>>

(* CreateNeverScheduledEvent writes nothing beside a live recording. *)
RecordNeverScheduled(w, p) ==
    /\ step[w] = "Never" /\ p \in view[w].pending
    /\ Goto(w, "Never", [view[w] EXCEPT !.pending = @ \ {p}])
    /\ IF p \in recorded THEN UNCHANGED <<never, declined>>
       ELSE never' = never \cup {p} /\ declined' = declined \cup {p}
    /\ UNCHANGED <<clock, decision, title, recorded, breaker, decisions,
                   schedule, first, faults>>

EndPass(w) ==
    /\ step[w] = "Never" /\ view[w].pending = {}
    /\ Goto(w, "idle", EmptyView)
    /\ UNCHANGED <<clock, dbVars, schedule, first, faults>>

(* One call to mirakc fails: the pass goes on with the next program, and a
   recreation that has deleted leaves the program without a schedule. *)
CallFails(w, p) ==
    /\ \/ step[w] \in {"Create", "Delete"} /\ p \in view[w].pending
       \/ step[w] \in {"Recreate", "RecreatePost"} /\ IsNext(w, p)
    /\ Fault
    /\ Goto(w, IF step[w] = "RecreatePost" THEN "Recreate" ELSE step[w],
            [view[w] EXCEPT !.pending = @ \ {p}])
    /\ UNCHANGED <<clock, dbVars, schedule, first>>

(* A query fails and aborts the pass, or the process dies. *)
PassFails(w) ==
    /\ step[w] # "idle"
    /\ Fault
    /\ Goto(w, "idle", EmptyView)
    /\ UNCHANGED <<clock, dbVars, schedule, first>>

-----------------------------------------------------------------------------
(* Everyone else. *)

(* A user or the ruler changes what a reservation evaluates to. *)
Decide(p) ==
    /\ decisions < MaxDecisions /\ decisions' = decisions + 1
    /\ \E d \in Decisions \ {decision[p]} :
          /\ decision' = [decision EXCEPT ![p] = d]
          /\ declined' = IF d \in {Absent, Skip} THEN declined \cup {p} ELSE declined
    /\ UNCHANGED <<clock, title, never, recorded, breaker, schedule, first,
                   step, view, faults>>

(* The EPG renames the program. *)
Retitle(p) ==
    /\ decisions < MaxDecisions /\ decisions' = decisions + 1
    /\ \E t \in Titles \ {title[p]} : title' = [title EXCEPT ![p] = t]
    /\ UNCHANGED <<clock, decision, never, recorded, breaker, declined,
                   schedule, first, step, view, faults>>

(* The watcher has seen a record of the program. *)
ObserveRecord(p) ==
    /\ schedule[p] # NoSchedule /\ schedule[p].state \in {"recording", "finished"}
    /\ p \in Recordable \ recorded
    /\ recorded' = recorded \cup {p}
    /\ UNCHANGED <<clock, decision, title, never, breaker, decisions, declined,
                   schedule, first, step, view, faults>>

Resume ==
    /\ breaker
    /\ breaker' = FALSE
    /\ UNCHANGED <<clock, decision, title, never, recorded, decisions, declined,
                   schedule, first, step, view, faults>>

Tick ==
    /\ clock < MaxClock
    /\ clock' = clock + 1
    /\ UNCHANGED <<dbVars, schedule, first, step, view, faults>>

(* mirakc moves a schedule on by itself. *)
Moves(p, from, to) ==
    /\ schedule[p] # NoSchedule /\ schedule[p].state = from
    /\ schedule' = [schedule EXCEPT ![p].state = to]
    /\ UNCHANGED <<clock, dbVars, first, step, view, faults>>

MirakcStep(p) ==
    \/ ~ProgramEnded(p, clock) /\ Moves(p, "scheduled", "recording")
    \/ ProgramEnded(p, clock) /\ Moves(p, "scheduled", "failed")
    \/ Moves(p, "recording", "finished") \/ Moves(p, "recording", "failed")

(* Of a schedule that is not ours a pass sees no more than that it is there. *)
Foreign == CHOOSE s \in Schedules : ~s.ours /\ s.state = "scheduled"

(* mirakc loses a schedule, or another client of it makes one. *)
Meddle(p) ==
    /\ Fault
    /\ \/ /\ schedule[p] # NoSchedule
          /\ schedule' = [schedule EXCEPT ![p] = NoSchedule]
       \/ /\ schedule[p] = NoSchedule
          /\ schedule' = [schedule EXCEPT ![p] = Foreign]
    /\ UNCHANGED <<clock, dbVars, first, step, view>>

-----------------------------------------------------------------------------
PassStep(w) ==
    \/ ObserveBreaker(w) \/ ListSchedules(w) \/ ListDesired(w)
    \/ CollectDeletes(w) \/ CollectRecreates(w) \/ CollectNever(w) \/ EndPass(w)
    \/ \E p \in Programs :
         \/ CreateSchedule(w, p) \/ DeleteSchedule(w, p)
         \/ RecreateDelete(w, p) \/ RecreatePost(w, p)
         \/ RecordNeverScheduled(w, p)

PassFault(w) ==
    TripFails(w) \/ PassFails(w) \/ \E p \in Programs : CallFails(w, p)

Others ==
    \/ \E p \in Programs : \/ Decide(p) \/ Retitle(p) \/ ObserveRecord(p)
                           \/ MirakcStep(p) \/ Meddle(p)
    \/ Resume \/ Tick

Next == Others \/ \E w \in Passes : PassStep(w) \/ PassFault(w)

Spec == Init /\ [][Next]_vars

(* The periodic job runs a pass again and again. *)
Fairness == \A w \in Passes : WF_vars(PassStep(w))

FairSpec == Spec /\ Fairness

-----------------------------------------------------------------------------
(* Safety. *)

Vanishes(p) == schedule[p] # NoSchedule /\ schedule'[p] = NoSchedule

(* Pass w takes p's schedule away for good. *)
DeletedBy(w, p) ==
    step[w] = "Delete" /\ p \in view[w].pending \ view'[w].pending /\ Vanishes(p)

(* Pass w takes p's schedule away in order to post it again. *)
RecreatedBy(w, p) ==
    step[w] = "Recreate" /\ step'[w] = "RecreatePost" /\ IsNext(w, p) /\ Vanishes(p)

(* With one pass at a time, no schedule is deleted while the breaker is
   tripped, whichever pass tripped it (deleteSchedules). *)
LatchHolds ==
    [][breaker => \A w \in Passes, p \in Programs : ~DeletedBy(w, p)]_vars

(* A schedule is deleted only if its program was at some time not to be
   recorded: neither options that do not parse, nor failures, nor changes in
   mid-pass cost a schedule (collectDeleteCandidates). *)
DeletedOnlyDeclined ==
    [][\A w \in Passes, p \in Programs : DeletedBy(w, p) => p \in declined]_vars

(* Still ours and under its first path, or under one a user gave. *)
Kept(p, s) == s # NoSchedule /\ s.ours /\ s.path \in {first[p]} \cup ExplicitPaths

(* Between its DELETE and its POST a schedule is what the pass remembers. *)
Recreating(w, p) ==
    step[w] = "RecreatePost" /\ IsNext(w, p) /\ schedule[p] = NoSchedule

(* Programs that had a schedule, were to be recorded all along, and have no
   schedule now, or another one. *)
Harmed ==
    {p \in Programs \ declined :
        /\ first[p] # NoSchedule /\ ~Kept(p, schedule[p])
        /\ ~\E w \in Passes : Recreating(w, p) /\ Kept(p, view[w].observed[p])}

(* A fault costs at most one program its schedule or its path, with one pass at
   a time: a call that fails, a pass that dies between any two calls, or a
   schedule that mirakc loses, with options, titles and reservations changing
   meanwhile.  Without a fault every schedule keeps its path through all
   recreations and renamings (recreateChanged recreates one after the other,
   recreateSchedule carries the path).  What a fault took is not regained: the
   next pass posts under the present title. *)
OneLossPerFault == Cardinality(Harmed) <= faults

(* Recreating only touches schedules of which not a byte has been recorded
   (docs/recording/reconciler.md:107). *)
RecordingsUntouched ==
    [][\A w \in Passes, p \in Programs :
          RecreatedBy(w, p) => schedule[p].state # "recording"]_vars

-----------------------------------------------------------------------------
(* Liveness. *)

Wanted(p) == decision[p] \in Options /\ p \notin never

(* Whatever failed, what is to be recorded ends up scheduled, with the options
   it has now as long as recording has not begun: passes are level triggered,
   also while the breaker is tripped. *)
Booked ==
    <>[](\A p \in Programs :
            Wanted(p) /\ ~ProgramEnded(p, clock)
               => /\ schedule[p] # NoSchedule
                  /\ schedule[p].ours /\ IsRecreateAllowed(schedule[p])
                        => ~OptionsDiffer(decision[p], schedule[p]))

(* What is not to be recorded ends up without a schedule of ours, unless the
   breaker is tripped or there is nothing to be recorded at all. *)
Tidied ==
    <>[](\/ breaker \/ \A p \in Programs : ~Wanted(p)
         \/ \A p \in Programs :
               \/ Wanted(p) \/ decision[p] = Broken \/ schedule[p] = NoSchedule
               \/ ~schedule[p].ours \/ schedule[p].state = "recording")

(* A reservation whose program ended without a schedule does not stay open: it
   is recorded as never scheduled, or has a recording. *)
NeverRecorded ==
    <>[](\A p \in Programs :
            Wanted(p) /\ ProgramEnded(p, clock) /\ schedule[p] = NoSchedule
               => p \in recorded)

=============================================================================
