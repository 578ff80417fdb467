-------------------------------- MODULE Watcher --------------------------------
(***************************************************************************)
(* How mirakc's records become recordings: the watcher follows the events  *)
(* of mirakc, a sweep compares mirakc's lists with the database from time  *)
(* to time, and both apply what they saw by the same transactions, often   *)
(* long after they saw it.  An ingest job copies a finished record into    *)
(* the library and deletes it from mirakc.                                 *)
(*                                                                         *)
(* mirakc is external.  The job is abstract here: it finds its recording   *)
(* through record_sync, commits an original at one stroke, and deletes the *)
(* record; what it does in between is the module Ingest's.                 *)
(***************************************************************************)
EXTENDS RecordObservation, Sequences

CONSTANTS
    Watchers, Sweeps, Ingesters,    \* processes of each kind
    Idle,
    MayCancel,      \* mirakc's recordings may be canceled (by another client)
    MaxFaults       \* bound: calls, transactions and processes that fail

ASSUME WatcherAssumption ==
    MayCancel \in BOOLEAN /\ MaxFaults \in Nat /\ IsFiniteSet(Records)

VARIABLES
    record,         \* record[r]: the state of mirakc's record r
    failedSchedules,\* programs whose schedule mirakc keeps as failed
    events,         \* events[w]: what mirakc has sent to watcher w: a record
                    \* (record-saved) or a program (recording.failed)
    seen,           \* seen[w]: the record a watcher fetched and has to apply
    step, view,     \* of each sweep
    job,            \* records with an ingest job queued, waiting or running
    ingest,         \* ingest[g]: what a worker is doing
    faults,
    swept           \* history: linked records whose record_sync row a sweep took

mirakc == <<record, failedSchedules>>
sweeps == <<step, view>>
jobs == <<job, ingest>>
vars == <<tables, mirakc, events, seen, sweeps, jobs, faults, swept>>

RecordStates == {"unborn", "purged"} \cup Statuses
Absent == "absent"
SweepSteps == {"idle", "schedules", "records", "stale", "process"}
IngestSteps == {"idle", "transfer", "delete"}

Views == [schedules : SUBSET Programs, listed : [Records -> Statuses \cup {Absent}],
          pending : SUBSET Records, incomplete : BOOLEAN]
EmptyView == [schedules |-> {}, listed |-> [r \in Records |-> Absent],
              pending |-> {}, incomplete |-> FALSE]
NoIngest == [step |-> "idle", record |-> NoRow, id |-> NoRow]

ProcessesOK ==
    /\ record \in [Records -> RecordStates]
    /\ failedSchedules \subseteq Programs
    /\ events \in [Watchers -> Seq(Records \cup Programs)]
    /\ job \subseteq Records /\ swept \subseteq Records
    /\ seen \in [Watchers -> {Idle} \cup [record : Records, status : Statuses]]
    /\ step \in [Sweeps -> SweepSteps] /\ view \in [Sweeps -> Views]
    /\ ingest \in [Ingesters -> [step : IngestSteps, record : Records \cup {NoRow},
                                 id : Ids \cup {NoRow}]]
    /\ faults \in 0..MaxFaults

TypeOK == TablesOK /\ ProcessesOK

Init ==
    /\ TablesInit
    /\ record = [r \in Records |-> "unborn"]
    /\ failedSchedules = {} /\ events = [w \in Watchers |-> <<>>] /\ job = {} /\ swept = {}
    /\ seen = [w \in Watchers |-> Idle]
    /\ step = [s \in Sweeps |-> "idle"] /\ view = [s \in Sweeps |-> EmptyView]
    /\ ingest = [g \in Ingesters |-> NoIngest]
    /\ faults = 0

Fault == faults < MaxFaults /\ faults' = faults + 1

-----------------------------------------------------------------------------
(* mirakc. *)

InQueue(q, e) == \E k \in DOMAIN q : q[k] = e

(* An event that waits already is not sent again: the watcher fetches the
   record when it gets to the event. *)
Append1(q, e) == IF InQueue(q, e) THEN q ELSE Append(q, e)

Send(e) == events' = [w \in Watchers |-> Append1(events[w], e)]
SendBoth(e, f) == events' = [w \in Watchers |-> Append1(Append1(events[w], e), f)]

(* A program is recorded again only if its earlier records failed or were
   canceled. *)
StartRecord(r) ==
    /\ record[r] = "unborn"
    /\ \A q \in Records \ {r} :
          EventOf[q] = EventOf[r] => record[q] \in {"unborn", "failed", "canceled"}
    /\ record' = [record EXCEPT ![r] = "recording"]
    /\ Send(r)
    /\ UNCHANGED <<tables, failedSchedules, seen, sweeps, jobs, faults, swept>>

EndRecord(r) ==
    /\ record[r] = "recording"
    /\ \/ /\ \E st \in {"finished"} \cup (IF MayCancel THEN {"canceled"} ELSE {}) :
                record' = [record EXCEPT ![r] = st]
          /\ Send(r)
          /\ UNCHANGED failedSchedules
       \/ /\ record' = [record EXCEPT ![r] = "failed"]
          /\ SendBoth(r, EventOf[r]) \/ SendBoth(EventOf[r], r)
          /\ failedSchedules' = failedSchedules \cup {EventOf[r]}
    /\ UNCHANGED <<tables, seen, sweeps, jobs, faults, swept>>

(* Recording fails before there is a record. *)
FailWithoutRecord(p) ==
    /\ p \notin failedSchedules
    /\ \A r \in Records : EventOf[r] = p => record[r] \in {"unborn", "failed", "canceled"}
    /\ failedSchedules' = failedSchedules \cup {p}
    /\ Send(p)
    /\ UNCHANGED <<tables, record, seen, sweeps, jobs, faults, swept>>

(* The failed schedule goes: the reconciler deletes it. *)
ForgetSchedule(p) ==
    /\ p \in failedSchedules
    /\ failedSchedules' = failedSchedules \ {p}
    /\ UNCHANGED <<tables, record, events, seen, sweeps, jobs, faults, swept>>

Orders(S) == {q \in [1..Cardinality(S) -> S] : \A e \in S : InQueue(q, e)}

(* The watcher starts anew or its connection breaks: what was on its way is
   lost, and on the new connection mirakc sends a record-saved for every record
   it has. *)
Reconnect(w) ==
    /\ \E q \in Orders({r \in Records : record[r] \in Statuses}) :
          events' = [events EXCEPT ![w] = q]
    /\ UNCHANGED <<tables, mirakc, seen, sweeps, jobs, faults, swept>>

-----------------------------------------------------------------------------
(* The enqueue follows the commit; its failure is only logged. *)
EnqueueIngest(r, status) ==
    IF EnqueuesIngest(r, status)
    THEN \/ job' = job \cup {r} /\ UNCHANGED faults
         \/ UNCHANGED job /\ Fault
    ELSE UNCHANGED <<job, faults>>

TakeEvent(w, e) ==
    /\ seen[w] = Idle /\ events[w] # <<>> /\ Head(events[w]) = e
    /\ events' = [events EXCEPT ![w] = Tail(@)]

(* Watcher w takes an event and fetches the record it names. *)
TakeSaved(w, r) ==
    /\ TakeEvent(w, r)
    /\ seen' = IF record[r] \in Statuses
               THEN [seen EXCEPT ![w] = [record |-> r, status |-> record[r]]] ELSE seen
    /\ UNCHANGED <<tables, mirakc, sweeps, jobs, faults, swept>>

(* Nothing retries an observation of the watcher that cannot be applied,
   whether the index refuses it or the database fails. *)
ProcessSaved(w) ==
    /\ seen[w] # Idle
    /\ LET r == seen[w].record  status == seen[w].status IN
          \/ ProcessRecord(r, status) /\ EnqueueIngest(r, status)
          \/ UNCHANGED <<tables, job, faults>>
    /\ seen' = [seen EXCEPT ![w] = Idle]
    /\ UNCHANGED <<mirakc, events, sweeps, ingest, swept>>

(* Watcher w takes a recording.failed; it may find the schedule gone and cannot
   tell what was to be recorded, or fail. *)
TakeFailure(w, p) ==
    /\ TakeEvent(w, p)
    /\ RecordFailedRecording(p) \/ UNCHANGED tables
    /\ UNCHANGED <<mirakc, seen, sweeps, jobs, faults, swept>>

-----------------------------------------------------------------------------
(* The sweep. *)

Goto(s, to, v) == step' = [step EXCEPT ![s] = to] /\ view' = [view EXCEPT ![s] = v]

ListSchedules(s) ==
    /\ step[s] = "idle"
    /\ \/ Goto(s, "schedules", [EmptyView EXCEPT !.schedules = failedSchedules])
          /\ UNCHANGED faults
       \/ Goto(s, "schedules", [EmptyView EXCEPT !.incomplete = TRUE]) /\ Fault
    /\ UNCHANGED <<tables, mirakc, events, seen, jobs, swept>>

SweepFailedSchedule(s, p) ==
    /\ step[s] = "schedules" /\ p \in view[s].schedules
    /\ \/ /\ ProcessFailedSchedule(p) /\ UNCHANGED faults
          /\ Goto(s, "schedules", [view[s] EXCEPT !.schedules = @ \ {p}])
       \/ /\ Fault /\ UNCHANGED tables
          /\ Goto(s, "schedules", [view[s] EXCEPT !.schedules = @ \ {p}, !.incomplete = TRUE])
    /\ UNCHANGED <<mirakc, events, seen, jobs, swept>>

ListRecords(s) ==
    LET listed == [r \in Records |-> IF record[r] \in Statuses THEN record[r] ELSE Absent]
    IN  /\ step[s] = "schedules" /\ view[s].schedules = {}
        /\ Goto(s, "stale", [view[s] EXCEPT !.listed = listed])
        /\ UNCHANGED <<tables, mirakc, events, seen, jobs, faults, swept>>

Listed(s) == {r \in Records : view[s].listed[r] # Absent}

DeleteStale(s) ==
    /\ step[s] = "stale"
    /\ DeleteStaleRecordSyncs(Listed(s))
    /\ swept' = swept \cup {r \in Records \ Listed(s) : sync[r] \in Ids}
    /\ Goto(s, "process", [view[s] EXCEPT !.pending = Listed(s)])
    /\ UNCHANGED <<mirakc, events, seen, jobs, faults>>

(* A record that cannot be processed does not keep the others from it. *)
SweepRecord(s, r) ==
    LET status == view[s].listed[r]
        rest == [view[s] EXCEPT !.pending = @ \ {r}]
    IN  /\ step[s] = "process" /\ r \in view[s].pending
        /\ \/ /\ ProcessRecord(r, status) /\ EnqueueIngest(r, status)
              /\ Goto(s, "process", rest)
           \/ /\ \/ RecordConflicts(r, status) /\ UNCHANGED faults
                 \/ Fault
              /\ UNCHANGED <<tables, job>>
              /\ Goto(s, "process", [rest EXCEPT !.incomplete = TRUE])
        /\ UNCHANGED <<mirakc, events, seen, ingest, swept>>

(* The marker of a successful sweep is set only if nothing failed. *)
SweepMarks(s) == step[s] = "process" /\ view[s].pending = {} /\ ~view[s].incomplete

EndSweep(s) ==
    /\ step[s] = "process" /\ view[s].pending = {}
    /\ Goto(s, "idle", EmptyView)
    /\ UNCHANGED <<tables, mirakc, events, seen, jobs, faults, swept>>

(* The listing or the deletion fails, or the process dies. *)
SweepFails(s) ==
    /\ step[s] # "idle" /\ Fault
    /\ Goto(s, "idle", EmptyView)
    /\ UNCHANGED <<tables, mirakc, events, seen, jobs, swept>>

-----------------------------------------------------------------------------
(* Ingest. *)

Working(g, r) == ingest[g].step # "idle" /\ ingest[g].record = r

(* The recording of the record; a record without one fails the attempt, which
   is tried again.  A job runs twice only after a rescue. *)
LookupTarget(g, r) ==
    /\ ingest[g] = NoIngest /\ r \in job
    /\ IF \E h \in Ingesters : Working(h, r) THEN Fault ELSE UNCHANGED faults
    /\ sync[r] \in Ids
    /\ ingest' = [ingest EXCEPT ![g] =
          [step |-> IF recording[sync[r]].original = NoRow THEN "transfer" ELSE "delete",
           record |-> r, id |-> sync[r]]]
    /\ UNCHANGED <<tables, mirakc, events, seen, sweeps, job, swept>>

(* The whole finished record is in the library. *)
IngestCommits(g) ==
    LET r == ingest[g].record IN
    /\ ingest[g].step = "transfer"
    /\ record[r] = "finished"
    /\ CommitOriginal(ingest[g].id, r)
    /\ ingest' = [ingest EXCEPT ![g].step = "delete"]
    /\ UNCHANGED <<mirakc, events, seen, sweeps, job, faults, swept>>

(* A record that ended otherwise is given up for good. *)
IngestDiscards(g) ==
    /\ ingest[g].step = "transfer" /\ record[ingest[g].record] \in {"failed", "canceled"}
    /\ job' = job \ {ingest[g].record}
    /\ ingest' = [ingest EXCEPT ![g] = NoIngest]
    /\ UNCHANGED <<tables, mirakc, events, seen, sweeps, faults, swept>>

(* The record is purged from mirakc; if that fails the job is done all the same. *)
DeleteEdgeRecord(g) ==
    LET r == ingest[g].record IN
    /\ ingest[g].step = "delete"
    /\ \/ record' = [record EXCEPT ![r] = "purged"] /\ UNCHANGED faults
       \/ UNCHANGED record /\ Fault
    /\ job' = job \ {r}
    /\ ingest' = [ingest EXCEPT ![g] = NoIngest]
    /\ UNCHANGED <<tables, failedSchedules, events, seen, sweeps, swept>>

(* Another worker has committed or purged meanwhile: the attempt fails. *)
IngestLoses(g) ==
    /\ ingest[g].step = "transfer"
    /\ recording[ingest[g].id].original # NoRow \/ record[ingest[g].record] = "purged"
    /\ ingest' = [ingest EXCEPT ![g] = NoIngest]
    /\ UNCHANGED <<tables, mirakc, events, seen, sweeps, job, faults, swept>>

(* A call fails or the process dies.  The job stays, or has no attempts left. *)
IngestFails(g) ==
    /\ ingest[g].step # "idle" /\ Fault
    /\ job' \in {job, job \ {ingest[g].record}}
    /\ ingest' = [ingest EXCEPT ![g] = NoIngest]
    /\ UNCHANGED <<tables, mirakc, events, seen, sweeps, swept>>

-----------------------------------------------------------------------------
(* Users. *)

UserStep ==
    /\ \/ \E i \in Ids : SoftDelete(i) \/ Restore(i)
       \/ \E p \in Programs : ReservationEnds(p)
    /\ UNCHANGED <<mirakc, events, seen, sweeps, jobs, faults, swept>>

MirakcStep ==
    \/ \E r \in Records : StartRecord(r) \/ EndRecord(r)
    \/ \E p \in Programs : FailWithoutRecord(p) \/ ForgetSchedule(p)

WatcherStep(w) ==
    \/ \E r \in Records : TakeSaved(w, r)
    \/ ProcessSaved(w)
    \/ \E p \in Programs : TakeFailure(w, p)

SweepStep(s) ==
    \/ ListSchedules(s) \/ ListRecords(s) \/ DeleteStale(s) \/ EndSweep(s)
    \/ \E p \in Programs : SweepFailedSchedule(s, p)
    \/ \E r \in Records : SweepRecord(s, r)

IngestStep(g) ==
    \/ \E r \in Records : LookupTarget(g, r)
    \/ IngestCommits(g) \/ IngestDiscards(g) \/ IngestLoses(g) \/ DeleteEdgeRecord(g)

Next ==
    \/ UserStep \/ MirakcStep
    \/ \E w \in Watchers : WatcherStep(w) \/ Reconnect(w)
    \/ \E s \in Sweeps : SweepStep(s) \/ SweepFails(s)
    \/ \E g \in Ingesters : IngestStep(g) \/ IngestFails(g)

Spec == Init /\ [][Next]_vars

(* Periodic jobs run a sweep again and again, River runs a queued job, and the
   watcher's loop goes on. *)
Fairness ==
    /\ \A w \in Watchers : WF_vars(WatcherStep(w))
    /\ \A s \in Sweeps : WF_vars(SweepStep(s))
    /\ \A g \in Ingesters : WF_vars(IngestStep(g))

FairSpec == Spec /\ Fairness

-----------------------------------------------------------------------------
(* A recording that has ended keeps the state it ended in, however late an
   older observation of its record arrives (UpdateRecordingStatus). *)
TerminalStays ==
    [][\A i \in Ids : recording[i] # NoRow /\ recording[i].status \in Terminal
          => recording'[i].status = recording[i].status]_vars

(* A recording whose record did not fail is never marked failed, whatever else
   failed for its event, in whatever order it is seen (CreateOrGetFailedRecording:
   a real record wins over an inference). *)
NoFalseFailure ==
    \A r \in Records : sync[r] \in Ids /\ recording[sync[r]].status = "failed"
                          => record[r] = "failed"

(* One record makes one recording as long as its record_sync row stays, though
   watchers and sweeps apply it at once (AcquireRecordSync). *)
OneRecording ==
    \A r \in Records \ swept : Cardinality(attributed[r]) <= 1

(* Every finished record of ours is in the library when mirakc no longer has it,
   and it comes to that although the job found its recording long before it
   commits (docs/recording/watcher.md:25, commitAndFinish). *)
Ingested ==
    \A r \in Managed :
        record[r] = "finished"
          ~> record[r] = "purged" /\ \E i \in attributed[r] : recording[i].original = r

=============================================================================
