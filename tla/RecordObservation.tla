--------------------------- MODULE RecordObservation ---------------------------
(***************************************************************************)
(* The tables recordings and record_sync, and the transactions through     *)
(* which observations of mirakc's records reach them (recordobservation.go *)
(* and the queries it runs).  A recordings row is one attempt to record a  *)
(* broadcast event; a unique partial index allows one row per event among  *)
(* those neither in the trash nor superseded.  record_sync links a record  *)
(* of mirakc to its row, and its row lock serializes the observations of   *)
(* one record, so every transaction is one action here.                    *)
(***************************************************************************)
EXTENDS Integers, FiniteSets

CONSTANTS
    Records,    \* ids of mirakc's records
    Programs,   \* broadcast events
    EventOf,    \* EventOf[r]: the event that record r is a record of
    Managed,    \* records that carry our tag
    Ids,        \* ids of recordings rows
    NoRow, Unlinked,    \* record_sync: no row, a row without recording_id
    MaxTrash    \* bound: how often users trash or restore

ASSUME ObservationAssumption ==
    /\ EventOf \in [Records -> Programs]
    /\ Managed \subseteq Records
    /\ Ids \subseteq Nat
    /\ NoRow \notin Ids /\ Unlinked \notin Ids /\ NoRow # Unlinked
    /\ MaxTrash \in Nat

VARIABLES
    recording,  \* recording[i]: the recordings row i, or NoRow
    sync,       \* sync[r]: the record_sync row of r
    reserved,   \* programs with a reservation
    trashed,    \* used up of MaxTrash
    attributed  \* history: attributed[r], the rows r was ever linked to

tables == <<recording, sync, reserved, trashed, attributed>>

Statuses == {"recording", "finished", "failed", "canceled"}
Terminal == {"finished", "failed", "canceled"}

Rows == [program : Programs, status : Statuses, deleted : BOOLEAN,
         superseded : BOOLEAN, failedEvent : BOOLEAN, original : {NoRow} \cup Records]

(* The absence of a row is neither a row nor a record. *)
ASSUME NoRowAssumption == NoRow \notin Rows /\ NoRow \notin Records

Live(i) == recording[i] # NoRow /\ ~recording[i].deleted /\ ~recording[i].superseded

(* The rows of the partial index for p: at most one. *)
LiveOf(p) == {i \in Ids : Live(i) /\ recording[i].program = p}

RowsOK ==
    /\ recording \in [Ids -> Rows \cup {NoRow}]
    /\ sync \in [Records -> Ids \cup {NoRow, Unlinked}]
    /\ reserved \subseteq Programs
    /\ trashed \in 0..MaxTrash
    /\ attributed \in [Records -> SUBSET Ids]

TablesOK == RowsOK /\ \A p \in Programs : Cardinality(LiveOf(p)) <= 1

TablesInit ==
    /\ recording = [i \in Ids |-> NoRow]
    /\ sync = [r \in Records |-> NoRow]
    /\ reserved = Programs
    /\ trashed = 0
    /\ attributed = [r \in Records |-> {}]

-----------------------------------------------------------------------------
LiveFailed(p) == {i \in LiveOf(p) : recording[i].status = "failed"}
LiveReal(p) == LiveOf(p) \ LiveFailed(p)

NextId(i) == recording[i] = NoRow /\ \A j \in Ids : j < i => recording[j] # NoRow

NewRow(p, status) ==
    [program |-> p, status |-> status, deleted |-> FALSE, superseded |-> FALSE,
     failedEvent |-> status = "failed", original |-> NoRow]

(* Mutant: the latest observation wins. *)
UpdateRecordingStatusLast(row, status) == [row EXCEPT !.status = status]

(* Terminal states are never left: observations may come out of order. *)
UpdateRecordingStatus(row, status) ==
    IF row.status \in Terminal THEN row ELSE [row EXCEPT !.status = status]

AppendQualityEventIfMissing(row, status) ==
    [row EXCEPT !.failedEvent = @ \/ status = "failed"]

Link(r, i) ==
    /\ sync' = [sync EXCEPT ![r] = i]
    /\ attributed' = [attributed EXCEPT ![r] = @ \cup {i}]

(* The record is linked: its row follows it. *)
UpdateLinked(r, status) ==
    /\ sync[r] \in Ids
    /\ recording' = [recording EXCEPT ![sync[r]] =
          AppendQualityEventIfMissing(UpdateRecordingStatus(@, status), status)]
    /\ UNCHANGED <<sync, reserved, trashed, attributed>>

(* Someone else's record: observed, not linked. *)
ObserveForeign(r) ==
    /\ sync[r] \notin Ids /\ r \notin Managed
    /\ sync' = [sync EXCEPT ![r] = Unlinked]
    /\ UNCHANGED <<recording, reserved, trashed, attributed>>

(* A live row that is not a failure keeps its place: the insert fails and the
   transaction is rolled back. *)
RecordConflicts(r, status) ==
    /\ sync[r] \notin Ids /\ r \in Managed /\ status # "failed"
    /\ LiveReal(EventOf[r]) # {}

(* Mutant: the record is not looked up before a row is made for it. *)
CreateRecordingUnlocked(r, status) ==
    /\ r \in Managed /\ status # "failed"
    /\ LiveReal(EventOf[r]) = {}
    /\ \E i \in Ids :
          /\ NextId(i)
          /\ recording' = [j \in Ids |->
                IF j = i THEN NewRow(EventOf[r], status)
                ELSE IF j \in LiveFailed(EventOf[r])
                THEN [recording[j] EXCEPT !.superseded = TRUE] ELSE recording[j]]
          /\ Link(r, i)
    /\ UNCHANGED <<reserved, trashed>>

(* A record that is not a failure supersedes the failure that was inferred or
   observed before it, and gets a row of its own. *)
CreateRecording(r, status) ==
    /\ sync[r] \notin Ids /\ r \in Managed /\ status # "failed"
    /\ LiveReal(EventOf[r]) = {}
    /\ \E i \in Ids :
          /\ NextId(i)
          /\ recording' = [j \in Ids |->
                IF j = i THEN NewRow(EventOf[r], status)
                ELSE IF j \in LiveFailed(EventOf[r])
                THEN [recording[j] EXCEPT !.superseded = TRUE] ELSE recording[j]]
          /\ Link(r, i)
    /\ UNCHANGED <<reserved, trashed>>

(* Row i gets the failure of p, or is created for it. *)
FailedRow(p, i) ==
    recording' = [recording EXCEPT ![i] =
        IF @ = NoRow THEN NewRow(p, "failed") ELSE AppendQualityEventIfMissing(@, "failed")]

(* Mutant: whatever is live is reused, and takes the status of the record. *)
CreateOrGetFailedAny(r) ==
    /\ sync[r] \notin Ids /\ r \in Managed
    /\ \E i \in Ids :
          /\ IF LiveOf(EventOf[r]) = {} THEN NextId(i) ELSE i \in LiveOf(EventOf[r])
          /\ recording' = [recording EXCEPT ![i] =
                IF @ = NoRow THEN NewRow(EventOf[r], "failed")
                ELSE AppendQualityEventIfMissing(UpdateRecordingStatus(@, "failed"), "failed")]
          /\ Link(r, i)
    /\ UNCHANGED <<reserved, trashed>>

(* A failed record shares the row of an earlier failure of its event; beside a
   row that is no failure it is observed and not linked. *)
CreateOrGetFailed(r) ==
    /\ sync[r] \notin Ids /\ r \in Managed
    /\ \/ \E i \in Ids :
             /\ IF LiveOf(EventOf[r]) = {} THEN NextId(i) ELSE i \in LiveFailed(EventOf[r])
             /\ FailedRow(EventOf[r], i)
             /\ Link(r, i)
       \/ /\ LiveReal(EventOf[r]) # {}
          /\ sync' = [sync EXCEPT ![r] = Unlinked]
          /\ UNCHANGED <<recording, attributed>>
    /\ UNCHANGED <<reserved, trashed>>

(* The transaction for an observation of r with this status, committed. *)
ProcessRecord(r, status) ==
    \/ UpdateLinked(r, status)
    \/ ObserveForeign(r)
    \/ CreateRecording(r, status)
    \/ status = "failed" /\ CreateOrGetFailed(r)

(* Mutant: only the observation that links the record asks for a job. *)
EnqueuesIngestOnce(r, status) ==
    sync[r] \notin Ids /\ sync'[r] \in Ids /\ status \in {"recording", "finished"}

(* ProcessRecord asks for an ingest job. *)
EnqueuesIngest(r, status) == sync'[r] \in Ids /\ status \in {"recording", "finished"}

(* A schedule that mirakc keeps as failed. *)
ProcessFailedSchedule(p) ==
    /\ IF p \notin reserved \/ LiveReal(p) # {}
       THEN UNCHANGED recording
       ELSE \E i \in Ids :
               /\ IF LiveOf(p) = {} THEN NextId(i) ELSE i \in LiveFailed(p)
               /\ FailedRow(p, i)
    /\ UNCHANGED <<sync, reserved, trashed, attributed>>

(* The event recording.failed: appended to whichever row is live. *)
RecordFailedRecording(p) ==
    /\ IF p \notin reserved
       THEN UNCHANGED recording
       ELSE \E i \in Ids :
               /\ IF LiveOf(p) = {} THEN NextId(i) ELSE i \in LiveOf(p)
               /\ FailedRow(p, i)
    /\ UNCHANGED <<sync, reserved, trashed, attributed>>

(* record_sync keeps the rows of the listing and loses the others. *)
DeleteStaleRecordSyncs(listed) ==
    /\ sync' = [r \in Records |-> IF r \in listed THEN sync[r] ELSE NoRow]
    /\ UNCHANGED <<recording, reserved, trashed, attributed>>

SoftDelete(i) ==
    /\ trashed < MaxTrash /\ trashed' = trashed + 1
    /\ recording[i] # NoRow
    /\ recording' = [recording EXCEPT ![i].deleted = TRUE]
    /\ UNCHANGED <<sync, reserved, attributed>>

(* Refused by the index if the event has another live row. *)
Restore(i) ==
    /\ trashed < MaxTrash /\ trashed' = trashed + 1
    /\ recording[i] # NoRow /\ recording[i].deleted
    /\ recording[i].superseded \/ LiveOf(recording[i].program) = {}
    /\ recording' = [recording EXCEPT ![i].deleted = FALSE]
    /\ UNCHANGED <<sync, reserved, attributed>>

(* CommitOriginal: the one original of a recording, from record r. *)
CommitOriginal(i, r) ==
    /\ recording[i].original = NoRow
    /\ recording' = [recording EXCEPT ![i].original = r]
    /\ UNCHANGED <<sync, reserved, trashed, attributed>>

(* The reservation of a program ends. *)
ReservationEnds(p) ==
    /\ p \in reserved
    /\ reserved' = reserved \ {p}
    /\ UNCHANGED <<recording, sync, trashed, attributed>>

=============================================================================
