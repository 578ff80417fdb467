----------------------------- MODULE WatcherProofs -----------------------------
(***************************************************************************)
(* What the tables of recordings promise while watchers, sweeps, workers,  *)
(* users and mirakc take their steps in any order: proofs about Watcher.   *)
(*                                                                         *)
(* A row and the records linked to it are related by Inv: a row that is    *)
(* not a failure belongs to one record, the records of a failed row have   *)
(* all failed, and what a watcher or a sweep remembers of a failure is     *)
(* still true when it is applied, because a record never leaves that       *)
(* state.                                                                  *)
(***************************************************************************)
EXTENDS Watcher, FiniteSetTheorems, TLAPS

-----------------------------------------------------------------------------
(* The invariant. *)

(* The partial index: an event has one live row. *)
UniqueInv ==
    \A i, j \in Ids :
        Live(i) /\ Live(j) /\ recording[i].program = recording[j].program => i = j

LinkInv ==
    /\ \A r \in Records : sync[r] \in Ids => sync[r] \in attributed[r]
    /\ \A r \in Records : \A i \in attributed[r] : recording[i] # NoRow

OnceInv ==
    \A r \in Records \ swept :
        attributed[r] # {} => sync[r] \in Ids /\ attributed[r] = {sync[r]}

(* A failed row is the row of failed records only, any other row is the row of
   one record. *)
RowInv ==
    \A i \in Ids : \A r \in Records : i \in attributed[r] =>
        IF recording[i].status = "failed"
        THEN record[r] = "failed"
        ELSE \A q \in Records : i \in attributed[q] => q = r

(* An original comes from a record of its row that was finished. *)
OriginalInv ==
    \A i \in Ids : recording[i] # NoRow /\ recording[i].original # NoRow =>
        /\ i \in attributed[recording[i].original]
        /\ record[recording[i].original] \in {"finished", "purged"}

TablesInv == RowsOK /\ UniqueInv /\ LinkInv /\ OnceInv /\ RowInv /\ OriginalInv

(* A failure that was seen is still one, however late it is applied. *)
SeenInv ==
    \A w \in Watchers : seen[w] # Idle /\ seen[w].status = "failed"
                           => record[seen[w].record] = "failed"

ViewTrue(at, v) ==
    \A r \in Records :
        /\ v.listed[r] = "failed" => record[r] = "failed"
        /\ r \in v.pending => at = "process" /\ v.listed[r] # Absent

ViewInv == \A s \in Sweeps : ViewTrue(step[s], view[s])

(* A worker that is to delete a record has the original of that record. *)
IngestInv ==
    \A g \in Ingesters : ingest[g].step # "idle" =>
        /\ ingest[g].record \in Records
        /\ ingest[g].id \in attributed[ingest[g].record]
        /\ ingest[g].step = "delete" =>
              recording[ingest[g].id].original = ingest[g].record

(* mirakc loses no record of which the library has no original
   (deleteEdgeRecord follows commitAndFinish). *)
PurgedIsIngested ==
    \A r \in Records : record[r] = "purged" =>
        \E i \in attributed[r] : recording[i].original = r

Inv ==
    /\ TablesInv /\ ProcessesOK /\ SeenInv /\ ViewInv
    /\ IngestInv /\ PurgedIsIngested

-----------------------------------------------------------------------------
(* What no step undoes. *)

(* A record that failed, or that was finished, stays so. *)
RecordsGo ==
    \A r \in Records :
        /\ record[r] = "failed" => record'[r] = "failed"
        /\ record[r] \in {"finished", "purged"} => record'[r] \in {"finished", "purged"}

RowsGo ==
    \A i \in Ids : recording[i] # NoRow =>
        /\ recording'[i] # NoRow
        /\ recording[i].original # NoRow => recording'[i].original = recording[i].original
        /\ recording[i].status \in Terminal => recording'[i].status = recording[i].status

LinksGo == \A r \in Records : attributed[r] \subseteq attributed'[r]

Grows == RowsGo /\ LinksGo

NonePurged == \A r \in Records : record'[r] = "purged" => record[r] = "purged"

-----------------------------------------------------------------------------
(* Rows. *)

LEMMA NewRowIsARow ==
  ASSUME NEW p \in Programs, NEW status \in Statuses
  PROVE  /\ NewRow(p, status) \in Rows /\ NewRow(p, status) # NoRow
         /\ NewRow(p, status).program = p /\ NewRow(p, status).status = status
         /\ ~NewRow(p, status).deleted /\ ~NewRow(p, status).superseded
         /\ NewRow(p, status).original = NoRow
<1>1. NewRow(p, status) \in Rows
  BY DEF NewRow, Rows
<1> QED BY <1>1, NoRowAssumption DEF NewRow

LEMMA StatusIsUpdated ==
  ASSUME NEW row \in Rows, NEW status \in Statuses
  PROVE  LET new == UpdateRecordingStatus(row, status) IN
         /\ new \in Rows
         /\ new.status = IF row.status \in Terminal THEN row.status ELSE status
         /\ new.program = row.program /\ new.original = row.original
         /\ new.deleted = row.deleted /\ new.superseded = row.superseded
BY DEF UpdateRecordingStatus, Rows

LEMMA EventIsAppended ==
  ASSUME NEW row \in Rows, NEW status \in Statuses
  PROVE  LET new == AppendQualityEventIfMissing(row, status) IN
         /\ new \in Rows /\ new.status = row.status
         /\ new.program = row.program /\ new.original = row.original
         /\ new.deleted = row.deleted /\ new.superseded = row.superseded
BY DEF AppendQualityEventIfMissing, Rows

(* What the new failed row, or the appended one, is. *)
LEMMA FailedRowIs ==
  ASSUME RowsOK, NEW p \in Programs, NEW i \in Ids, FailedRow(p, i)
  PROVE  /\ recording' \in [Ids -> Rows \cup {NoRow}]
         /\ \A j \in Ids \ {i} : recording'[j] = recording[j]
         /\ recording'[i] # NoRow
         /\ recording[i] = NoRow =>
               /\ recording'[i].program = p /\ recording'[i].status = "failed"
               /\ recording'[i].original = NoRow
         /\ recording[i] # NoRow =>
               /\ recording'[i].status = recording[i].status
               /\ recording'[i].program = recording[i].program
               /\ recording'[i].original = recording[i].original
               /\ recording'[i].deleted = recording[i].deleted
               /\ recording'[i].superseded = recording[i].superseded
<1>1. "failed" \in Statuses
  BY DEF Statuses
<1>2. CASE recording[i] = NoRow
  <2>1. recording' = [recording EXCEPT ![i] = NewRow(p, "failed")]
    BY <1>2 DEF FailedRow, RowsOK
  <2>2. recording'[i] = NewRow(p, "failed")
    BY <2>1 DEF RowsOK
  <2> QED BY <1>1, <1>2, <2>1, <2>2, NewRowIsARow DEF RowsOK
<1>3. CASE recording[i] # NoRow
  <2> DEFINE new == AppendQualityEventIfMissing(recording[i], "failed")
  <2>1. recording' = [recording EXCEPT ![i] = new] /\ recording[i] \in Rows
    BY <1>3 DEF FailedRow, RowsOK
  <2>2. /\ new \in Rows /\ new # NoRow /\ new.status = recording[i].status
        /\ new.program = recording[i].program /\ new.original = recording[i].original
        /\ new.deleted = recording[i].deleted /\ new.superseded = recording[i].superseded
    BY <1>1, <2>1, EventIsAppended, NoRowAssumption
  <2> HIDE DEF new
  <2> QED BY <1>3, <2>1, <2>2 DEF RowsOK
<1> QED BY <1>2, <1>3

-----------------------------------------------------------------------------
(* Transactions that leave the links as they are. *)

(* A row keeps its status and its original; a new row has no original. *)
RowsStay ==
    \A i \in Ids :
        /\ recording[i] # NoRow =>
              /\ recording'[i] # NoRow
              /\ recording'[i].status = recording[i].status
              /\ recording'[i].original = recording[i].original
        /\ recording[i] = NoRow /\ recording'[i] # NoRow => recording'[i].original = NoRow

LEMMA RowsStayKeeps ==
  ASSUME RowsOK, LinkInv, OnceInv, RowInv, OriginalInv, RowsStay,
         UNCHANGED <<sync, attributed, swept>>, RecordsGo
  PROVE  LinkInv' /\ OnceInv' /\ RowInv' /\ OriginalInv' /\ Grows
<1>1. LinkInv'
  BY DEF LinkInv, RowsStay, RowsOK
<1>2. OnceInv'
  BY DEF OnceInv
<1>3. RowInv'
  <2> SUFFICES ASSUME NEW i \in Ids, NEW r \in Records, i \in attributed[r]
               PROVE  IF recording'[i].status = "failed"
                      THEN record'[r] = "failed"
                      ELSE \A q \in Records : i \in attributed[q] => q = r
    BY DEF RowInv
  <2>1. recording[i] # NoRow /\ recording'[i].status = recording[i].status
    BY DEF LinkInv, RowsStay
  <2> QED BY <2>1 DEF RowInv, RecordsGo
<1>4. OriginalInv'
  <2> SUFFICES ASSUME NEW i \in Ids, recording'[i] # NoRow, recording'[i].original # NoRow
               PROVE  /\ i \in attributed[recording'[i].original]
                      /\ record'[recording'[i].original] \in {"finished", "purged"}
    BY DEF OriginalInv
  <2>1. recording[i] # NoRow /\ recording'[i].original = recording[i].original
    BY DEF RowsStay
  <2>2. recording[i].original \in Records
    BY <2>1 DEF RowsOK, Rows
  <2> QED BY <2>1, <2>2 DEF OriginalInv, RecordsGo
<1>5. Grows
  BY DEF Grows, RowsGo, LinksGo, RowsStay
<1> QED BY <1>1, <1>2, <1>3, <1>4, <1>5

(* A step of which the tables are no part. *)
LEMMA TablesStay ==
  ASSUME TablesInv, UNCHANGED <<tables, swept>>, RecordsGo
  PROVE  TablesInv' /\ Grows
<1>1. RowsStay
  BY DEF RowsStay, tables
<1>2. RowsOK' /\ UniqueInv'
  BY DEF TablesInv, RowsOK, UniqueInv, Live, tables
<1> QED BY <1>1, <1>2, RowsStayKeeps DEF TablesInv, tables

(* An id that no row has is linked to nothing. *)
LEMMA NewIdIsFree ==
  ASSUME LinkInv, NEW i \in Ids, recording[i] = NoRow, NEW r \in Records
  PROVE  i \notin attributed[r]
BY DEF LinkInv

(* The failure of p, which may have a live row. *)
LEMMA FailedRowKeeps ==
  ASSUME TablesInv, NEW p \in Programs, NEW i \in Ids, FailedRow(p, i),
         (LiveOf(p) = {} /\ NextId(i)) \/ i \in LiveOf(p)
  PROVE  RowsStay /\ UniqueInv' /\ recording' \in [Ids -> Rows \cup {NoRow}]
<1>1. RowsOK /\ UniqueInv
  BY DEF TablesInv
<1>2. RowsStay
  BY <1>1, FailedRowIs DEF RowsStay
<1>3. UniqueInv'
  <2>1. \A j \in Ids \ {i} : Live(j)' = Live(j) /\ recording'[j] = recording[j]
    BY <1>1, FailedRowIs DEF Live
  <2>2. CASE i \in LiveOf(p)
    <3>1. Live(i) /\ recording'[i].program = recording[i].program /\ recording[i].program = p
      BY <1>1, <2>2, FailedRowIs DEF LiveOf, Live
    <3> QED BY <1>1, <2>1, <3>1 DEF UniqueInv
  <2>3. CASE LiveOf(p) = {} /\ NextId(i)
    <3>1. recording'[i].program = p
      BY <1>1, <2>3, FailedRowIs DEF NextId
    <3>2. \A j \in Ids \ {i} : Live(j) => recording[j].program # p
      BY <2>3 DEF LiveOf
    <3> QED BY <1>1, <2>1, <3>1, <3>2 DEF UniqueInv
  <2> QED BY <2>2, <2>3
<1> QED BY <1>1, <1>2, <1>3, FailedRowIs

LEMMA ProcessFailedScheduleKeeps ==
  ASSUME TablesInv, NEW p \in Programs, ProcessFailedSchedule(p),
         UNCHANGED <<record, swept>>
  PROVE  TablesInv' /\ Grows
<1>0. RecordsGo
  BY DEF RecordsGo
<1>1. CASE UNCHANGED recording
  BY <1>0, <1>1, TablesStay DEF ProcessFailedSchedule, tables
<1>2. ASSUME NEW i \in Ids, (LiveOf(p) = {} /\ NextId(i)) \/ i \in LiveFailed(p), FailedRow(p, i)
      PROVE  TablesInv' /\ Grows
  <2>1. RowsStay /\ UniqueInv' /\ recording' \in [Ids -> Rows \cup {NoRow}]
    BY <1>2, FailedRowKeeps DEF LiveFailed
  <2>2. LinkInv' /\ OnceInv' /\ RowInv' /\ OriginalInv' /\ Grows
    BY <1>0, <2>1, RowsStayKeeps DEF ProcessFailedSchedule, TablesInv
  <2> QED BY <2>1, <2>2 DEF TablesInv, RowsOK, ProcessFailedSchedule
<1> QED BY <1>1, <1>2 DEF ProcessFailedSchedule

LEMMA RecordFailedRecordingKeeps ==
  ASSUME TablesInv, NEW p \in Programs, RecordFailedRecording(p),
         UNCHANGED <<record, swept>>
  PROVE  TablesInv' /\ Grows
<1>0. RecordsGo
  BY DEF RecordsGo
<1>1. CASE UNCHANGED recording
  BY <1>0, <1>1, TablesStay DEF RecordFailedRecording, tables
<1>2. ASSUME NEW i \in Ids, (LiveOf(p) = {} /\ NextId(i)) \/ i \in LiveOf(p), FailedRow(p, i)
      PROVE  TablesInv' /\ Grows
  <2>1. RowsStay /\ UniqueInv' /\ recording' \in [Ids -> Rows \cup {NoRow}]
    BY <1>2, FailedRowKeeps
  <2>2. LinkInv' /\ OnceInv' /\ RowInv' /\ OriginalInv' /\ Grows
    BY <1>0, <2>1, RowsStayKeeps DEF RecordFailedRecording, TablesInv
  <2> QED BY <2>1, <2>2 DEF TablesInv, RowsOK, RecordFailedRecording
<1> QED BY <1>1, <1>2 DEF RecordFailedRecording

(* A user's step: a row goes to the trash or comes back, if the index lets it. *)
LEMMA UserStepKeeps ==
  ASSUME TablesInv, UserStep
  PROVE  TablesInv' /\ Grows
<1>0. RecordsGo /\ UNCHANGED swept /\ RowsOK /\ UniqueInv
  BY DEF RecordsGo, UserStep, mirakc, TablesInv
<1>1. ASSUME NEW i \in Ids, NEW d \in BOOLEAN, recording[i] # NoRow,
             recording' = [recording EXCEPT ![i].deleted = d],
             UNCHANGED <<sync, reserved, attributed>>, trashed' \in 0..MaxTrash,
             d \/ recording[i].superseded \/ LiveOf(recording[i].program) = {}
      PROVE  TablesInv' /\ Grows
  <2> DEFINE new == [recording[i] EXCEPT !.deleted = d]
  <2>1. recording' = [recording EXCEPT ![i] = new] /\ recording[i] \in Rows
    BY <1>0, <1>1 DEF RowsOK
  <2>2. /\ new \in Rows /\ new # NoRow /\ new.status = recording[i].status
        /\ new.program = recording[i].program /\ new.original = recording[i].original
        /\ new.deleted = d /\ new.superseded = recording[i].superseded
    BY <2>1, NoRowAssumption DEF Rows
  <2> HIDE DEF new
  <2>3. recording' \in [Ids -> Rows \cup {NoRow}] /\ recording'[i] = new
        /\ \A j \in Ids \ {i} : recording'[j] = recording[j] /\ Live(j)' = Live(j)
    BY <1>0, <2>1, <2>2 DEF RowsOK, Live
  <2>4. RowsStay
    BY <1>1, <2>2, <2>3 DEF RowsStay
  <2>5. LinkInv' /\ OnceInv' /\ RowInv' /\ OriginalInv' /\ Grows
    BY <1>0, <1>1, <2>4, RowsStayKeeps DEF TablesInv
  <2>6. RowsOK'
    BY <1>0, <1>1, <2>3 DEF RowsOK
  <2>7. UniqueInv'
    <3>1. CASE d \/ recording[i].superseded
      <4>1. ~Live(i)'
        BY <2>2, <2>3, <3>1 DEF Live
      <4> QED BY <1>0, <2>3, <4>1 DEF UniqueInv
    <3>2. CASE LiveOf(recording[i].program) = {}
      <4>1. \A j \in Ids \ {i} : Live(j) => recording[j].program # recording'[i].program
        BY <2>2, <2>3, <3>2 DEF LiveOf
      <4> QED BY <1>0, <2>3, <4>1 DEF UniqueInv
    <3> QED BY <1>1, <3>1, <3>2
  <2> QED BY <2>5, <2>6, <2>7 DEF TablesInv
<1>2. ASSUME trashed < MaxTrash, trashed' = trashed + 1
      PROVE  trashed' \in 0..MaxTrash
  BY <1>0, <1>2, ObservationAssumption DEF RowsOK
<1>3. ASSUME NEW i \in Ids, SoftDelete(i)
      PROVE  TablesInv' /\ Grows
  BY <1>1, <1>2, <1>3 DEF SoftDelete
<1>4. ASSUME NEW i \in Ids, Restore(i)
      PROVE  TablesInv' /\ Grows
  BY <1>1, <1>2, <1>4 DEF Restore
<1>5. ASSUME NEW p \in Programs, ReservationEnds(p)
      PROVE  TablesInv' /\ Grows
  <2>1. RowsStay /\ UniqueInv' /\ RowsOK'
    BY <1>0, <1>5 DEF ReservationEnds, RowsStay, UniqueInv, Live, RowsOK
  <2> QED BY <1>0, <1>5, <2>1, RowsStayKeeps DEF ReservationEnds, TablesInv
<1> QED BY <1>3, <1>4, <1>5 DEF UserStep

(* The sweep takes record_sync rows, and the history of links with them. *)
LEMMA DeleteStaleKeeps ==
  ASSUME TablesInv, NEW listed, DeleteStaleRecordSyncs(listed), UNCHANGED record,
         swept' = swept \cup {r \in Records \ listed : sync[r] \in Ids}
  PROVE  TablesInv' /\ Grows
<1>0. RowsOK /\ NoRow \notin Ids
  BY ObservationAssumption DEF TablesInv
<1>1. UNCHANGED <<recording, reserved, trashed, attributed>>
  BY DEF DeleteStaleRecordSyncs
<1>2. \A r \in Records : sync'[r] = IF r \in listed THEN sync[r] ELSE NoRow
  BY DEF DeleteStaleRecordSyncs
<1>3. RowsOK'
  BY <1>0, <1>1, <1>2 DEF RowsOK, DeleteStaleRecordSyncs
<1>4. UniqueInv' /\ RowInv' /\ OriginalInv' /\ Grows
  BY <1>1 DEF TablesInv, UniqueInv, Live, RowInv, OriginalInv, Grows, RowsGo, LinksGo
<1>5. LinkInv'
  BY <1>0, <1>1, <1>2 DEF TablesInv, LinkInv
<1>6. OnceInv'
  <2> SUFFICES ASSUME NEW r \in Records \ swept', attributed[r] # {}
               PROVE  sync'[r] \in Ids /\ attributed[r] = {sync'[r]}
    BY <1>1 DEF OnceInv
  <2>1. sync[r] \in Ids /\ attributed[r] = {sync[r]}
    BY DEF TablesInv, OnceInv
  <2> QED BY <1>2, <2>1
<1> QED BY <1>3, <1>4, <1>5, <1>6 DEF TablesInv

(* The original of a recording comes from a finished record of its row. *)
LEMMA CommitOriginalKeeps ==
  ASSUME TablesInv, NEW r \in Records, NEW i \in attributed[r], CommitOriginal(i, r),
         record[r] = "finished", UNCHANGED <<record, swept>>
  PROVE  TablesInv' /\ Grows /\ recording'[i].original = r
<1>0. RowsOK /\ UniqueInv /\ LinkInv /\ i \in Ids /\ recording[i] # NoRow
  BY DEF TablesInv, RowsOK, LinkInv
<1> DEFINE new == [recording[i] EXCEPT !.original = r]
<1>1. recording' = [recording EXCEPT ![i] = new] /\ recording[i] \in Rows
  BY <1>0 DEF RowsOK, CommitOriginal
<1>2. /\ new \in Rows /\ new # NoRow /\ new.status = recording[i].status
      /\ new.program = recording[i].program /\ new.original = r
      /\ new.deleted = recording[i].deleted /\ new.superseded = recording[i].superseded
  BY <1>1, NoRowAssumption DEF Rows
<1> HIDE DEF new
<1>3. /\ recording' \in [Ids -> Rows \cup {NoRow}] /\ recording'[i] = new
      /\ \A j \in Ids \ {i} : recording'[j] = recording[j]
      /\ \A j \in Ids : Live(j)' = Live(j)
  BY <1>0, <1>1, <1>2 DEF RowsOK, Live
<1>4. UNCHANGED <<sync, reserved, trashed, attributed>> /\ recording[i].original = NoRow
  BY DEF CommitOriginal
<1>5. RowsOK' /\ OnceInv' /\ LinkInv'
  BY <1>0, <1>2, <1>3, <1>4 DEF RowsOK, OnceInv, TablesInv, LinkInv
<1>6. UniqueInv'
  BY <1>0, <1>2, <1>3 DEF UniqueInv
<1>7. RowInv'
  <2>1. \A j \in Ids : recording'[j].status = recording[j].status
    BY <1>2, <1>3
  <2> QED BY <1>4, <2>1 DEF TablesInv, RowInv
<1>8. OriginalInv'
  BY <1>2, <1>3, <1>4 DEF TablesInv, OriginalInv
<1>9. Grows
  BY <1>2, <1>3, <1>4 DEF Grows, RowsGo, LinksGo
<1> QED BY <1>2, <1>3, <1>5, <1>6, <1>7, <1>8, <1>9 DEF TablesInv

-----------------------------------------------------------------------------
(* Observations. *)

LEMMA UpdateLinkedKeeps ==
  ASSUME TablesInv, NEW r \in Records, NEW status \in Statuses, UpdateLinked(r, status),
         status = "failed" => record[r] = "failed", UNCHANGED <<record, swept>>
  PROVE  TablesInv' /\ Grows
<1> DEFINE i == sync[r]
           mid == UpdateRecordingStatus(recording[i], status)
           new == AppendQualityEventIfMissing(mid, status)
<1>0. /\ RowsOK /\ UniqueInv /\ LinkInv /\ RowInv
      /\ i \in Ids /\ i \in attributed[r] /\ recording[i] # NoRow /\ recording[i] \in Rows
  BY DEF TablesInv, RowsOK, LinkInv, UpdateLinked
<1>1. recording' = [recording EXCEPT ![i] = new]
  BY <1>0 DEF RowsOK, UpdateLinked
<1>2. /\ new \in Rows /\ new # NoRow
      /\ new.status = IF recording[i].status \in Terminal THEN recording[i].status ELSE status
      /\ new.program = recording[i].program /\ new.original = recording[i].original
      /\ new.deleted = recording[i].deleted /\ new.superseded = recording[i].superseded
  <2>1. /\ mid \in Rows
        /\ mid.status = IF recording[i].status \in Terminal THEN recording[i].status ELSE status
        /\ mid.program = recording[i].program /\ mid.original = recording[i].original
        /\ mid.deleted = recording[i].deleted /\ mid.superseded = recording[i].superseded
    BY <1>0, StatusIsUpdated
  <2> HIDE DEF mid
  <2>2. /\ new \in Rows /\ new.status = mid.status
        /\ new.program = mid.program /\ new.original = mid.original
        /\ new.deleted = mid.deleted /\ new.superseded = mid.superseded
    BY <2>1, EventIsAppended
  <2> HIDE DEF new
  <2> QED BY <2>1, <2>2, NoRowAssumption
<1>3. UNCHANGED <<sync, reserved, trashed, attributed>>
  BY DEF UpdateLinked
<1> HIDE DEF new, i
<1>4. /\ recording' \in [Ids -> Rows \cup {NoRow}] /\ recording'[i] = new
      /\ \A j \in Ids \ {i} : recording'[j] = recording[j]
      /\ \A j \in Ids : Live(j)' = Live(j)
  BY <1>0, <1>1, <1>2 DEF RowsOK, Live
<1>5. RowsOK' /\ OnceInv' /\ LinkInv' /\ UniqueInv'
  BY <1>0, <1>2, <1>3, <1>4 DEF RowsOK, OnceInv, TablesInv, LinkInv, UniqueInv
<1>6. RowInv'
  <2> SUFFICES ASSUME NEW j \in Ids, NEW q \in Records, j \in attributed[q]
               PROVE  IF recording'[j].status = "failed"
                      THEN record[q] = "failed"
                      ELSE \A o \in Records : j \in attributed[o] => o = q
    BY <1>3 DEF RowInv
  <2>1. CASE j # i
    BY <1>0, <1>4, <2>1 DEF RowInv
  <2>2. CASE j = i /\ recording[i].status = "failed"
    BY <1>0, <1>2, <1>4, <2>2 DEF RowInv, Terminal
  <2>3. CASE j = i /\ recording[i].status # "failed"
    <3>1. q = r /\ \A o \in Records : j \in attributed[o] => o = q
      BY <1>0, <2>3 DEF RowInv
    <3> QED BY <1>2, <1>4, <2>3, <3>1
  <2> QED BY <2>1, <2>2, <2>3
<1>7. OriginalInv' /\ Grows
  BY <1>0, <1>2, <1>3, <1>4 DEF TablesInv, OriginalInv, Grows, RowsGo, LinksGo
<1> QED BY <1>5, <1>6, <1>7 DEF TablesInv

(* A record that is seen and not linked. *)
LEMMA UnlinkedKeeps ==
  ASSUME TablesInv, NEW r \in Records, sync[r] \notin Ids,
         sync' = [sync EXCEPT ![r] = Unlinked],
         UNCHANGED <<recording, reserved, trashed, attributed, record, swept>>
  PROVE  TablesInv' /\ Grows
<1>0. RowsOK /\ Unlinked \notin Ids
  BY ObservationAssumption DEF TablesInv
<1>1. sync'[r] = Unlinked /\ \A q \in Records \ {r} : sync'[q] = sync[q]
  BY <1>0 DEF RowsOK
<1>2. RowsOK'
  BY <1>0 DEF RowsOK
<1>3. UniqueInv' /\ RowInv' /\ OriginalInv' /\ Grows
  BY DEF TablesInv, UniqueInv, Live, RowInv, OriginalInv, Grows, RowsGo, LinksGo
<1>4. LinkInv' /\ OnceInv'
  BY <1>0, <1>1 DEF TablesInv, LinkInv, OnceInv
<1> QED BY <1>2, <1>3, <1>4 DEF TablesInv

(* A link is made only for a record that has none: the row lock of record_sync. *)
LEMMA LinkKeeps ==
  ASSUME RowsOK, LinkInv, OnceInv, NEW r \in Records, NEW i \in Ids,
         sync[r] \notin Ids, Link(r, i), UNCHANGED swept,
         \A j \in Ids : recording[j] # NoRow => recording'[j] # NoRow,
         recording'[i] # NoRow
  PROVE  /\ LinkInv' /\ OnceInv' /\ LinksGo
         /\ sync' \in [Records -> Ids \cup {NoRow, Unlinked}]
         /\ attributed' \in [Records -> SUBSET Ids]
         /\ attributed'[r] = attributed[r] \cup {i}
         /\ \A q \in Records \ {r} : attributed'[q] = attributed[q]
<1>1. /\ sync'[r] = i /\ \A q \in Records \ {r} : sync'[q] = sync[q]
      /\ attributed'[r] = attributed[r] \cup {i}
      /\ \A q \in Records \ {r} : attributed'[q] = attributed[q]
  BY DEF RowsOK, Link
<1>2. /\ sync' \in [Records -> Ids \cup {NoRow, Unlinked}]
      /\ attributed' \in [Records -> SUBSET Ids]
  BY DEF RowsOK, Link
<1>3. LinkInv'
  BY <1>1 DEF LinkInv, RowsOK
<1>4. OnceInv'
  <2>1. r \notin swept => attributed[r] = {}
    BY DEF OnceInv
  <2> QED BY <1>1, <2>1 DEF OnceInv
<1> QED BY <1>1, <1>2, <1>3, <1>4 DEF LinksGo

LEMMA CreateRecordingKeeps ==
  ASSUME TablesInv, NEW r \in Records, NEW status \in Statuses, CreateRecording(r, status),
         UNCHANGED <<record, swept>>
  PROVE  TablesInv' /\ Grows
<1>0. RowsOK /\ UniqueInv /\ LinkInv /\ OnceInv /\ RowInv /\ OriginalInv
      /\ EventOf[r] \in Programs
  BY ObservationAssumption DEF TablesInv
<1> DEFINE p == EventOf[r]
<1>1. PICK i \in Ids :
          /\ NextId(i)
          /\ recording' = [j \in Ids |->
                IF j = i THEN NewRow(p, status)
                ELSE IF j \in LiveFailed(p)
                THEN [recording[j] EXCEPT !.superseded = TRUE] ELSE recording[j]]
          /\ Link(r, i)
  BY DEF CreateRecording
<1>2. /\ UNCHANGED <<reserved, trashed>> /\ sync[r] \notin Ids /\ status # "failed"
      /\ LiveReal(p) = {}
  BY DEF CreateRecording
<1>3. recording[i] = NoRow
  BY <1>1 DEF NextId
<1>4. /\ recording'[i] \in Rows /\ recording'[i] # NoRow /\ recording'[i].program = p
      /\ recording'[i].status = status /\ recording'[i].original = NoRow
  BY <1>0, <1>1, NewRowIsARow
<1>5. ASSUME NEW j \in Ids \ {i}
      PROVE  /\ recording'[j] \in Rows \cup {NoRow}
             /\ recording[j] = NoRow => recording'[j] = NoRow
             /\ recording[j] # NoRow =>
                   /\ recording'[j] # NoRow
                   /\ recording'[j].status = recording[j].status
                   /\ recording'[j].program = recording[j].program
                   /\ recording'[j].original = recording[j].original
             /\ Live(j)' => Live(j) /\ recording'[j].program # p
  <2>1. CASE j \in LiveFailed(p)
    <3>1. recording[j] \in Rows /\ recording[j] # NoRow
      BY <1>0, <2>1 DEF LiveFailed, LiveOf, Live, RowsOK
    <3>2. recording'[j] = [recording[j] EXCEPT !.superseded = TRUE]
      BY <1>1, <2>1
    <3>3. /\ recording'[j] \in Rows /\ recording'[j].superseded
          /\ recording'[j].status = recording[j].status
          /\ recording'[j].program = recording[j].program
          /\ recording'[j].original = recording[j].original
      BY <3>1, <3>2 DEF Rows
    <3> QED BY <3>1, <3>3, NoRowAssumption DEF Live
  <2>2. CASE j \notin LiveFailed(p)
    <3>1. recording'[j] = recording[j]
      BY <1>1, <2>2
    <3>2. Live(j) => recording[j].program # p
      BY <1>2, <2>2 DEF LiveReal, LiveOf
    <3> QED BY <1>0, <3>1, <3>2 DEF RowsOK, Live
  <2> QED BY <2>1, <2>2
<1>6. \A j \in Ids : recording[j] # NoRow => recording'[j] # NoRow
  BY <1>4, <1>5
<1>7. /\ LinkInv' /\ OnceInv' /\ LinksGo
      /\ sync' \in [Records -> Ids \cup {NoRow, Unlinked}]
      /\ attributed' \in [Records -> SUBSET Ids]
      /\ attributed'[r] = attributed[r] \cup {i}
      /\ \A q \in Records \ {r} : attributed'[q] = attributed[q]
  BY <1>0, <1>1, <1>2, <1>4, <1>6, LinkKeeps
<1>8. RowsOK'
  <2>1. recording' \in [Ids -> Rows \cup {NoRow}]
    BY <1>1, <1>4, <1>5
  <2> QED BY <1>0, <1>2, <1>7, <2>1 DEF RowsOK
<1>9. UniqueInv'
  <2>1. \A j, k \in Ids \ {i} :
           Live(j)' /\ Live(k)' /\ recording'[j].program = recording'[k].program => j = k
    BY <1>0, <1>5 DEF UniqueInv, Live
  <2> QED BY <1>4, <1>5, <2>1 DEF UniqueInv
<1>10. \A q \in Records : i \notin attributed[q]
  BY <1>0, <1>3, NewIdIsFree
<1>11. RowInv'
  <2> SUFFICES ASSUME NEW j \in Ids, NEW q \in Records, j \in attributed'[q]
               PROVE  IF recording'[j].status = "failed"
                      THEN record[q] = "failed"
                      ELSE \A o \in Records : j \in attributed'[o] => o = q
    BY DEF RowInv
  <2>1. CASE j = i
    BY <1>2, <1>4, <1>7, <1>10, <2>1
  <2>2. CASE j # i
    <3>1. \A o \in Records : j \in attributed'[o] => j \in attributed[o]
      BY <1>7, <2>2
    <3>2. recording[j] # NoRow /\ recording'[j].status = recording[j].status
      BY <1>0, <1>5, <2>2, <3>1 DEF LinkInv
    <3> QED BY <1>0, <3>1, <3>2 DEF RowInv
  <2> QED BY <2>1, <2>2
<1>12. OriginalInv'
  <2> SUFFICES ASSUME NEW j \in Ids, recording'[j] # NoRow, recording'[j].original # NoRow
               PROVE  /\ j \in attributed'[recording'[j].original]
                      /\ record[recording'[j].original] \in {"finished", "purged"}
    BY DEF OriginalInv
  <2>1. j # i /\ recording[j] # NoRow /\ recording'[j].original = recording[j].original
    BY <1>4, <1>5
  <2>2. recording[j].original \in Records
    BY <1>0, <2>1 DEF RowsOK, Rows
  <2> QED BY <1>0, <1>7, <2>1, <2>2 DEF OriginalInv, LinksGo
<1>13. Grows
  BY <1>3, <1>5, <1>7 DEF Grows, RowsGo
<1> QED BY <1>7, <1>8, <1>9, <1>11, <1>12, <1>13 DEF TablesInv

LEMMA CreateOrGetFailedKeeps ==
  ASSUME TablesInv, NEW r \in Records, CreateOrGetFailed(r), record[r] = "failed",
         UNCHANGED <<record, swept>>
  PROVE  TablesInv' /\ Grows
<1>0. RowsOK /\ UniqueInv /\ LinkInv /\ OnceInv /\ RowInv /\ OriginalInv
      /\ EventOf[r] \in Programs
  BY ObservationAssumption DEF TablesInv
<1>1. UNCHANGED <<reserved, trashed>> /\ sync[r] \notin Ids
  BY DEF CreateOrGetFailed
<1>2. CASE sync' = [sync EXCEPT ![r] = Unlinked] /\ UNCHANGED <<recording, attributed>>
  BY <1>1, <1>2, UnlinkedKeeps
<1>3. ASSUME NEW i \in Ids,
             (LiveOf(EventOf[r]) = {} /\ NextId(i)) \/ i \in LiveFailed(EventOf[r]),
             FailedRow(EventOf[r], i), Link(r, i)
      PROVE  TablesInv' /\ Grows
  <2>1. RowsStay /\ UniqueInv' /\ recording' \in [Ids -> Rows \cup {NoRow}]
    BY <1>0, <1>3, FailedRowKeeps DEF LiveFailed
  <2>2. /\ recording'[i] # NoRow /\ recording'[i].status = "failed"
        /\ recording[i] # NoRow => recording[i].status = "failed"
    BY <1>0, <1>3, FailedRowIs DEF LiveFailed, LiveOf, Live, NextId
  <2>3. /\ LinkInv' /\ OnceInv' /\ LinksGo
        /\ sync' \in [Records -> Ids \cup {NoRow, Unlinked}]
        /\ attributed' \in [Records -> SUBSET Ids]
        /\ attributed'[r] = attributed[r] \cup {i}
        /\ \A q \in Records \ {r} : attributed'[q] = attributed[q]
    BY <1>0, <1>1, <1>3, <2>1, <2>2, LinkKeeps DEF RowsStay
  <2>4. RowsOK'
    BY <1>0, <1>1, <2>1, <2>3 DEF RowsOK
  <2>5. RowInv'
    <3> SUFFICES ASSUME NEW j \in Ids, NEW q \in Records, j \in attributed'[q]
                 PROVE  IF recording'[j].status = "failed"
                        THEN record[q] = "failed"
                        ELSE \A o \in Records : j \in attributed'[o] => o = q
      BY DEF RowInv
    <3>1. CASE j = i
      <4>1. CASE q = r
        BY <2>2, <3>1, <4>1
      <4>2. CASE q # r
        <5>1. j \in attributed[q] /\ recording[j] # NoRow
          BY <1>0, <2>3, <4>2 DEF LinkInv
        <5> QED BY <1>0, <2>2, <3>1, <5>1 DEF RowInv
      <4> QED BY <4>1, <4>2
    <3>2. CASE j # i
      <4>1. \A o \in Records : j \in attributed'[o] => j \in attributed[o]
        BY <2>3, <3>2
      <4>2. recording'[j].status = recording[j].status
        BY <1>0, <2>1, <4>1 DEF LinkInv, RowsStay
      <4> QED BY <1>0, <4>1, <4>2 DEF RowInv
    <3> QED BY <3>1, <3>2
  <2>6. OriginalInv'
    <3> SUFFICES ASSUME NEW j \in Ids, recording'[j] # NoRow, recording'[j].original # NoRow
                 PROVE  /\ j \in attributed'[recording'[j].original]
                        /\ record[recording'[j].original] \in {"finished", "purged"}
      BY DEF OriginalInv
    <3>1. recording[j] # NoRow /\ recording'[j].original = recording[j].original
      BY <2>1 DEF RowsStay
    <3>2. recording[j].original \in Records
      BY <1>0, <3>1 DEF RowsOK, Rows
    <3> QED BY <1>0, <2>3, <3>1, <3>2 DEF OriginalInv, LinksGo
  <2>7. Grows
    BY <2>1, <2>3 DEF Grows, RowsGo, RowsStay
  <2> QED BY <2>1, <2>3, <2>4, <2>5, <2>6, <2>7 DEF TablesInv
<1> QED BY <1>2, <1>3 DEF CreateOrGetFailed

LEMMA ProcessRecordKeeps ==
  ASSUME TablesInv, NEW r \in Records, NEW status \in Statuses, ProcessRecord(r, status),
         status = "failed" => record[r] = "failed", UNCHANGED <<record, swept>>
  PROVE  TablesInv' /\ Grows
<1>1. CASE UpdateLinked(r, status)
  BY <1>1, UpdateLinkedKeeps
<1>2. CASE ObserveForeign(r)
  BY <1>2, UnlinkedKeeps DEF ObserveForeign
<1>3. CASE CreateRecording(r, status)
  BY <1>3, CreateRecordingKeeps
<1>4. CASE status = "failed" /\ CreateOrGetFailed(r)
  BY <1>4, CreateOrGetFailedKeeps
<1> QED BY <1>1, <1>2, <1>3, <1>4 DEF ProcessRecord

-----------------------------------------------------------------------------
(* What a step that goes on from RecordsGo and Grows keeps of the processes. *)

LEMMA SeenStays ==
  ASSUME ProcessesOK, SeenInv, RecordsGo, UNCHANGED seen
  PROVE  SeenInv'
<1>1. \A w \in Watchers : seen[w] # Idle => seen[w].record \in Records
  BY DEF ProcessesOK
<1> QED BY <1>1 DEF SeenInv, RecordsGo

LEMMA ViewStays ==
  ASSUME ViewInv, RecordsGo, UNCHANGED sweeps
  PROVE  ViewInv'
BY DEF ViewInv, ViewTrue, RecordsGo, sweeps

LEMMA IngestStays ==
  ASSUME ProcessesOK, RowsOK, LinkInv, IngestInv, Grows, UNCHANGED ingest
  PROVE  IngestInv'
<1> SUFFICES ASSUME NEW g \in Ingesters, ingest[g].step # "idle"
             PROVE  /\ ingest[g].record \in Records
                    /\ ingest[g].id \in attributed'[ingest[g].record]
                    /\ ingest[g].step = "delete" =>
                          recording'[ingest[g].id].original = ingest[g].record
  BY DEF IngestInv
<1> DEFINE i == ingest[g].id  r == ingest[g].record
<1>1. r \in Records /\ i \in attributed[r]
      /\ (ingest[g].step = "delete" => recording[i].original = r)
  BY DEF IngestInv
<1>2. i \in Ids /\ recording[i] # NoRow
  BY <1>1 DEF RowsOK, LinkInv
<1> HIDE DEF i, r
<1>3. r # NoRow
  BY <1>1, NoRowAssumption
<1>4. i \in attributed'[r] /\ (ingest[g].step = "delete" => recording'[i].original = r)
  BY <1>1, <1>2, <1>3 DEF Grows, RowsGo, LinksGo
<1> QED BY <1>1, <1>4 DEF i, r

LEMMA PurgedStays ==
  ASSUME RowsOK, LinkInv, PurgedIsIngested, Grows, NonePurged
  PROVE  PurgedIsIngested'
<1> SUFFICES ASSUME NEW r \in Records, record'[r] = "purged"
             PROVE  \E i \in attributed'[r] : recording'[i].original = r
  BY DEF PurgedIsIngested
<1>1. PICK i \in attributed[r] : recording[i].original = r
  BY DEF PurgedIsIngested, NonePurged
<1>2. i \in Ids /\ recording[i] # NoRow /\ r # NoRow
  BY NoRowAssumption DEF RowsOK, LinkInv
<1> QED BY <1>1, <1>2 DEF Grows, RowsGo, LinksGo

(* A step of the tables that no process remembers. *)
LEMMA ProcessesStay ==
  ASSUME Inv, TablesInv', Grows, RecordsGo, NonePurged, ProcessesOK',
         UNCHANGED <<seen, sweeps, ingest>>
  PROVE  Inv' /\ Grows
BY SeenStays, ViewStays, IngestStays, PurgedStays DEF Inv, TablesInv

-----------------------------------------------------------------------------
(* mirakc. *)

LEMMA EventsAreSent ==
  ASSUME ProcessesOK, NEW e \in Records \cup Programs, NEW f \in Records \cup Programs
  PROVE  /\ Send(e) => events' \in [Watchers -> Seq(Records \cup Programs)]
         /\ SendBoth(e, f) => events' \in [Watchers -> Seq(Records \cup Programs)]
<1> DEFINE S == Records \cup Programs
<1>1. ASSUME NEW q \in Seq(S), NEW x \in S
      PROVE  Append1(q, x) \in Seq(S)
  BY DEF Append1
<1>2. \A w \in Watchers : events[w] \in Seq(S)
  BY DEF ProcessesOK
<1> HIDE DEF S
<1>3. \A w \in Watchers : Append1(events[w], e) \in Seq(S)
  BY <1>1, <1>2 DEF S
<1>4. \A w \in Watchers : Append1(Append1(events[w], e), f) \in Seq(S)
  BY <1>1, <1>3 DEF S
<1> QED BY <1>3, <1>4 DEF Send, SendBoth, S

LEMMA MirakcKeeps ==
  ASSUME Inv, MirakcStep
  PROVE  Inv' /\ Grows
<1>0. TablesInv /\ ProcessesOK /\ UNCHANGED <<tables, seen, sweeps, jobs, faults, swept>>
  BY DEF Inv, MirakcStep, StartRecord, EndRecord, FailWithoutRecord, ForgetSchedule
<1>1. ASSUME RecordsGo, NonePurged, record' \in [Records -> RecordStates],
             failedSchedules' \subseteq Programs,
             events' \in [Watchers -> Seq(Records \cup Programs)]
      PROVE  Inv' /\ Grows
  <2>1. TablesInv' /\ Grows
    BY <1>0, <1>1, TablesStay
  <2>2. ProcessesOK'
    BY <1>0, <1>1 DEF ProcessesOK, sweeps, jobs
  <2> QED BY <1>0, <1>1, <2>1, <2>2, ProcessesStay DEF jobs
<1>2. ASSUME NEW r \in Records, StartRecord(r)
      PROVE  Inv' /\ Grows
  <2>1. RecordsGo /\ NonePurged /\ record' \in [Records -> RecordStates]
    BY <1>0, <1>2 DEF StartRecord, RecordsGo, NonePurged, ProcessesOK, RecordStates, Statuses
  <2>2. events' \in [Watchers -> Seq(Records \cup Programs)]
    BY <1>0, <1>2, EventsAreSent DEF StartRecord
  <2> QED BY <1>0, <1>1, <1>2, <2>1, <2>2 DEF StartRecord, ProcessesOK
<1>3. ASSUME NEW r \in Records, EndRecord(r)
      PROVE  Inv' /\ Grows
  <2>1. PICK st \in {"finished", "canceled", "failed"} : record' = [record EXCEPT ![r] = st]
    BY <1>3 DEF EndRecord
  <2>2. RecordsGo /\ NonePurged /\ record' \in [Records -> RecordStates]
    BY <1>0, <1>3, <2>1 DEF EndRecord, RecordsGo, NonePurged, ProcessesOK, RecordStates, Statuses
  <2>3. EventOf[r] \in Programs
    BY ObservationAssumption
  <2>4. events' \in [Watchers -> Seq(Records \cup Programs)]
    BY <1>0, <1>3, <2>3, EventsAreSent DEF EndRecord
  <2>5. failedSchedules' \subseteq Programs
    BY <1>0, <1>3, <2>3 DEF EndRecord, ProcessesOK
  <2> QED BY <1>1, <2>2, <2>4, <2>5
<1>4. ASSUME NEW p \in Programs, FailWithoutRecord(p) \/ ForgetSchedule(p)
      PROVE  Inv' /\ Grows
  <2>1. UNCHANGED record
    BY <1>4 DEF FailWithoutRecord, ForgetSchedule
  <2>2. RecordsGo /\ NonePurged /\ record' \in [Records -> RecordStates]
    BY <1>0, <2>1 DEF RecordsGo, NonePurged, ProcessesOK
  <2>3. events' \in [Watchers -> Seq(Records \cup Programs)]
    BY <1>0, <1>4, EventsAreSent DEF FailWithoutRecord, ForgetSchedule, ProcessesOK
  <2>4. failedSchedules' \subseteq Programs
    BY <1>0, <1>4 DEF FailWithoutRecord, ForgetSchedule, ProcessesOK
  <2> QED BY <1>1, <2>2, <2>3, <2>4
<1> QED BY <1>2, <1>3, <1>4 DEF MirakcStep

LEMMA UserKeeps ==
  ASSUME Inv, UserStep
  PROVE  Inv' /\ Grows
<1>1. TablesInv' /\ Grows
  BY UserStepKeeps DEF Inv
<1>2. UNCHANGED <<mirakc, events, seen, sweeps, jobs, faults, swept>>
  BY DEF UserStep
<1>3. ProcessesOK' /\ RecordsGo /\ NonePurged
  BY <1>2 DEF Inv, ProcessesOK, mirakc, sweeps, jobs, RecordsGo, NonePurged
<1> QED BY <1>1, <1>2, <1>3, ProcessesStay DEF jobs

-----------------------------------------------------------------------------
(* Watchers. *)

LEMMA ReconnectKeeps ==
  ASSUME Inv, NEW w \in Watchers, Reconnect(w)
  PROVE  Inv' /\ Grows
<1> DEFINE S == {r \in Records : record[r] \in Statuses}
<1>1. PICK q \in Orders(S) : events' = [events EXCEPT ![w] = q]
  BY DEF Reconnect
<1>2. UNCHANGED <<tables, mirakc, seen, sweeps, jobs, faults, swept>>
  BY DEF Reconnect
<1>3. S \subseteq Records /\ IsFiniteSet(S)
  BY WatcherAssumption, FS_Subset
<1> HIDE DEF S
<1>4. Cardinality(S) \in Nat
  BY <1>3, FS_CardinalityType
<1>5. q \in Seq(Records \cup Programs)
  <2>1. q \in [1..Cardinality(S) -> Records \cup Programs]
    BY <1>1, <1>3 DEF Orders
  <2> QED BY <1>4, <2>1
<1>6. ProcessesOK'
  BY <1>1, <1>2, <1>5 DEF Inv, ProcessesOK, mirakc, sweeps, jobs
<1>7. RecordsGo /\ NonePurged
  BY <1>2 DEF mirakc, RecordsGo, NonePurged
<1>8. TablesInv' /\ Grows
  BY <1>2, <1>7, TablesStay DEF Inv
<1> QED BY <1>2, <1>6, <1>7, <1>8, ProcessesStay DEF jobs

LEMMA EventIsTaken ==
  ASSUME ProcessesOK, NEW w \in Watchers, NEW e, TakeEvent(w, e)
  PROVE  events' \in [Watchers -> Seq(Records \cup Programs)]
BY DEF ProcessesOK, TakeEvent

LEMMA TakeSavedKeeps ==
  ASSUME Inv, NEW w \in Watchers, NEW r \in Records, TakeSaved(w, r)
  PROVE  Inv' /\ Grows
<1>0. ProcessesOK /\ SeenInv
  BY DEF Inv
<1>1. UNCHANGED <<tables, mirakc, sweeps, jobs, faults, swept>>
  BY DEF TakeSaved
<1>2. RecordsGo /\ NonePurged
  BY <1>1 DEF mirakc, RecordsGo, NonePurged
<1>3. TablesInv' /\ Grows
  BY <1>1, <1>2, TablesStay DEF Inv
<1>4. \/ UNCHANGED seen
      \/ record[r] \in Statuses /\ seen' = [seen EXCEPT ![w] = [record |-> r, status |-> record[r]]]
  BY DEF TakeSaved
<1>5. events' \in [Watchers -> Seq(Records \cup Programs)]
  BY <1>0, EventIsTaken DEF TakeSaved
<1>6. seen' \in [Watchers -> {Idle} \cup [record : Records, status : Statuses]]
  <2> DEFINE o == [record |-> r, status |-> record[r]]
  <2>1. record[r] \in Statuses => o \in [record : Records, status : Statuses]
    OBVIOUS
  <2>2. \/ UNCHANGED seen
        \/ record[r] \in Statuses /\ seen' = [seen EXCEPT ![w] = o]
    BY <1>4
  <2> HIDE DEF o
  <2> QED BY <1>0, <2>1, <2>2 DEF ProcessesOK
<1>7. ProcessesOK'
  BY <1>0, <1>1, <1>5, <1>6 DEF ProcessesOK, mirakc, sweeps, jobs
<1>8. SeenInv'
  <2>1. CASE UNCHANGED seen
    BY <1>0, <1>2, <2>1, SeenStays
  <2>2. CASE seen' = [seen EXCEPT ![w] = [record |-> r, status |-> record[r]]]
    <3>1. /\ seen'[w].record = r /\ seen'[w].status = record[r]
          /\ \A v \in Watchers \ {w} : seen'[v] = seen[v]
      BY <1>0, <2>2 DEF ProcessesOK
    <3> QED BY <1>0, <1>1, <3>1 DEF SeenInv, mirakc
  <2> QED BY <1>4, <2>1, <2>2
<1>9. ViewInv' /\ IngestInv' /\ PurgedIsIngested'
  BY <1>1, <1>2, <1>3, ViewStays, IngestStays, PurgedStays DEF Inv, TablesInv, jobs
<1> QED BY <1>3, <1>7, <1>8, <1>9 DEF Inv

LEMMA EnqueueTypes ==
  ASSUME ProcessesOK, NEW r \in Records, NEW status, EnqueueIngest(r, status)
  PROVE  job' \subseteq Records /\ faults' \in 0..MaxFaults
BY WatcherAssumption DEF EnqueueIngest, ProcessesOK, Fault

LEMMA ProcessSavedKeeps ==
  ASSUME Inv, NEW w \in Watchers, ProcessSaved(w)
  PROVE  Inv' /\ Grows
<1> DEFINE r == seen[w].record  status == seen[w].status
<1>0. /\ ProcessesOK /\ SeenInv /\ r \in Records /\ status \in Statuses
      /\ status = "failed" => record[r] = "failed"
  BY DEF Inv, ProcessesOK, SeenInv, ProcessSaved
<1>1. /\ UNCHANGED <<mirakc, events, sweeps, ingest, swept>>
      /\ seen' = [seen EXCEPT ![w] = Idle]
      /\ \/ ProcessRecord(r, status) /\ EnqueueIngest(r, status)
         \/ UNCHANGED <<tables, job, faults>>
  BY DEF ProcessSaved
<1> HIDE DEF r, status
<1>2. RecordsGo /\ NonePurged
  BY <1>1 DEF mirakc, RecordsGo, NonePurged
<1>3. TablesInv' /\ Grows
  <2>1. CASE ProcessRecord(r, status)
    BY <1>0, <1>1, <2>1, ProcessRecordKeeps DEF Inv, mirakc
  <2>2. CASE UNCHANGED tables
    BY <1>1, <1>2, <2>2, TablesStay DEF Inv
  <2> QED BY <1>1, <2>1, <2>2
<1>4. job' \subseteq Records /\ faults' \in 0..MaxFaults
  BY <1>0, <1>1, EnqueueTypes DEF ProcessesOK
<1>5. ProcessesOK'
  BY <1>0, <1>1, <1>4 DEF ProcessesOK, mirakc, sweeps
<1>6. SeenInv'
  BY <1>0, <1>1 DEF SeenInv, ProcessesOK, mirakc
<1>7. ViewInv' /\ IngestInv' /\ PurgedIsIngested'
  BY <1>1, <1>2, <1>3, ViewStays, IngestStays, PurgedStays DEF Inv, TablesInv
<1> QED BY <1>3, <1>5, <1>6, <1>7 DEF Inv

LEMMA TakeFailureKeeps ==
  ASSUME Inv, NEW w \in Watchers, NEW p \in Programs, TakeFailure(w, p)
  PROVE  Inv' /\ Grows
<1>1. UNCHANGED <<mirakc, seen, sweeps, jobs, faults, swept>> /\ TakeEvent(w, p)
  BY DEF TakeFailure
<1>2. RecordsGo /\ NonePurged
  BY <1>1 DEF mirakc, RecordsGo, NonePurged
<1>3. TablesInv' /\ Grows
  <2>1. CASE RecordFailedRecording(p)
    BY <1>1, <2>1, RecordFailedRecordingKeeps DEF Inv, mirakc
  <2>2. CASE UNCHANGED tables
    BY <1>1, <1>2, <2>2, TablesStay DEF Inv
  <2> QED BY <2>1, <2>2 DEF TakeFailure
<1>4. events' \in [Watchers -> Seq(Records \cup Programs)]
  BY <1>1, EventIsTaken DEF Inv
<1>5. ProcessesOK'
  BY <1>1, <1>4 DEF Inv, ProcessesOK, mirakc, sweeps, jobs
<1> QED BY <1>1, <1>2, <1>3, <1>5, ProcessesStay DEF jobs

-----------------------------------------------------------------------------
(* Sweeps. *)

LEMMA EmptyViewIsTrue == EmptyView \in Views /\ \A at : ViewTrue(at, EmptyView)
<1>1. EmptyView \in Views
  BY DEF EmptyView, Views
<1> QED BY <1>1 DEF EmptyView, ViewTrue, Absent

(* Where a sweep goes, its view is a view and tells the truth. *)
LEMMA SweepGoes ==
  ASSUME ProcessesOK, ViewInv, RecordsGo, NEW s \in Sweeps, NEW to \in SweepSteps,
         NEW v \in Views, Goto(s, to, v), ViewTrue(to, v)
  PROVE  /\ step' \in [Sweeps -> SweepSteps] /\ view' \in [Sweeps -> Views]
         /\ ViewInv'
<1>1. step' \in [Sweeps -> SweepSteps] /\ view' \in [Sweeps -> Views]
  BY DEF ProcessesOK, Goto
<1>2. /\ view'[s] = v /\ \A t \in Sweeps \ {s} : view'[t] = view[t]
      /\ step'[s] = to /\ \A t \in Sweeps \ {s} : step'[t] = step[t]
  BY DEF ProcessesOK, Goto
<1> QED BY <1>1, <1>2 DEF ViewInv, ViewTrue, RecordsGo

(* A sweep's step, once its view and its transaction are known to be good. *)
LEMMA SweepKeeps ==
  ASSUME Inv, TablesInv', Grows, UNCHANGED <<mirakc, events, seen, ingest>>,
         job' \subseteq Records, faults' \in 0..MaxFaults, swept' \subseteq Records,
         NEW s \in Sweeps, NEW to \in SweepSteps, NEW v \in Views, Goto(s, to, v), ViewTrue(to, v)
  PROVE  Inv' /\ Grows
<1>1. RecordsGo /\ NonePurged
  BY DEF mirakc, RecordsGo, NonePurged
<1>2. step' \in [Sweeps -> SweepSteps] /\ view' \in [Sweeps -> Views] /\ ViewInv'
  BY <1>1, SweepGoes DEF Inv
<1>3. ProcessesOK'
  BY <1>2 DEF Inv, ProcessesOK, mirakc
<1>4. SeenInv' /\ IngestInv' /\ PurgedIsIngested'
  BY <1>1, SeenStays, IngestStays, PurgedStays DEF Inv, TablesInv
<1> QED BY <1>2, <1>3, <1>4 DEF Inv

LEMMA FaultType ==
  ASSUME ProcessesOK
  PROVE  /\ Fault => faults' \in 0..MaxFaults
         /\ UNCHANGED faults => faults' \in 0..MaxFaults
BY WatcherAssumption DEF ProcessesOK, Fault

LEMMA TablesUnchanged ==
  ASSUME Inv, UNCHANGED <<tables, swept, mirakc>>
  PROVE  TablesInv' /\ Grows
<1>1. RecordsGo
  BY DEF mirakc, RecordsGo
<1> QED BY <1>1, TablesStay DEF Inv

LEMMA ListSchedulesKeeps ==
  ASSUME Inv, NEW s \in Sweeps, ListSchedules(s)
  PROVE  Inv' /\ Grows
<1>1. UNCHANGED <<tables, mirakc, events, seen, jobs, swept>>
  BY DEF ListSchedules
<1>2. TablesInv' /\ Grows
  BY <1>1, TablesUnchanged
<1>3. PICK v \in {[EmptyView EXCEPT !.schedules = failedSchedules],
                  [EmptyView EXCEPT !.incomplete = TRUE]} : Goto(s, "schedules", v)
  BY DEF ListSchedules
<1>4. failedSchedules \subseteq Programs
  BY DEF Inv, ProcessesOK
<1>5. v \in Views /\ v.listed = EmptyView.listed /\ v.pending = EmptyView.pending
  <2>1. EmptyView \in Views
    BY EmptyViewIsTrue
  <2> QED BY <1>3, <1>4, <2>1 DEF Views
<1>6. ViewTrue("schedules", v)
  BY <1>5, EmptyViewIsTrue DEF ViewTrue
<1>7. faults' \in 0..MaxFaults /\ job' \subseteq Records /\ swept' \subseteq Records
  BY <1>1, FaultType DEF ListSchedules, Inv, ProcessesOK, jobs
<1>8. "schedules" \in SweepSteps
  BY DEF SweepSteps
<1> QED BY <1>1, <1>2, <1>3, <1>5, <1>6, <1>7, <1>8, SweepKeeps DEF jobs

(* A view that has less to do is as true as it was. *)
LEMMA LessToDo ==
  ASSUME Inv, NEW s \in Sweeps, NEW p, NEW r, NEW b \in BOOLEAN
  PROVE  /\ [view[s] EXCEPT !.schedules = @ \ {p}, !.incomplete = b] \in Views
         /\ ViewTrue(step[s], [view[s] EXCEPT !.schedules = @ \ {p}, !.incomplete = b])
         /\ [view[s] EXCEPT !.pending = @ \ {r}, !.incomplete = b] \in Views
         /\ ViewTrue(step[s], [view[s] EXCEPT !.pending = @ \ {r}, !.incomplete = b])
<1>1. view[s] \in Views /\ ViewTrue(step[s], view[s])
  BY DEF Inv, ProcessesOK, ViewInv
<1> QED BY <1>1 DEF Views, ViewTrue

LEMMA SweepFailedScheduleKeeps ==
  ASSUME Inv, NEW s \in Sweeps, NEW p \in Programs, SweepFailedSchedule(s, p)
  PROVE  Inv' /\ Grows
<1> DEFINE v(b) == [view[s] EXCEPT !.schedules = @ \ {p}, !.incomplete = b]
<1>1. UNCHANGED <<mirakc, events, seen, jobs, swept>>
  BY DEF SweepFailedSchedule
<1>2. TablesInv' /\ Grows
  <2>1. CASE ProcessFailedSchedule(p)
    BY <1>1, <2>1, ProcessFailedScheduleKeeps DEF Inv, mirakc
  <2>2. CASE UNCHANGED tables
    BY <1>1, <2>2, TablesUnchanged
  <2> QED BY <2>1, <2>2 DEF SweepFailedSchedule
<1>3. PICK b \in BOOLEAN : Goto(s, "schedules", v(b))
  <2>1. view[s] \in Views
    BY DEF Inv, ProcessesOK
  <2>2. v(view[s].incomplete) = [view[s] EXCEPT !.schedules = @ \ {p}]
        /\ view[s].incomplete \in BOOLEAN
    BY <2>1 DEF Views
  <2> QED BY <2>2 DEF SweepFailedSchedule
<1>4. v(b) \in Views /\ ViewTrue("schedules", v(b))
  BY LessToDo DEF SweepFailedSchedule
<1>5. faults' \in 0..MaxFaults /\ job' \subseteq Records /\ swept' \subseteq Records
  BY <1>1, FaultType DEF SweepFailedSchedule, Inv, ProcessesOK, jobs
<1>6. "schedules" \in SweepSteps
  BY DEF SweepSteps
<1> HIDE DEF v
<1> QED BY <1>1, <1>2, <1>3, <1>4, <1>5, <1>6, SweepKeeps DEF jobs

LEMMA ListRecordsKeeps ==
  ASSUME Inv, NEW s \in Sweeps, ListRecords(s)
  PROVE  Inv' /\ Grows
<1> DEFINE listed == [r \in Records |-> IF record[r] \in Statuses THEN record[r] ELSE Absent]
           v == [view[s] EXCEPT !.listed = listed]
<1>1. UNCHANGED <<tables, mirakc, events, seen, jobs, faults, swept>> /\ Goto(s, "stale", v)
  BY DEF ListRecords
<1>2. TablesInv' /\ Grows
  BY <1>1, TablesUnchanged

<1>3. view[s] \in Views /\ view[s].pending = {}
  BY DEF Inv, ProcessesOK, ViewInv, ListRecords, ViewTrue, Views
<1>4. listed \in [Records -> Statuses \cup {Absent}]
  OBVIOUS
<1>5. \A r \in Records : listed[r] = "failed" => record[r] = "failed"
  BY DEF Absent
<1> HIDE DEF listed
<1>6. v \in Views /\ v.listed = listed /\ v.pending = {}
  BY <1>3, <1>4 DEF Views
<1> HIDE DEF v
<1>7. ViewTrue("stale", v)
  BY <1>5, <1>6 DEF ViewTrue
<1>8. faults' \in 0..MaxFaults /\ job' \subseteq Records /\ swept' \subseteq Records
  BY <1>1 DEF Inv, ProcessesOK, jobs
<1>9. "stale" \in SweepSteps
  BY DEF SweepSteps
<1> QED BY <1>1, <1>2, <1>6, <1>7, <1>8, <1>9, SweepKeeps DEF jobs

LEMMA DeleteStaleStepKeeps ==
  ASSUME Inv, NEW s \in Sweeps, DeleteStale(s)
  PROVE  Inv' /\ Grows
<1> DEFINE v == [view[s] EXCEPT !.pending = Listed(s)]
<1>1. UNCHANGED <<mirakc, events, seen, jobs, faults>> /\ Goto(s, "process", v)
  BY DEF DeleteStale
<1>2. TablesInv' /\ Grows
  BY DeleteStaleKeeps DEF DeleteStale, Inv, mirakc
<1>3. view[s] \in Views /\ ViewTrue(step[s], view[s])
  BY DEF Inv, ProcessesOK, ViewInv
<1>4. v \in Views /\ v.listed = view[s].listed /\ v.pending = Listed(s)
  BY <1>3 DEF Views, Listed
<1> HIDE DEF v
<1>5. ViewTrue("process", v)
  BY <1>3, <1>4 DEF ViewTrue, Listed
<1>6. faults' \in 0..MaxFaults /\ job' \subseteq Records /\ swept' \subseteq Records
  BY <1>1 DEF Inv, ProcessesOK, jobs, DeleteStale
<1>7. "process" \in SweepSteps
  BY DEF SweepSteps
<1> QED BY <1>1, <1>2, <1>4, <1>5, <1>6, <1>7, SweepKeeps DEF jobs

LEMMA SweepRecordKeeps ==
  ASSUME Inv, NEW s \in Sweeps, NEW r \in Records, SweepRecord(s, r)
  PROVE  Inv' /\ Grows
<1> DEFINE status == view[s].listed[r]
           v(b) == [view[s] EXCEPT !.pending = @ \ {r}, !.incomplete = b]
<1>1. UNCHANGED <<mirakc, events, seen, ingest, swept>> /\ step[s] = "process"
  BY DEF SweepRecord
<1>2. view[s] \in Views /\ ViewTrue(step[s], view[s]) /\ r \in view[s].pending
  BY DEF Inv, ProcessesOK, ViewInv, SweepRecord
<1>3. status \in Statuses /\ (status = "failed" => record[r] = "failed")
  BY <1>2 DEF ViewTrue, Views
<1>4. TablesInv' /\ Grows
  <2>1. CASE ProcessRecord(r, status)
    BY <1>1, <1>3, <2>1, ProcessRecordKeeps DEF Inv, mirakc
  <2>2. CASE UNCHANGED tables
    BY <1>1, <2>2, TablesUnchanged
  <2> QED BY <2>1, <2>2 DEF SweepRecord
<1>5. faults' \in 0..MaxFaults /\ job' \subseteq Records /\ swept' \subseteq Records
  BY <1>1, FaultType, EnqueueTypes DEF SweepRecord, Inv, ProcessesOK
<1>6. PICK b \in BOOLEAN : Goto(s, "process", v(b))
  <2>1. /\ v(view[s].incomplete) = [view[s] EXCEPT !.pending = @ \ {r}]
        /\ v(TRUE) = [[view[s] EXCEPT !.pending = @ \ {r}] EXCEPT !.incomplete = TRUE]
        /\ view[s].incomplete \in BOOLEAN
    BY <1>2 DEF Views
  <2> QED BY <2>1 DEF SweepRecord
<1>7. v(b) \in Views /\ ViewTrue("process", v(b))
  BY <1>1, LessToDo
<1>8. "process" \in SweepSteps
  BY DEF SweepSteps
<1> HIDE DEF v
<1> QED BY <1>1, <1>4, <1>5, <1>6, <1>7, <1>8, SweepKeeps

LEMMA EndSweepKeeps ==
  ASSUME Inv, NEW s \in Sweeps, EndSweep(s) \/ SweepFails(s)
  PROVE  Inv' /\ Grows
<1>1. /\ UNCHANGED <<tables, mirakc, events, seen, jobs, swept>>
      /\ Goto(s, "idle", EmptyView)
      /\ Fault \/ UNCHANGED faults
  BY DEF EndSweep, SweepFails
<1>2. TablesInv' /\ Grows
  BY <1>1, TablesUnchanged
<1>3. faults' \in 0..MaxFaults /\ job' \subseteq Records /\ swept' \subseteq Records
  BY <1>1, FaultType DEF Inv, ProcessesOK, jobs
<1>4. "idle" \in SweepSteps
  BY DEF SweepSteps
<1> QED BY <1>1, <1>2, <1>3, <1>4, EmptyViewIsTrue, SweepKeeps DEF jobs

-----------------------------------------------------------------------------
(* Ingest. *)

(* A step of a worker that leaves mirakc and the tables alone. *)
LEMMA WorkerKeeps ==
  ASSUME Inv, UNCHANGED <<tables, mirakc, events, seen, sweeps, swept>>,
         job' \subseteq Records, faults' \in 0..MaxFaults, NEW g \in Ingesters,
         NEW a \in [step : IngestSteps, record : Records \cup {NoRow}, id : Ids \cup {NoRow}],
         ingest' = [ingest EXCEPT ![g] = a],
         a.step # "idle" => /\ a.record \in Records /\ a.id \in attributed[a.record]
                            /\ a.step = "delete" => recording[a.id].original = a.record
  PROVE  Inv' /\ Grows
<1>1. TablesInv' /\ Grows
  BY TablesUnchanged
<1>2. RecordsGo /\ NonePurged
  BY DEF mirakc, RecordsGo, NonePurged
<1>3. ProcessesOK'
  BY DEF Inv, ProcessesOK, mirakc, sweeps
<1>4. SeenInv' /\ ViewInv' /\ PurgedIsIngested'
  BY <1>1, <1>2, SeenStays, ViewStays, PurgedStays DEF Inv, TablesInv
<1>5. ingest'[g] = a /\ \A h \in Ingesters \ {g} : ingest'[h] = ingest[h]
  BY DEF Inv, ProcessesOK
<1>6. IngestInv'
  BY <1>5 DEF Inv, IngestInv, tables
<1> QED BY <1>1, <1>3, <1>4, <1>6 DEF Inv

LEMMA NoIngestIsIdle ==
  /\ NoIngest \in [step : IngestSteps, record : Records \cup {NoRow}, id : Ids \cup {NoRow}]
  /\ NoIngest.step = "idle"
BY DEF NoIngest, IngestSteps

LEMMA LookupTargetKeeps ==
  ASSUME Inv, NEW g \in Ingesters, NEW r \in Records, LookupTarget(g, r)
  PROVE  Inv' /\ Grows
<1> DEFINE a == [step |-> IF recording[sync[r]].original = NoRow THEN "transfer" ELSE "delete",
                 record |-> r, id |-> sync[r]]
<1>1. /\ UNCHANGED <<tables, mirakc, events, seen, sweeps, job, swept>>
      /\ ingest' = [ingest EXCEPT ![g] = a] /\ sync[r] \in Ids
      /\ Fault \/ UNCHANGED faults
  BY DEF LookupTarget
<1>2. sync[r] \in attributed[r] /\ recording[sync[r]] # NoRow
  BY <1>1 DEF Inv, TablesInv, LinkInv
<1>3. recording[sync[r]].original # NoRow => recording[sync[r]].original = r
  <2> SUFFICES ASSUME recording[sync[r]].original # NoRow
               PROVE  recording[sync[r]].original = r
    OBVIOUS
  <2> DEFINE q == recording[sync[r]].original
  <2>1. q \in Records
    BY <1>1, <1>2 DEF Inv, TablesInv, RowsOK, Rows
  <2>2. sync[r] \in attributed[q] /\ record[q] \in {"finished", "purged"}
    BY <1>1, <1>2 DEF Inv, TablesInv, OriginalInv
  <2> HIDE DEF q
  <2>3. recording[sync[r]].status # "failed"
    BY <1>1, <2>1, <2>2 DEF Inv, TablesInv, RowInv
  <2>4. q = r
    BY <1>1, <1>2, <2>1, <2>2, <2>3 DEF Inv, TablesInv, RowInv
  <2> QED BY <2>4 DEF q
<1>4. /\ a \in [step : IngestSteps, record : Records \cup {NoRow}, id : Ids \cup {NoRow}]
      /\ a.record = r /\ a.id = sync[r]
      /\ a.step = "delete" => recording[sync[r]].original # NoRow
  BY <1>1 DEF IngestSteps
<1> HIDE DEF a
<1>5. faults' \in 0..MaxFaults /\ job' \subseteq Records
  BY <1>1, FaultType DEF Inv, ProcessesOK
<1> QED BY <1>1, <1>2, <1>3, <1>4, <1>5, WorkerKeeps

LEMMA WorkerStopsKeeps ==
  ASSUME Inv, NEW g \in Ingesters, IngestDiscards(g) \/ IngestLoses(g) \/ IngestFails(g)
  PROVE  Inv' /\ Grows
<1>1. /\ UNCHANGED <<tables, mirakc, events, seen, sweeps, swept>>
      /\ ingest' = [ingest EXCEPT ![g] = NoIngest]
      /\ job' \subseteq job /\ (Fault \/ UNCHANGED faults)
  BY DEF IngestDiscards, IngestLoses, IngestFails
<1>2. faults' \in 0..MaxFaults /\ job' \subseteq Records
  BY <1>1, FaultType DEF Inv, ProcessesOK
<1> QED BY <1>1, <1>2, NoIngestIsIdle, WorkerKeeps

LEMMA IngestCommitsKeeps ==
  ASSUME Inv, NEW g \in Ingesters, IngestCommits(g)
  PROVE  Inv' /\ Grows
<1> DEFINE r == ingest[g].record  i == ingest[g].id
           a == [ingest[g] EXCEPT !.step = "delete"]
<1>1. /\ UNCHANGED <<mirakc, events, seen, sweeps, job, faults, swept>>
      /\ CommitOriginal(i, r) /\ record[r] = "finished"
      /\ ingest[g].step = "transfer"
  BY DEF IngestCommits
<1>2. r \in Records /\ i \in attributed[r]
  BY <1>1 DEF Inv, IngestInv
<1>3. TablesInv' /\ Grows /\ recording'[i].original = r
  BY <1>1, <1>2, CommitOriginalKeeps DEF Inv, mirakc
<1>4. RecordsGo /\ NonePurged
  BY <1>1 DEF mirakc, RecordsGo, NonePurged
<1>5. SeenInv' /\ ViewInv' /\ PurgedIsIngested'
  BY <1>1, <1>3, <1>4, SeenStays, ViewStays, PurgedStays DEF Inv, TablesInv
<1>6. ingest[g] \in [step : IngestSteps, record : Records \cup {NoRow}, id : Ids \cup {NoRow}]
  BY DEF Inv, ProcessesOK
<1>7. /\ a \in [step : IngestSteps, record : Records \cup {NoRow}, id : Ids \cup {NoRow}]
      /\ a.record = r /\ a.id = i
  BY <1>6 DEF IngestSteps
<1>8. ingest' = [ingest EXCEPT ![g] = a]
  BY DEF Inv, ProcessesOK, IngestCommits
<1> HIDE DEF a, r, i
<1>9. ProcessesOK'
  BY <1>1, <1>7, <1>8 DEF Inv, ProcessesOK, mirakc, sweeps
<1>10. ingest'[g] = a /\ \A h \in Ingesters \ {g} : ingest'[h] = ingest[h]
  BY <1>8 DEF Inv, ProcessesOK
<1>11. IngestInv'
  <2> SUFFICES ASSUME NEW h \in Ingesters, ingest'[h].step # "idle"
               PROVE  /\ ingest'[h].record \in Records
                      /\ ingest'[h].id \in attributed'[ingest'[h].record]
                      /\ ingest'[h].step = "delete" =>
                            recording'[ingest'[h].id].original = ingest'[h].record
    BY DEF IngestInv
  <2>1. CASE h = g
    BY <1>2, <1>3, <1>7, <1>10, <2>1 DEF Grows, LinksGo
  <2>2. CASE h # g
    <3> DEFINE j == ingest[h].id  q == ingest[h].record
    <3>1. /\ q \in Records /\ j \in attributed[q]
          /\ ingest[h].step = "delete" => recording[j].original = q
      BY <1>10, <2>2 DEF Inv, IngestInv
    <3>2. j \in Ids /\ recording[j] # NoRow /\ q # NoRow
      BY <3>1, NoRowAssumption DEF Inv, TablesInv, RowsOK, LinkInv
    <3>3. ingest'[h] = ingest[h]
      BY <1>10, <2>2
    <3> HIDE DEF j, q
    <3>4. j \in attributed'[q] /\ (ingest[h].step = "delete" => recording'[j].original = q)
      BY <1>3, <3>1, <3>2 DEF Grows, RowsGo, LinksGo
    <3> QED BY <3>1, <3>3, <3>4 DEF j, q
  <2> QED BY <2>1, <2>2
<1> QED BY <1>3, <1>5, <1>9, <1>11 DEF Inv

LEMMA DeleteEdgeRecordKeeps ==
  ASSUME Inv, NEW g \in Ingesters, DeleteEdgeRecord(g)
  PROVE  Inv' /\ Grows
<1> DEFINE r == ingest[g].record  i == ingest[g].id
<1>1. /\ UNCHANGED <<tables, failedSchedules, events, seen, sweeps, swept>>
      /\ ingest[g].step = "delete" /\ ingest' = [ingest EXCEPT ![g] = NoIngest]
      /\ job' \subseteq job
      /\ \/ record' = [record EXCEPT ![r] = "purged"] /\ UNCHANGED faults
         \/ UNCHANGED record /\ Fault
  BY DEF DeleteEdgeRecord
<1>2. r \in Records /\ i \in attributed[r] /\ recording[i].original = r
  BY <1>1 DEF Inv, IngestInv
<1> HIDE DEF r, i
<1>3. i \in Ids /\ recording[i] # NoRow /\ r # NoRow
  BY <1>2, NoRowAssumption DEF Inv, TablesInv, RowsOK, LinkInv
<1>4. record[r] \in {"finished", "purged"}
  BY <1>2, <1>3 DEF Inv, TablesInv, OriginalInv
<1>5. RecordsGo /\ \A q \in Records \ {r} : record'[q] = record[q]
  BY <1>1, <1>2, <1>4 DEF RecordsGo, Inv, ProcessesOK
<1>6. TablesInv' /\ Grows
  BY <1>1, <1>5, TablesStay DEF Inv
<1>7. SeenInv' /\ ViewInv'
  BY <1>1, <1>5, SeenStays, ViewStays DEF Inv
<1>8. PurgedIsIngested'
  BY <1>1, <1>2, <1>5 DEF Inv, PurgedIsIngested, tables
<1>9. record' \in [Records -> RecordStates]
  BY <1>1 DEF Inv, ProcessesOK, RecordStates
<1>10. ProcessesOK'
  BY <1>1, <1>9, FaultType, NoIngestIsIdle DEF Inv, ProcessesOK, sweeps
<1>11. IngestInv'
  <2>1. ingest'[g] = NoIngest /\ \A h \in Ingesters \ {g} : ingest'[h] = ingest[h]
    BY <1>1 DEF Inv, ProcessesOK
  <2> QED BY <1>1, <2>1, NoIngestIsIdle DEF Inv, IngestInv, tables
<1> QED BY <1>6, <1>7, <1>8, <1>10, <1>11 DEF Inv

-----------------------------------------------------------------------------
(* Every step. *)

LEMMA InitInv == Init => Inv
<1> SUFFICES ASSUME Init
             PROVE  Inv
  OBVIOUS
<1>0. NoRow \notin Ids
  BY ObservationAssumption
<1>1. \A i \in Ids : recording[i] = NoRow
  BY DEF Init, TablesInit
<1>2. \A r \in Records : sync[r] = NoRow /\ attributed[r] = {} /\ record[r] = "unborn"
  BY DEF Init, TablesInit
<1>3. RowsOK
  BY ObservationAssumption DEF Init, TablesInit, RowsOK
<1>4. UniqueInv /\ LinkInv /\ OnceInv /\ RowInv /\ OriginalInv
  BY <1>0, <1>1, <1>2 DEF UniqueInv, Live, LinkInv, OnceInv, RowInv, OriginalInv
<1>5. ProcessesOK
  <2>1. events \in [Watchers -> Seq(Records \cup Programs)]
    BY DEF Init
  <2>2. record \in [Records -> RecordStates] /\ failedSchedules \subseteq Programs
        /\ job \subseteq Records /\ swept \subseteq Records
    BY DEF Init, RecordStates
  <2>3. seen \in [Watchers -> {Idle} \cup [record : Records, status : Statuses]]
        /\ step \in [Sweeps -> SweepSteps] /\ view \in [Sweeps -> Views]
    BY EmptyViewIsTrue DEF Init, SweepSteps
  <2>4. /\ ingest \in [Ingesters -> [step : IngestSteps, record : Records \cup {NoRow},
                                     id : Ids \cup {NoRow}]]
        /\ faults \in 0..MaxFaults
    BY NoIngestIsIdle, WatcherAssumption DEF Init
  <2> QED BY <2>1, <2>2, <2>3, <2>4 DEF ProcessesOK
<1>6. SeenInv /\ ViewInv
  BY EmptyViewIsTrue DEF Init, SeenInv, ViewInv
<1>7. IngestInv /\ PurgedIsIngested
  BY <1>2, NoIngestIsIdle DEF Init, IngestInv, PurgedIsIngested
<1> QED BY <1>3, <1>4, <1>5, <1>6, <1>7 DEF Inv, TablesInv

LEMMA StutterKeeps ==
  ASSUME Inv, UNCHANGED vars
  PROVE  Inv' /\ Grows
<1>1. RecordsGo /\ NonePurged
  BY DEF vars, mirakc, RecordsGo, NonePurged
<1>2. TablesInv' /\ Grows
  BY <1>1, TablesStay DEF Inv, vars
<1>3. ProcessesOK'
  BY DEF vars, mirakc, sweeps, jobs, Inv, ProcessesOK
<1> QED BY <1>1, <1>2, <1>3, ProcessesStay DEF vars, jobs

LEMMA EveryStepKeeps ==
  ASSUME Inv, [Next]_vars
  PROVE  Inv' /\ Grows
<1>1. ASSUME NEW w \in Watchers, WatcherStep(w)
      PROVE  Inv' /\ Grows
  BY <1>1, TakeSavedKeeps, ProcessSavedKeeps, TakeFailureKeeps DEF WatcherStep
<1>2. ASSUME NEW s \in Sweeps, SweepStep(s)
      PROVE  Inv' /\ Grows
  BY <1>2, ListSchedulesKeeps, ListRecordsKeeps, DeleteStaleStepKeeps, EndSweepKeeps,
     SweepFailedScheduleKeeps, SweepRecordKeeps DEF SweepStep
<1>3. ASSUME NEW g \in Ingesters, IngestStep(g)
      PROVE  Inv' /\ Grows
  BY <1>3, LookupTargetKeeps, IngestCommitsKeeps, WorkerStopsKeeps, DeleteEdgeRecordKeeps
     DEF IngestStep
<1>4. CASE UserStep
  BY <1>4, UserKeeps
<1>5. CASE MirakcStep
  BY <1>5, MirakcKeeps
<1>6. ASSUME NEW w \in Watchers, Reconnect(w)
      PROVE  Inv' /\ Grows
  BY <1>6, ReconnectKeeps
<1>7. ASSUME NEW s \in Sweeps, SweepFails(s)
      PROVE  Inv' /\ Grows
  BY <1>7, EndSweepKeeps
<1>8. ASSUME NEW g \in Ingesters, IngestFails(g)
      PROVE  Inv' /\ Grows
  BY <1>8, WorkerStopsKeeps
<1>9. CASE UNCHANGED vars
  BY <1>9, StutterKeeps
<1> QED BY <1>1, <1>2, <1>3, <1>4, <1>5, <1>6, <1>7, <1>8, <1>9 DEF Next

-----------------------------------------------------------------------------
(* The results. *)

(* The invariant of the tables and of all who read or write them. *)
THEOREM InvHolds == Spec => []Inv
<1>1. Inv /\ [Next]_vars => Inv'
  BY EveryStepKeeps
<1> QED BY InitInv, <1>1, PTL DEF Spec

(* The types, with the unique index: an event never has two live rows
   (recordings_unique_active_event). *)
THEOREM TypeCorrect == Spec => []TypeOK
<1>1. Inv => TypeOK
  <2> SUFFICES ASSUME Inv, NEW p \in Programs
               PROVE  Cardinality(LiveOf(p)) <= 1
    BY DEF TypeOK, TablesOK, Inv, TablesInv
  <2>1. \A i, j \in LiveOf(p) : i = j
    BY DEF Inv, TablesInv, UniqueInv, LiveOf
  <2>2. CASE LiveOf(p) = {}
    BY <2>2, FS_EmptySet
  <2>3. CASE LiveOf(p) # {}
    <3>1. PICK i \in LiveOf(p) : LiveOf(p) = {i}
      BY <2>1, <2>3
    <3>2. Cardinality({i}) = 1
      BY FS_Singleton, Zenon
    <3> QED BY <3>1, <3>2
  <2> QED BY <2>2, <2>3
<1> QED BY InvHolds, <1>1, PTL

(* A recording is marked failed only if its record failed, for any number of
   records of an event and any order of their observations
   (CreateOrGetFailedRecording). *)
THEOREM FailuresAreReal == Spec => []NoFalseFailure
<1>1. Inv => NoFalseFailure
  BY DEF Inv, TablesInv, LinkInv, RowInv, NoFalseFailure
<1> QED BY InvHolds, <1>1, PTL

(* A record makes one recording, however many watchers and sweeps apply it at
   once (AcquireRecordSync). *)
THEOREM RecordedOnce == Spec => []OneRecording
<1>1. Inv => OneRecording
  <2> SUFFICES ASSUME Inv, NEW r \in Records \ swept
               PROVE  Cardinality(attributed[r]) <= 1
    BY DEF OneRecording
  <2>1. CASE attributed[r] = {}
    BY <2>1, FS_EmptySet
  <2>2. CASE attributed[r] # {}
    <3>1. attributed[r] = {sync[r]}
      BY <2>2 DEF Inv, TablesInv, OnceInv
    <3>2. Cardinality({sync[r]}) = 1
      BY FS_Singleton, Zenon
    <3> QED BY <3>1, <3>2
  <2> QED BY <2>1, <2>2
<1> QED BY InvHolds, <1>1, PTL

(* A terminal state is kept, whatever order observations arrive in
   (UpdateRecordingStatus). *)
THEOREM TerminalIsKept == Spec => TerminalStays
<1>1. Inv /\ [Next]_vars =>
        [\A i \in Ids : recording[i] # NoRow /\ recording[i].status \in Terminal
           => recording'[i].status = recording[i].status]_vars
  BY EveryStepKeeps DEF Grows, RowsGo
<1> QED BY InvHolds, <1>1, PTL DEF TerminalStays, Spec

(* mirakc loses a record only when the library has the original made of it:
   the safety half of Ingested, for any number of workers on one record. *)
THEOREM NothingIsLost == Spec => []PurgedIsIngested
<1>1. Inv => PurgedIsIngested
  BY DEF Inv
<1> QED BY InvHolds, <1>1, PTL

=============================================================================
