--------------------------------- MODULE Ingest ---------------------------------
(***************************************************************************)
(* How one record is copied into the library.  Workers run the same job    *)
(* after a rescue, a lease in the recording's checkpoint tells which of    *)
(* them may write, and each writer generation has a temporary file of its  *)
(* own.  A slice of the transfer ends with a handoff that the next attempt *)
(* resumes; the finished file is linked to its canonical path inside the   *)
(* transaction that inserts its row.  A process may die anywhere, a lease  *)
(* may run out unnoticed, and a transaction may be lost behind its client. *)
(*                                                                         *)
(* A file holds the numbers of the record's chunks, 0 for a damaged one,   *)
(* and a hash is the sequence it was computed from.  No file is created    *)
(* twice under one name (OneWriter), so that a name stands for its inode.   *)
(***************************************************************************)
EXTENDS Naturals, Sequences, FiniteSets

CONSTANTS
    Workers, NoOne,
    None,
    Length,         \* bound: chunks of the record
    MaxGeneration,  \* bound: writer generations of a checkpoint
    MaxFaults,      \* bound: crashes, failed calls, expired leases, damage
    Damage          \* chunks may be damaged on the way

ASSUME IngestAssumption ==
    /\ NoOne \notin Workers
    /\ Length \in Nat /\ MaxGeneration \in Nat \ {0} /\ MaxFaults \in Nat
    /\ Damage \in BOOLEAN

VARIABLES
    record,         \* mirakc's record: its status
    grown,          \* the chunks it has so far
    sha256,         \* whether mirakc has its hash in the end
    job,            \* whether an ingest job is queued, waiting or running
    checkpoint,     \* recording_ingest_checkpoints
    progress,       \* recording_ingest_progress
    asset,          \* the original's rows
    reserved,       \* how many canonical paths have been made
    file,           \* file[n]: what was ever written to the inode named n
    temps,          \* temporary names that are there
    canonical,      \* canonical[p]: the inode that path p names
    lock,           \* whose transaction holds the checkpoint's row
    at,             \* at[w]: where worker w is and what it knows
    lost,           \* temporary files that a restored volume does not have
    doomed,         \* temporary files that delete_reconcile is about to unlink
    faults

mirakc == <<record, grown, sha256>>
rows == <<checkpoint, progress, asset, reserved>>
files == <<file, temps, canonical, lost>>
vars == <<mirakc, job, rows, files, lock, at, doomed, faults>>

Paths == 1..2       \* a second one only if the checkpoint is made anew
Generations == 1..MaxGeneration
Names == Paths \X Generations
Contents == UNION {[1..n -> 0..Length] : n \in 0..Length}
Whole == [k \in 1..Length |-> k]

Steps == {"idle", "acquire", "prepare", "inspect", "open", "start", "transfer",
          "final", "publish", "link", "commit", "clean", "committed", "purge"}
Idle == [step |-> "idle", path |-> 0, generation |-> 0, resumed |-> FALSE,
         hash |-> <<>>, temp |-> None]

Checkpoints == [owner : Workers \cup {NoOne}, live : BOOLEAN, path : {0} \cup Paths,
                generation : Generations, handedOff : BOOLEAN, hash : Contents]
Progress == [temp : Names, written : 0..Length]
Originals == [path : Paths, sha256 : Contents]
Attempts == [step : Steps, path : {0} \cup Paths, resumed : BOOLEAN,
             generation : {0} \cup Generations, hash : Contents, temp : {None} \cup Names]

(* No row and no file is not a row and not a file. *)
ASSUME NoneAssumption ==
    None \notin Checkpoints \cup Progress \cup Originals \cup Names \cup Contents

RecordOK ==
    /\ record \in {"recording", "finished", "canceled", "purged"}
    /\ grown \in 0..Length /\ sha256 \in BOOLEAN /\ job \in BOOLEAN

RowsOK ==
    /\ checkpoint \in {None} \cup Checkpoints
    /\ progress \in {None} \cup Progress
    /\ asset \in {None} \cup Originals
    /\ reserved \in {0} \cup Paths

FilesOK ==
    /\ file \in [Names -> {None} \cup Contents]
    /\ temps \subseteq {n \in Names : file[n] # None}
    /\ canonical \in [Paths -> {None} \cup Names]
    /\ lost \subseteq Names /\ doomed \subseteq Names

WorkersOK ==
    /\ lock \in Workers \cup {NoOne}
    /\ at \in [Workers -> Attempts]
    /\ faults \in 0..MaxFaults

TypeOK == RecordOK /\ RowsOK /\ FilesOK /\ WorkersOK

Init ==
    /\ record = "recording" /\ grown = 0 /\ sha256 \in BOOLEAN /\ job = TRUE
    /\ checkpoint = None /\ progress = None /\ asset = None /\ reserved = 0
    /\ file = [n \in Names |-> None] /\ temps = {}
    /\ canonical = [p \in Paths |-> None]
    /\ lost = {} /\ lock = NoOne /\ at = [w \in Workers |-> Idle] /\ doomed = {}
    /\ faults = 0

Fault == faults < MaxFaults /\ faults' = faults + 1

-----------------------------------------------------------------------------
(* mirakc. *)

Grow ==
    /\ record = "recording" /\ grown < Length
    /\ grown' = grown + 1
    /\ UNCHANGED <<record, sha256, job, rows, files, lock, at, doomed, faults>>

EndRecord ==
    /\ record = "recording"
    /\ \/ grown = Length /\ record' = "finished"
       \/ record' = "canceled"
    /\ UNCHANGED <<grown, sha256, job, rows, files, lock, at, doomed, faults>>

(* The sweep of the records finds one that is still there. *)
Requeue ==
    /\ ~job /\ record = "finished"
    /\ job' = TRUE
    /\ UNCHANGED <<mirakc, rows, files, lock, at, doomed, faults>>

-----------------------------------------------------------------------------
(* The checkpoint.  Every statement waits for the transaction that holds the
   row, and names the owner, mostly the generation and the lease too. *)

Free(w) == lock \in {NoOne, w}

Owns(w) == checkpoint # None /\ checkpoint.owner = w
OwnsWriter(w) == Owns(w) /\ checkpoint.generation = at[w].generation
Leased(w) == OwnsWriter(w) /\ checkpoint.live

Goto(w, step) == at' = [at EXCEPT ![w].step = step]

(* The attempt ends, and its name goes with it: each attempt has a new one.
   Without a handoff the lease is given back. *)
Released(w) ==
    IF Owns(w) THEN [checkpoint EXCEPT !.owner = NoOne, !.live = FALSE] ELSE checkpoint

Release(w) ==
    /\ Free(w)
    /\ checkpoint' = Released(w)
    /\ at' = [at EXCEPT ![w] = Idle]
    /\ lock' = NoOne

Reported(w, n) ==
    IF progress = None \/ progress.temp = at[w].temp \/ n >= progress.written
    THEN [temp |-> at[w].temp, written |-> n] ELSE progress

(* Progress is written only by the writer that holds the lease, and failing to
   write it does not fail the transfer. *)
ReportProgress(w, n) ==
    /\ Free(w)
    /\ progress' = IF Leased(w) THEN Reported(w, n) ELSE progress
    /\ UNCHANGED <<checkpoint, asset, reserved>>

-----------------------------------------------------------------------------
(* A worker takes the job, or another still has it from before a rescue. *)
Lookup(w) ==
    /\ job /\ at[w] = Idle
    /\ Goto(w, IF asset = None THEN "acquire" ELSE "committed")
    /\ UNCHANGED <<mirakc, job, rows, files, lock, doomed, faults>>

(* Mutant: whatever the last writer left is resumed. *)
ResumesAnything == TRUE

(* A handoff is resumed in its generation, anything else begins a new one. *)
Resumes == checkpoint.handedOff

Claim(w) ==
    [checkpoint EXCEPT !.owner = w, !.live = TRUE, !.handedOff = FALSE,
        !.generation = IF Resumes THEN @ ELSE @ + 1,
        !.hash = IF Resumes THEN @ ELSE <<>>]

MayClaim == Resumes \/ checkpoint.generation < MaxGeneration   \* the bound

FirstCheckpoint(w) ==
    [owner |-> w, live |-> TRUE, path |-> 0, generation |-> 1, handedOff |-> FALSE,
     hash |-> <<>>]

Acquire(w) ==
    /\ at[w].step = "acquire" /\ Free(w)
    /\ IF checkpoint # None /\ checkpoint.live
       THEN at' = [at EXCEPT ![w] = Idle] /\ UNCHANGED checkpoint
       ELSE /\ checkpoint # None => MayClaim
            /\ checkpoint' = IF checkpoint = None THEN FirstCheckpoint(w) ELSE Claim(w)
            /\ at' = [at EXCEPT ![w] = [Idle EXCEPT
                         !.step = "prepare", !.path = checkpoint'.path,
                         !.generation = checkpoint'.generation,
                         !.resumed = checkpoint # None /\ Resumes,
                         !.hash = checkpoint'.hash]]
    /\ UNCHANGED <<mirakc, job, progress, asset, reserved, files, lock, doomed, faults>>

(* The canonical path is made once for a checkpoint. *)
Prepare(w) ==
    /\ at[w].step = "prepare" /\ record # "purged" /\ Free(w)
    /\ IF at[w].path # 0
       THEN Goto(w, "inspect") /\ UNCHANGED <<checkpoint, reserved>>
       ELSE LET path == IF checkpoint.path = 0 THEN reserved + 1 ELSE checkpoint.path IN
            /\ Owns(w) /\ checkpoint.live
            /\ checkpoint' = [checkpoint EXCEPT !.path = path]
            /\ reserved' = IF checkpoint.path = 0 THEN path ELSE reserved
            /\ at' = [at EXCEPT ![w].step = "inspect", ![w].path = path]
    /\ UNCHANGED <<mirakc, job, progress, asset, files, lock, doomed, faults>>

(* Mutant: the inodes are not compared. *)
SameFileByName(n, p) == n \in temps

SameFile(n, p) == n \in temps /\ canonical[p] = n

WriterTemp(w) == <<at[w].path, at[w].generation>>

(* The writer's file was linked before and its handoff is complete. *)
LinkedHandoff(w) ==
    at[w].resumed /\ SameFile(WriterTemp(w), at[w].path) /\ Len(file[WriterTemp(w)]) = Len(at[w].hash)

LinkedProgress(w) == progress # None /\ SameFile(progress.temp, at[w].path)

(* What an earlier attempt has linked is only committed; without a handoff its
   hash is computed from the file. *)
Inspect(w) ==
    /\ at[w].step = "inspect"
    /\ at' = [at EXCEPT ![w] =
         IF LinkedHandoff(w) THEN [@ EXCEPT !.step = "final", !.temp = WriterTemp(w)]
         ELSE IF LinkedProgress(w)
         THEN [@ EXCEPT !.step = "publish", !.temp = progress.temp,
                        !.hash = file[progress.temp]]
         ELSE [@ EXCEPT !.step = "open"]]
    /\ UNCHANGED <<mirakc, job, rows, files, lock, doomed, faults>>

-----------------------------------------------------------------------------
(* The transfer. *)

(* A handed-off file is what the checkpoint says, or the name is free. *)
Usable(w, n) ==
    IF at[w].resumed THEN n \in temps /\ Len(file[n]) = Len(at[w].hash)
                     ELSE n \notin temps

OpenWriterFile(w) ==
    LET n == WriterTemp(w) IN
    /\ at[w].step = "open" /\ Free(w)
    /\ IF Usable(w, n)
       THEN /\ file' = IF at[w].resumed THEN file ELSE [file EXCEPT ![n] = <<>>]
            /\ temps' = temps \cup {n}
            /\ at' = [at EXCEPT ![w].step = "start", ![w].temp = n]
            /\ UNCHANGED checkpoint
       ELSE /\ Leased(w) /\ checkpoint.generation < MaxGeneration
            /\ checkpoint' = [checkpoint EXCEPT !.generation = @ + 1, !.handedOff = FALSE,
                                                !.hash = <<>>]
            /\ at' = [at EXCEPT ![w].generation = @ + 1, ![w].resumed = FALSE,
                                ![w].hash = <<>>]
            /\ UNCHANGED <<file, temps>>
    /\ UNCHANGED <<mirakc, job, progress, asset, reserved, canonical, lost, lock, doomed, faults>>

StartProgress(w) ==
    /\ at[w].step = "start"
    /\ \/ ReportProgress(w, Len(at[w].hash)) /\ UNCHANGED faults
       \/ Fault /\ UNCHANGED rows
    /\ Goto(w, "transfer")
    /\ UNCHANGED <<mirakc, job, files, lock, doomed>>

(* The next chunk; the hasher sees what is written, and only now and then is
   progress reported. *)
Transfer(w) ==
    LET got == Len(at[w].hash) + 1 IN
    /\ at[w].step = "transfer" /\ got <= grown /\ record # "purged"
    /\ \E chunk \in {got, 0} :
          /\ IF chunk = 0 THEN Damage /\ Fault ELSE UNCHANGED faults
          /\ file' = [file EXCEPT ![at[w].temp] = Append(@, chunk)]
          /\ at' = [at EXCEPT ![w].hash = Append(@, chunk)]
    /\ ReportProgress(w, got) \/ UNCHANGED rows
    /\ UNCHANGED <<mirakc, job, temps, canonical, lost, lock, doomed>>

(* Mutant: a writer hands off whether or not it is the writer still. *)
HandOffAnyway(w) ==
    /\ at[w].step = "transfer" /\ Free(w) /\ checkpoint # None
    /\ checkpoint' = [checkpoint EXCEPT !.owner = NoOne, !.live = FALSE,
                                            !.handedOff = TRUE, !.hash = at[w].hash]
    /\ at' = [at EXCEPT ![w] = Idle]
    /\ \/ progress' = Reported(w, Len(at[w].hash)) /\ UNCHANGED faults
       \/ Fault /\ UNCHANGED progress
    /\ UNCHANGED <<mirakc, job, asset, reserved, files, lock, doomed>>

(* The slice is over, or all is there but mirakc's hash: progress is flushed,
   the file synced and closed, and the next attempt goes on from here. *)
HandOff(w) ==
    /\ at[w].step = "transfer" /\ Free(w) /\ Leased(w)
    /\ checkpoint' = [checkpoint EXCEPT !.owner = NoOne, !.live = FALSE,
                                            !.handedOff = TRUE, !.hash = at[w].hash]
    /\ at' = [at EXCEPT ![w] = Idle]
    /\ \/ progress' = Reported(w, Len(at[w].hash)) /\ UNCHANGED faults
       \/ Fault /\ UNCHANGED progress
    /\ UNCHANGED <<mirakc, job, asset, reserved, files, lock, doomed>>

(* What was written is of no use: the checkpoint moves to the next generation
   and the file goes, unless another has become the writer. *)
Discard(w) ==
    /\ Free(w)
    /\ IF OwnsWriter(w)
       THEN /\ checkpoint.generation < MaxGeneration
            /\ checkpoint' = [Released(w) EXCEPT !.generation = @ + 1,
                                                 !.handedOff = FALSE, !.hash = <<>>]
            /\ progress' = None
            /\ temps' = temps \ {at[w].temp}
       ELSE checkpoint' = Released(w) /\ UNCHANGED <<progress, temps>>
    /\ at' = [at EXCEPT ![w] = Idle]
    /\ UNCHANGED <<mirakc, asset, reserved, file, canonical, lost, lock, doomed, faults>>

(* The record was canceled: the job is given up for good. *)
DiscardCanceled(w) ==
    /\ at[w].step = "transfer" /\ record = "canceled" /\ Len(at[w].hash) = grown
    /\ job' = FALSE
    /\ Discard(w)

Transferred(w) ==
    at[w].step = "transfer" /\ record = "finished" /\ Len(at[w].hash) = grown

DiscardMismatch(w) ==
    /\ Transferred(w) /\ sha256 /\ at[w].hash # Whole
    /\ Discard(w) /\ UNCHANGED job

(* Progress is flushed and the file synced and closed.  If mirakc has no hash
   the attempt has waited for it long enough. *)
Complete(w) ==
    /\ Transferred(w) /\ (sha256 => at[w].hash = Whole)
    /\ \/ ReportProgress(w, Len(at[w].hash)) /\ UNCHANGED faults
       \/ Fault /\ UNCHANGED rows
    /\ Goto(w, "final")
    /\ UNCHANGED <<mirakc, job, files, lock, doomed>>

-----------------------------------------------------------------------------
(* The publication. *)

(* The complete file is handed off while the lease goes on. *)
SaveFinalHandoff(w) ==
    /\ at[w].step = "final" /\ Free(w) /\ Leased(w)
    /\ checkpoint' = [checkpoint EXCEPT !.handedOff = TRUE, !.hash = at[w].hash]
    /\ Goto(w, "publish")
    /\ UNCHANGED <<mirakc, job, progress, asset, reserved, files, lock, doomed, faults>>

(* The transaction begins: it locks the leased checkpoint and inserts the
   original, whose generation comes from the progress row. *)
BeginPublication(w) ==
    /\ at[w].step = "publish" /\ lock = NoOne /\ Leased(w)
    /\ asset = None /\ progress # None
    /\ lock' = w
    /\ Goto(w, "link")
    /\ UNCHANGED <<mirakc, job, rows, files, doomed, faults>>

(* Mutant: a path that is taken is always refused. *)
PublishOnce(w) ==
    LET p == at[w].path  n == at[w].temp IN
    /\ at[w].step = "link" /\ canonical[p] = None /\ n \in temps
    /\ canonical' = [canonical EXCEPT ![p] = n]
    /\ Goto(w, "commit")
    /\ UNCHANGED <<mirakc, job, rows, file, temps, lost, lock, doomed, faults>>

(* A link never replaces a file.  Another file with the same bytes will do. *)
PublishLink(w) ==
    LET p == at[w].path  n == at[w].temp IN
    /\ at[w].step = "link"
    /\ \/ /\ canonical[p] = None /\ n \in temps
          /\ canonical' = [canonical EXCEPT ![p] = n]
       \/ /\ canonical[p] # None
          /\ canonical[p] = n \/ file[canonical[p]] = at[w].hash
          /\ UNCHANGED canonical
    /\ Goto(w, "commit")
    /\ UNCHANGED <<mirakc, job, rows, file, temps, lost, lock, doomed, faults>>

Commits(w) ==
    /\ at[w].step = "commit" /\ lock = w
    /\ asset' = [path |-> at[w].path, sha256 |-> at[w].hash]
    /\ progress' = None /\ checkpoint' = None
    /\ lock' = NoOne

CommitOriginal(w) ==
    /\ Commits(w)
    /\ Goto(w, "clean")
    /\ UNCHANGED <<mirakc, job, reserved, files, doomed, faults>>

(* The commit is done but its answer is lost. *)
CommitUnanswered(w) ==
    /\ Commits(w) /\ Fault
    /\ at' = [at EXCEPT ![w] = Idle]
    /\ UNCHANGED <<mirakc, job, reserved, files, doomed>>

(* The connection of the transaction is gone: it is rolled back, and whoever
   waits for the row gets it while this worker still works on its files. *)
LoseTransaction(w) ==
    /\ lock = w /\ Fault
    /\ lock' = NoOne
    /\ UNCHANGED <<mirakc, job, rows, files, at, doomed>>

CleanUp(w) ==
    LET older == {n \in Names : n[1] = at[w].path /\ n[2] < at[w].generation} IN
    /\ at[w].step = "clean"
    /\ temps' = temps \ (older \cup {at[w].temp})
    /\ Goto(w, "purge")
    /\ UNCHANGED <<mirakc, job, rows, file, canonical, lost, lock, doomed, faults>>

(* The original was there already. *)
AlreadyCommitted(w) ==
    /\ at[w].step = "committed"
    /\ progress' = None
    /\ temps' = {n \in temps : ~SameFile(n, asset.path)}
    /\ Goto(w, "purge")
    /\ UNCHANGED <<mirakc, job, checkpoint, asset, reserved, file, canonical, lost, lock, doomed, faults>>

(* If mirakc does not delete the record the job is done all the same. *)
DeleteEdgeRecord(w) ==
    /\ at[w].step = "purge"
    /\ \/ record' = "purged" /\ UNCHANGED faults
       \/ UNCHANGED record /\ Fault
    /\ job' = FALSE
    /\ at' = [at EXCEPT ![w] = Idle]
    /\ UNCHANGED <<grown, sha256, rows, files, lock, doomed>>

-----------------------------------------------------------------------------
(* Failures.  The job stays and is tried again. *)

Working(w) == at[w].step # "idle"

(* What this attempt needs is not so: the record is gone, the lease is lost,
   there is a row or a file already, or no progress to commit. *)
Stuck(w) ==
    \/ at[w].step \in {"prepare", "transfer"} /\ record = "purged"
    \/ at[w].step = "prepare" /\ at[w].path = 0 /\ ~(Owns(w) /\ checkpoint.live)
    \/ at[w].step = "open" /\ ~Usable(w, WriterTemp(w)) /\ ~Leased(w)
    \/ at[w].step = "transfer" /\ ~Leased(w)
    \/ at[w].step = "final" /\ ~Leased(w)
    \/ at[w].step = "publish" /\ (~Leased(w) \/ asset # None \/ progress = None)
    \/ at[w].step = "link" /\ IF canonical[at[w].path] = None THEN at[w].temp \notin temps
                              ELSE /\ canonical[at[w].path] # at[w].temp
                                   /\ file[canonical[at[w].path]] # at[w].hash
    \/ at[w].step = "commit" /\ lock # w

GiveUp(w) ==
    /\ Stuck(w) /\ Release(w)
    /\ UNCHANGED <<mirakc, job, progress, asset, reserved, files, doomed, faults>>

(* A call fails. *)
Fails(w) ==
    /\ Working(w) /\ Fault /\ Release(w)
    /\ UNCHANGED <<mirakc, job, progress, asset, reserved, files, doomed>>

(* The process dies. *)
Crash(w) ==
    /\ Working(w) /\ Fault
    /\ at' = [at EXCEPT ![w] = Idle]
    /\ lock' = IF lock = w THEN NoOne ELSE lock
    /\ checkpoint' = IF Owns(w) THEN [checkpoint EXCEPT !.owner = NoOne] ELSE checkpoint
    /\ UNCHANGED <<mirakc, job, progress, asset, reserved, files, doomed>>

(* A temporary file is lost with the host, or the volume comes from a backup. *)
LoseTemp(n) ==
    /\ n \in temps /\ (\A w \in Workers : ~Working(w)) /\ Fault
    /\ temps' = temps \ {n} /\ lost' = lost \cup {n}
    /\ UNCHANGED <<mirakc, job, rows, file, canonical, lock, at, doomed>>

(* A lease runs out; while its writer works on, that takes a pause without a
   progress report. *)
ExpireLease ==
    /\ checkpoint # None /\ checkpoint.live
    /\ checkpoint' = [checkpoint EXCEPT !.live = FALSE]
    /\ UNCHANGED <<mirakc, job, progress, asset, reserved, files, lock, at, doomed>>

LeaseOfDead == ExpireLease /\ checkpoint.owner = NoOne /\ UNCHANGED faults
LeaseOfLiving == ExpireLease /\ checkpoint.owner # NoOne /\ Fault

-----------------------------------------------------------------------------
(* delete_reconcile collects temporary files that no checkpoint speaks for. *)

Shown == IF progress = None THEN None ELSE progress.temp

(* Mutant: the displayed file is collected too. *)
CollectableShown(n) == checkpoint # None /\ n[2] < checkpoint.generation

(* Without a checkpoint a file has to be old as well, which it is not while it
   is being written. *)
Collectable(n) ==
    IF checkpoint # None
    THEN n[2] < checkpoint.generation /\ n # Shown
    ELSE \A w \in Workers : at[w].temp # n

CheckOrphan(n) ==
    /\ n \in temps \ doomed /\ Collectable(n)
    /\ doomed' = doomed \cup {n}
    /\ UNCHANGED <<mirakc, job, rows, files, lock, at, faults>>

UnlinkOrphan(n) ==
    /\ n \in doomed
    /\ temps' = temps \ {n} /\ doomed' = doomed \ {n}
    /\ UNCHANGED <<mirakc, job, rows, file, canonical, lost, lock, at, faults>>

-----------------------------------------------------------------------------
WorkerStep(w) ==
    \/ Lookup(w) \/ Acquire(w) \/ Prepare(w) \/ Inspect(w)
    \/ OpenWriterFile(w) \/ StartProgress(w) \/ Transfer(w)
    \/ DiscardCanceled(w) \/ DiscardMismatch(w) \/ Complete(w)
    \/ SaveFinalHandoff(w) \/ BeginPublication(w) \/ PublishLink(w) \/ CommitOriginal(w)
    \/ CleanUp(w) \/ AlreadyCommitted(w) \/ DeleteEdgeRecord(w)
    \/ GiveUp(w)

Next ==
    \/ Grow \/ EndRecord \/ Requeue \/ LeaseOfDead \/ LeaseOfLiving
    \/ \E w \in Workers : \/ WorkerStep(w) \/ HandOff(w)
                          \/ CommitUnanswered(w) \/ LoseTransaction(w) \/ Fails(w) \/ Crash(w)
    \/ \E n \in Names : CheckOrphan(n) \/ UnlinkOrphan(n) \/ LoseTemp(n)

Spec == Init /\ [][Next]_vars

(* River runs the job again until it is done, a worker that runs goes on and
   gets some of the record into each slice, the lease of a worker that died
   runs out, and the sweep finds what is left. *)
Fairness ==
    /\ \A w \in Workers :
          WF_vars(WorkerStep(w)) /\ SF_vars(Transfer(w) \/ Complete(w) \/ DiscardMismatch(w))
    /\ WF_vars(LeaseOfDead)
    /\ WF_vars(Requeue)

FairSpec == Spec /\ Fairness

-----------------------------------------------------------------------------
(* What a handoff leaves is what the next attempt resumes: its file is there
   and holds exactly the bytes the saved offset and hash speak of, although
   workers with a lost lease write on and delete_reconcile collects
   (AcquireIngestCheckpoint, openIngestHandoff). *)
HandoffIntact ==
    checkpoint # None /\ checkpoint.handedOff =>
        LET n == <<checkpoint.path, checkpoint.generation>> IN
        n \notin lost => n \in temps /\ file[n] = checkpoint.hash

(* The file that a progress row shows is there with all that the row claims:
   a viewer reads it (UpdateRecordingIngestProgress). *)
ShownIsThere ==
    progress # None /\ progress.temp \notin lost =>
        progress.temp \in temps /\ Len(file[progress.temp]) >= progress.written

Writes(w, n) == at[w].step \in {"start", "transfer"} /\ at[w].temp = n

(* A temporary name is given to one file, and no two workers ever write it,
   although they hold one job and one of them does not know that its lease has
   run out (ClaimRecordingIngestCheckpoint, DiscardRecordingIngestCheckpoint). *)
OneWriter ==
    [][\A n \in Names : file[n] # None /\ file'[n] # file[n] =>
          file'[n] # <<>> /\ Cardinality({w \in Workers : Writes(w, n)}) = 1]_vars

(* If mirakc has a hash, what is committed has it, also when a later attempt
   commits what an earlier one has linked, or adopts a file it finds (commit,
   linkedIngestFinalHandoff). *)
Verified ==
    asset # None /\ sha256 => canonical[asset.path] # None /\ file[canonical[asset.path]] = Whole

(* The original as a reader of the library finds it. *)
Original ==
    IF asset = None THEN "none"
    ELSE IF /\ canonical[asset.path] # None
            /\ file[canonical[asset.path]] = asset.sha256
            /\ Len(asset.sha256) = Length
    THEN "whole" ELSE "broken"

Contract == INSTANCE IngestContract WITH original <- Original

(* Ingest keeps its contract: what has finished comes into the library whole
   and once, and only then goes from mirakc; and in the end it does, whatever
   attempts die, between the link and the commit too (commitAndFinish,
   handleAlreadyCommittedIngest). *)
FulfilsContract == Contract!Spec

=============================================================================
