---------------------------- MODULE StorageTransfer ----------------------------
(***************************************************************************)
(* One original moves between two file stores while the placement policy   *)
(* is switched: jobs of workers with the old and the new policy reserve a  *)
(* copy, read the source block by block in slices, resume what another     *)
(* slice saved, link the file and activate the row; one delete pass per    *)
(* store prunes the copy that is not wanted any more and takes back the    *)
(* reservations nobody needs.  A file is the sequence of its blocks, and   *)
(* its SHA-256 is that sequence.                                           *)
(***************************************************************************)
EXTENDS Integers, Sequences

CONSTANTS
    Stores,             \* the file stores; a policy is the store it wants
    First,              \* the store ingest has written to
    Workers,            \* processes that may run a transfer job
    None,
    Length,             \* blocks of the recording
    AttemptLimit,       \* storageTransferAttemptLimit
    MaxCopies,          \* bound: rows of media_asset_copies ever made
    MaxGeneration,      \* bound: generations of one copy's progress
    MaxSwitches,        \* bound: switches of the policy
    MaxTrash,           \* bound: times the recording is trashed
    MaxFaults           \* bound: crashes, stalls, lost locks and lost replies

ASSUME TransferAssumption ==
    /\ First \in Stores /\ \E second \in Stores \ {First} : Stores = {First, second}
    /\ {Length, AttemptLimit, MaxCopies, MaxGeneration} \subseteq Nat \ {0}
    /\ {MaxSwitches, MaxTrash, MaxFaults} \subseteq Nat

VARIABLES
    copy,       \* copy[c]: the row: its store and its state
    sha,        \* the SHA-256 the logical asset has, or None
    attempts,   \* attempts[c]: failures counted for the copy
    progress,   \* progress[c]: the lease and what was saved, or None
    inode,      \* inode[c][g]: the blocks of the file generation g wrote
    temp,       \* temp[c]: generations whose temporary file has its name
    dest,       \* dest[c]: the generation the canonical path is linked to, or None
    lock,       \* lock[s]: who holds the lock of the source store s
    worker,     \* worker[w]: the job w runs
    pass,       \* pass[s]: what the delete pass of store s is doing
    policies,   \* the policies of the processes that run
    policy,     \* the newest of them
    torn,       \* history: copies whose files a reclaim removed in a lost transaction
    trashed, switches, trashes, faults

rows == <<copy, sha, attempts, progress>>
files == <<inode, temp, dest>>
world == <<policies, policy, torn, trashed, switches, trashes>>
vars == <<rows, files, lock, worker, pass, world, faults>>

Copies == 1..MaxCopies
Generations == 0..MaxGeneration
Data(kind) == [i \in 1..Length |-> kind]
Blocks == UNION {[1..n -> {"good", "rotten"}] : n \in 0..Length}

Idle == [at |-> "idle", want |-> None, copy |-> 0, from |-> 0, file |-> None, sha |-> None,
         generation |-> 0, previous |-> 0, resumed |-> FALSE, read |-> <<>>,
         made |-> FALSE, remove |-> 0, saved |-> FALSE, late |-> FALSE]

Steps == {"idle", "prepared", "locked", "look", "open", "copy", "measure", "verify", "complete",
          "unlike", "stale", "discard", "tidy", "suspect", "failed", "leave"}

Job == [at : Steps, want : Stores \cup {None}, copy : 0..MaxCopies, from : 0..MaxCopies,
        file : Generations \cup {None}, sha : Blocks \cup {None}, generation : Generations,
        previous : Generations, resumed : BOOLEAN, read : Blocks, made : BOOLEAN,
        remove : Generations, saved : BOOLEAN, late : BOOLEAN]

NoPass == [step |-> "idle", copy |-> 0, want |-> None, generation |-> 0]

Pass == [step : {"idle", "unlink", "unlinked", "revert", "reclaim"}, copy : 0..MaxCopies,
         want : Stores \cup {None}, generation : Generations]

Progress == [owner : Workers \cup {None}, live : BOOLEAN, generation : 1..MaxGeneration,
             handed : BOOLEAN, read : Blocks, verifying : BOOLEAN]

ASSUME NoneAssumption ==
    /\ None \notin Progress /\ None \notin Blocks /\ None \notin Generations
    /\ None \notin Workers /\ None \notin Stores

In(s, states) == {c \in Copies : copy[c].store = s /\ copy[c].state \in states}
Live == {"pending", "active", "deleting"}

(* A store has at most one row of the asset that is not deleted
   (media_asset_copies_asset_store_generation_idx). *)
RowsOK ==
    /\ copy \in [Copies -> [store : Stores \cup {None},
                            state : {"none", "pending", "active", "deleting", "deleted"}]]
    /\ \A b, c \in Copies :
          b # c /\ {copy[b].state, copy[c].state} \subseteq Live => copy[b].store # copy[c].store
    /\ sha \in Blocks \cup {None}
    /\ attempts \in [Copies -> 0..AttemptLimit]
    /\ progress \in [Copies -> Progress \cup {None}]

FilesOK ==
    /\ inode \in [Copies -> [Generations -> Blocks]]
    /\ temp \in [Copies -> SUBSET Generations]
    /\ dest \in [Copies -> Generations \cup {None}]

JobsOK ==
    /\ worker \in [Workers -> Job]
    /\ \A w \in Workers :
          /\ worker[w].at # "idle" => worker[w].copy \in Copies
          /\ worker[w].at \notin {"idle", "failed", "leave"} => worker[w].from \in Copies
          /\ worker[w].at = "copy" => worker[w].file # None

PassesOK ==
    /\ pass \in [Stores -> Pass]
    /\ \A s \in Stores : pass[s].step # "idle" => pass[s].copy \in Copies

WorldOK ==
    /\ lock \in [Stores -> Workers \cup {None}]
    /\ policies \in SUBSET Stores /\ policy \in policies
    /\ trashed \in BOOLEAN /\ torn \subseteq Copies
    /\ switches \in 0..MaxSwitches /\ trashes \in 0..MaxTrash /\ faults \in 0..MaxFaults

(* Rows, files, jobs and passes have their shape. *)
TypeOK == RowsOK /\ FilesOK /\ JobsOK /\ PassesOK /\ WorldOK

(* Ingest has left the first copy; it may not have hashed it. *)
Init ==
    /\ policy = First /\ policies = {First}
    /\ copy = [c \in Copies |-> IF c = 1 THEN [store |-> First, state |-> "active"]
                                ELSE [store |-> None, state |-> "none"]]
    /\ sha \in {None, Data("good")}
    /\ attempts = [c \in Copies |-> 0]
    /\ progress = [c \in Copies |-> None]
    /\ inode = [c \in Copies |-> [g \in Generations |-> IF c = 1 /\ g = 0 THEN Data("good") ELSE <<>>]]
    /\ temp = [c \in Copies |-> {}]
    /\ dest = [c \in Copies |-> IF c = 1 THEN 0 ELSE None]
    /\ lock = [s \in Stores |-> None]
    /\ worker = [w \in Workers |-> Idle]
    /\ pass = [s \in Stores |-> NoPass]
    /\ torn = {} /\ trashed = FALSE /\ switches = 0 /\ trashes = 0 /\ faults = 0

Fault == faults < MaxFaults /\ faults' = faults + 1

(* storage_transfer_candidate and the limit of attempts: the wanted copy is
   missing and another store has one. *)
Candidate(s) ==
    /\ ~trashed
    /\ In(s, {"active"}) = {}
    /\ \E t \in Stores \ {s} : In(t, {"active"}) # {}
    /\ \A c \in In(s, Live) : attempts[c] < AttemptLimit

(* Mutant: a copy in another store may go before the wanted one is there. *)
PrunableUnready(c, want) ==
    copy[c].state \in {"active", "deleting"} /\ ~trashed /\ copy[c].store # want

(* media_asset_copy_prunable: the copy the policy wants is active in its own store. *)
Prunable(c, want) ==
    /\ copy[c].state \in {"active", "deleting"} /\ ~trashed
    /\ copy[c].store # want
    /\ In(want, {"active"}) # {}

(* storage_transfer_pending_copy_obsolete *)
Obsolete(c, want) == copy[c].state = "pending" /\ (trashed \/ copy[c].store # want)

-----------------------------------------------------------------------------
(* A transfer job. *)

(* A job that ends only has to release what it holds. *)
Ends(w, at, saved) ==
    worker' = [worker EXCEPT ![w] = [Idle EXCEPT !.at = at, !.want = worker[w].want,
                 !.copy = worker[w].copy, !.saved = saved, !.late = worker[w].late]]

To(w, at) == IF at \in {"failed", "leave"} THEN Ends(w, at, worker[w].saved)
                                           ELSE worker' = [worker EXCEPT ![w].at = at]

Owns(w) ==
    LET mine == progress[worker[w].copy] IN
    /\ mine # None
    /\ mine.owner = w /\ mine.live /\ mine.generation = worker[w].generation

(* PrepareMediaAssetTransfer reserves the row, or takes the reservation that is
   there; a copy in deleting must go first. *)
Prepare(w, want) ==
    /\ worker[w].at = "idle" /\ want \in policies
    /\ Candidate(want)
    /\ \E t \in Stores \ {want} : \E source \in In(t, {"active"}) :
       \E c \in Copies :
          /\ \/ c \in In(want, {"pending"}) /\ UNCHANGED copy
             \/ /\ In(want, Live) = {}
                /\ copy[c].state = "none" /\ (\A b \in 1..(c - 1) : copy[b].state # "none")
                /\ copy' = [copy EXCEPT ![c] = [store |-> want, state |-> "pending"]]
          /\ worker' = [worker EXCEPT ![w].at = "prepared", ![w].want = want, ![w].copy = c,
                                          ![w].from = source, ![w].sha = sha]
    /\ UNCHANGED <<sha, attempts, progress, files, lock, pass, world, faults>>

Source(w) == copy[worker[w].from].store

(* One transfer at a time reads a source store. *)
AcquireBandwidth(w) ==
    /\ worker[w].at = "prepared"
    /\ \/ /\ lock[Source(w)] = None
          /\ lock' = [lock EXCEPT ![Source(w)] = w]
          /\ To(w, "locked")
       \/ /\ lock[Source(w)] # None
          /\ worker' = [worker EXCEPT ![w] = Idle]
          /\ UNCHANGED lock
    /\ UNCHANGED <<rows, files, pass, world, faults>>

(* Mutant: whoever comes takes the generation that is there, as if it were saved. *)
AcquireProgressAnyway(w) ==
    LET c == worker[w].copy
        old == progress[c]
    IN
    /\ worker[w].at = "locked" /\ ~worker[w].late
    /\ copy[c].state = "pending"
    /\ progress' = [progress EXCEPT ![c] =
          IF old = None
          THEN [owner |-> w, live |-> TRUE, generation |-> 1, handed |-> FALSE,
                read |-> <<>>, verifying |-> FALSE]
          ELSE [old EXCEPT !.owner = w, !.live = TRUE, !.handed = FALSE]]
    /\ worker' = [worker EXCEPT ![w].at = IF old # None /\ old.verifying THEN "verify" ELSE "look",
                                   ![w].generation = progress'[c].generation]
    /\ UNCHANGED <<copy, sha, attempts, files, lock, pass, world, faults>>

(* A saved slice goes on in its generation, an abandoned one starts the next. *)
AcquireProgress(w) ==
    LET c == worker[w].copy
        old == progress[c]
        next == IF old.verifying THEN "verify" ELSE "look"
        claim(generation, read, verifying) ==
            [progress EXCEPT ![c] = [owner |-> w, live |-> TRUE, generation |-> generation,
                                     handed |-> FALSE, read |-> read, verifying |-> verifying]]
    IN
    /\ worker[w].at = "locked" /\ ~worker[w].late
    /\ \/ /\ old = None /\ copy[c].state = "pending"
          /\ progress' = claim(1, <<>>, FALSE)
          /\ worker' = [worker EXCEPT ![w].at = "look", ![w].generation = 1]
       \/ /\ old # None /\ old.handed
          /\ progress' = claim(old.generation, old.read, old.verifying)
          /\ worker' = [worker EXCEPT ![w].at = next, ![w].resumed = TRUE, ![w].read = old.read,
                ![w].generation = old.generation, ![w].previous = old.generation]
       \/ /\ old # None /\ ~old.handed /\ ~old.live
          /\ old.generation < MaxGeneration
          /\ progress' = claim(old.generation + 1, <<>>, old.verifying)
          /\ worker' = [worker EXCEPT ![w].at = next,
                ![w].generation = old.generation + 1, ![w].previous = old.generation]
       \/ /\ IF old = None THEN copy[c].state # "pending" ELSE ~old.handed /\ old.live
          /\ To(w, "leave") /\ UNCHANGED progress
    /\ UNCHANGED <<copy, sha, attempts, files, lock, pass, world, faults>>

(* The temporary file is synced before this is written. *)
Save(w) == progress' = [progress EXCEPT ![worker[w].copy].handed = TRUE,
                            ![worker[w].copy].live = FALSE, ![worker[w].copy].read = worker[w].read]

Whole(blocks) == Len(blocks) = Length

(* adoptExistingDestination: what to do when the canonical file is there. *)
AdoptExistingDestination(w) ==
    LET c == worker[w].copy
        previous == worker[w].previous
        there == inode[c][dest[c]]
        own == IF previous > 0 /\ previous \in temp[c] /\ dest[c] = previous THEN previous ELSE 0
    IN
    /\ worker[w].at = "look"
    /\ \/ /\ dest[c] = None
          /\ To(w, "open") /\ UNCHANGED temp
       \/ /\ dest[c] # None /\ worker[w].sha = None /\ Whole(there)
          /\ temp' = [temp EXCEPT ![c] = @ \ {own}]
          /\ To(w, "measure")
       \/ /\ dest[c] # None /\ worker[w].sha = there
          /\ worker' = [worker EXCEPT ![w].at = "complete", ![w].read = there, ![w].remove = own]
          /\ UNCHANGED temp
       \/ /\ dest[c] # None
          /\ IF worker[w].sha = None THEN ~Whole(there) ELSE worker[w].sha # there
          /\ To(w, "suspect") /\ UNCHANGED temp
    /\ UNCHANGED <<rows, inode, dest, lock, pass, world, faults>>

(* openTransferSlice: the temporary file goes on where the saved slice ended,
   or begins anew; the generation before it is removed. *)
OpenSlice(w) ==
    LET c == worker[w].copy
        g == worker[w].generation
        open == dest[worker[w].from] # None
    IN
    /\ worker[w].at = "open"
    /\ \/ /\ ~open \/ (worker[w].resumed /\ (g \notin temp[c] \/ Len(inode[c][g]) # Len(worker[w].read)))
          /\ To(w, "failed") /\ UNCHANGED files
       \/ /\ open /\ worker[w].resumed /\ g \in temp[c] /\ Len(inode[c][g]) = Len(worker[w].read)
          /\ worker' = [worker EXCEPT ![w].at = "copy", ![w].file = dest[worker[w].from]]
          /\ UNCHANGED files
       \/ /\ open /\ ~worker[w].resumed
          /\ temp' = [temp EXCEPT ![c] = (@ \ {worker[w].previous}) \cup {g}]
          /\ inode' = [inode EXCEPT ![c][g] = <<>>]
          /\ worker' = [worker EXCEPT ![w].at = "copy", ![w].file = dest[worker[w].from],
                                          ![w].read = <<>>]
          /\ UNCHANGED dest
    /\ UNCHANGED <<rows, lock, pass, world, faults>>

Write(blocks, i, block) == IF i \in DOMAIN blocks THEN [blocks EXCEPT ![i] = block] ELSE Append(blocks, block)

(* An open source is read on after its path has been unlinked. *)
CopyBlock(w) ==
    LET c == worker[w].copy
        i == Len(worker[w].read) + 1
        source == inode[worker[w].from][worker[w].file]
    IN
    /\ worker[w].at = "copy" /\ i \in DOMAIN source
    /\ worker' = [worker EXCEPT ![w].read = Append(@, source[i])]
    /\ inode' = [inode EXCEPT ![c][worker[w].generation] = Write(@, i, source[i])]
    /\ UNCHANGED <<rows, temp, dest, lock, pass, world, faults>>

(* The source is read again to measure or to verify it; nothing is written. *)
SourceFile(w) == IF worker[w].file = None THEN dest[worker[w].from] ELSE worker[w].file

ReadBlock(w) ==
    LET i == Len(worker[w].read) + 1
        source == inode[worker[w].from][SourceFile(w)]
    IN
    /\ worker[w].at \in {"measure", "verify"}
    /\ SourceFile(w) # None /\ i \in DOMAIN source
    /\ worker' = [worker EXCEPT ![w].file = SourceFile(w), ![w].read = Append(@, source[i])]
    /\ UNCHANGED <<rows, files, lock, pass, world, faults>>

(* Mutant: a reading that has come to its end pauses again. *)
EndSliceAtEnd(w) ==
    /\ \/ worker[w].at = "copy" /\ ~Whole(worker[w].read)
       \/ worker[w].at \in {"measure", "verify"}
    /\ IF Owns(w) THEN Save(w) /\ Ends(w, "leave", TRUE)
                  ELSE To(w, "leave") /\ UNCHANGED progress
    /\ UNCHANGED <<copy, sha, attempts, files, lock, pass, world, faults>>

(* saveOriginalSlice, pauseSourceHash: the slice ends and hands over.  A reading
   that the slice before has brought to its end opens nothing and does not pause. *)
EndSlice(w) ==
    /\ \/ worker[w].at = "copy" /\ ~Whole(worker[w].read)
       \/ worker[w].at \in {"measure", "verify"}
          /\ IF Whole(worker[w].read) THEN worker[w].file # None ELSE SourceFile(w) # None
    /\ IF Owns(w) THEN Save(w) /\ Ends(w, "leave", TRUE)
                  ELSE To(w, "leave") /\ UNCHANGED progress
    /\ UNCHANGED <<copy, sha, attempts, files, lock, pass, world, faults>>

(* The connection to the source breaks: a copy saves what it has, and every
   kind of reading counts a failure. *)
ReadFails(w) ==
    /\ worker[w].at \in {"copy", "measure", "verify"} /\ ~Whole(worker[w].read)
    /\ ~worker[w].late
    /\ IF worker[w].at = "copy" /\ Owns(w)
       THEN Save(w) /\ Ends(w, "failed", TRUE)
       ELSE To(w, "failed") /\ UNCHANGED progress
    /\ UNCHANGED <<copy, sha, attempts, files, lock, pass, world, faults>>

(* The slice is whole: its hash must be the one known when it was reserved, and
   the link must not meet another file. *)
Publish(w) ==
    LET c == worker[w].copy
        g == worker[w].generation
        agrees == worker[w].sha \in {None, worker[w].read}
        linked == g \in temp[c] /\ dest[c] \in {None, g}
    IN
    /\ worker[w].at = "copy" /\ Whole(worker[w].read)
    /\ \/ /\ ~agrees
          /\ worker' = [worker EXCEPT ![w].at = "suspect", ![w].remove = g]
          /\ UNCHANGED dest
       \/ /\ agrees /\ linked
          /\ dest' = [dest EXCEPT ![c] = g]
          /\ worker' = [worker EXCEPT ![w].at = "complete", ![w].made = TRUE, ![w].remove = g]
       \/ /\ agrees /\ ~linked
          /\ To(w, "failed") /\ UNCHANGED dest
    /\ UNCHANGED <<rows, inode, temp, lock, pass, world, faults>>

(* CompleteMediaAssetTransfer: one statement decides what became of the row.
   The reply of a commit may be lost. *)
Complete(w) ==
    LET c == worker[w].copy
        digest == worker[w].read
        activates == copy[c].state = "pending" /\ ~trashed /\ sha \in {None, digest}
        accepted == activates \/ copy[c].state = "active"
    IN
    /\ worker[w].at = "complete" /\ ~worker[w].late
    /\ IF activates
       THEN /\ copy' = [copy EXCEPT ![c].state = "active"] /\ sha' = digest
            /\ attempts' = [attempts EXCEPT ![c] = 0]
       ELSE UNCHANGED <<copy, sha, attempts>>
    /\ progress' = IF accepted THEN [progress EXCEPT ![c] = None] ELSE progress
    /\ \/ /\ To(w, CASE accepted -> "tidy"
                     [] ~accepted /\ sha # None /\ sha # digest -> "unlike"
                     [] OTHER -> "stale")
          /\ UNCHANGED faults
       \/ accepted /\ Fault /\ To(w, "leave")
    /\ UNCHANGED <<files, lock, pass, world>>

(* The commit was refused: what this job has linked goes. *)
RemoveRefused(w) ==
    LET c == worker[w].copy IN
    /\ worker[w].at \in {"unlike", "stale"}
    /\ dest' = IF worker[w].made THEN [dest EXCEPT ![c] = None] ELSE dest
    /\ To(w, IF worker[w].at = "unlike" THEN "suspect" ELSE "discard")
    /\ UNCHANGED <<rows, inode, temp, lock, pass, world, faults>>

DiscardPending(w) ==
    LET c == worker[w].copy IN
    /\ worker[w].at = "discard" /\ ~worker[w].late
    /\ IF copy[c].state = "pending"
       THEN copy' = [copy EXCEPT ![c].state = "deleted"] /\ attempts' = [attempts EXCEPT ![c] = 0]
       ELSE UNCHANGED <<copy, attempts>>
    /\ progress' = [progress EXCEPT ![c] = None]
    /\ To(w, "tidy")
    /\ UNCHANGED <<sha, files, lock, pass, world, faults>>

RemoveTemp(w) ==
    /\ worker[w].at = "tidy"
    /\ temp' = [temp EXCEPT ![worker[w].copy] = @ \ {worker[w].remove}]
    /\ To(w, "leave")
    /\ UNCHANGED <<rows, inode, dest, lock, pass, world, faults>>

(* startSourceVerification: a mismatch counts only when the source has been
   read again to its end. *)
StartVerification(w) ==
    LET c == worker[w].copy IN
    /\ worker[w].at = "suspect"
    /\ temp' = [temp EXCEPT ![c] = @ \ {worker[w].remove}]
    /\ IF Owns(w) /\ ~worker[w].late
       THEN /\ progress' = [progress EXCEPT ![c].verifying = TRUE, ![c].read = <<>>]
            /\ worker' = [worker EXCEPT ![w].at = "verify", ![w].read = <<>>, ![w].file = None]
       ELSE To(w, "leave") /\ UNCHANGED progress
    /\ UNCHANGED <<copy, sha, attempts, inode, dest, lock, pass, world, faults>>

FinishVerification(w) ==
    LET c == worker[w].copy IN
    /\ worker[w].at = "verify" /\ Whole(worker[w].read)
    /\ IF Owns(w)
       THEN /\ progress' = [progress EXCEPT ![c].verifying = FALSE, ![c].read = <<>>]
            /\ To(w, "failed")
       ELSE To(w, "leave") /\ UNCHANGED progress
    /\ UNCHANGED <<copy, sha, attempts, files, lock, pass, world, faults>>

(* measureAdoptedSource ends: the next job compares the file with the hash. *)
RecordMeasured(w) ==
    /\ worker[w].at = "measure" /\ Whole(worker[w].read) /\ ~worker[w].late
    /\ sha' = IF sha = None THEN worker[w].read ELSE sha
    /\ To(w, "leave")
    /\ UNCHANGED <<copy, attempts, progress, files, lock, pass, world, faults>>

(* recordTransferFailure; a job that is being stopped counts nothing.  Beyond the
   limit the count makes no difference. *)
RecordFailure(w) ==
    LET c == worker[w].copy IN
    /\ worker[w].at = "failed"
    /\ attempts' = IF worker[w].late \/ attempts[c] = AttemptLimit THEN attempts
                   ELSE [attempts EXCEPT ![c] = @ + 1]
    /\ To(w, "leave")
    /\ UNCHANGED <<copy, sha, progress, files, lock, pass, world, faults>>

(* The deferred releases of the progress and of the source store. *)
Leave(w) ==
    LET c == worker[w].copy
        mine == progress[c] # None /\ progress[c].owner = w /\ ~worker[w].saved
    IN
    /\ worker[w].at = "leave"
    /\ progress' = IF mine THEN [progress EXCEPT ![c].live = FALSE, ![c].handed = FALSE] ELSE progress
    /\ lock' = [s \in Stores |-> IF lock[s] = w THEN None ELSE lock[s]]
    /\ worker' = [worker EXCEPT ![w] = Idle]
    /\ UNCHANGED <<copy, sha, attempts, files, pass, world, faults>>

(* A statement fails, or the job's deadline has passed before it. *)
GiveUp(w) ==
    /\ worker[w].at \in {"locked", "measure", "complete", "discard"}
    /\ IF worker[w].late THEN UNCHANGED faults ELSE Fault
    /\ To(w, "leave")
    /\ UNCHANGED <<rows, files, lock, pass, world>>

-----------------------------------------------------------------------------
(* What happens to a job. *)

(* A call on the file system hangs past the deadline of the job, which is
   before the end of its lease. *)
Stall(w) ==
    /\ worker[w].at \notin {"idle", "prepared", "leave"} /\ ~worker[w].late
    /\ Fault
    /\ worker' = [worker EXCEPT ![w].late = TRUE]
    /\ UNCHANGED <<rows, files, lock, pass, world>>

Crash(w) ==
    /\ worker[w].at # "idle"
    /\ Fault
    /\ worker' = [worker EXCEPT ![w] = Idle]
    /\ lock' = [s \in Stores |-> IF lock[s] = w THEN None ELSE lock[s]]
    /\ progress' = [c \in Copies |-> IF progress[c] # None /\ progress[c].owner = w
                                     THEN [progress[c] EXCEPT !.owner = None] ELSE progress[c]]
    /\ UNCHANGED <<copy, sha, attempts, files, pass, world>>

(* The connection that held the lock is gone; the job goes on. *)
LoseLock(s) ==
    /\ lock[s] # None
    /\ Fault
    /\ lock' = [lock EXCEPT ![s] = None]
    /\ UNCHANGED <<rows, files, worker, pass, world>>

LeaseExpires(c) ==
    /\ progress[c] # None /\ progress[c].live
    /\ \A w \in Workers : progress[c].owner = w => worker[w].late
    /\ progress' = [progress EXCEPT ![c].live = FALSE]
    /\ UNCHANGED <<copy, sha, attempts, files, lock, worker, pass, world, faults>>

-----------------------------------------------------------------------------
(* The delete pass of a store; it belongs to a process with some policy. *)

(* deletePlacementCopy marks under the lock of the asset ... *)
MarkCopyDeleting(s, want) ==
    /\ pass[s].step = "idle" /\ want \in policies
    /\ \E c \in In(s, {"active"}) :
          /\ Prunable(c, want)
          /\ copy' = [copy EXCEPT ![c].state = "deleting"]
          /\ pass' = [pass EXCEPT ![s] = [NoPass EXCEPT !.step = "unlink", !.copy = c]]
    /\ UNCHANGED <<sha, attempts, progress, files, lock, worker, world, faults>>

(* ... and a pass that finds the row in deleting later goes on. *)
ListPending(s, want) ==
    /\ pass[s].step = "idle" /\ want \in policies
    /\ \E c \in In(s, {"deleting"}) :
          /\ Prunable(c, want)
          /\ pass' = [pass EXCEPT ![s] = [NoPass EXCEPT !.step = "unlink", !.copy = c]]
    /\ UNCHANGED <<rows, files, lock, worker, world, faults>>

Unlink(s) ==
    /\ pass[s].step = "unlink"
    /\ dest' = [dest EXCEPT ![pass[s].copy] = None]
    /\ pass' = [pass EXCEPT ![s].step = "unlinked"]
    /\ UNCHANGED <<rows, inode, temp, lock, worker, world, faults>>

MarkDeleted(s) ==
    LET c == pass[s].copy IN
    /\ pass[s].step = "unlinked"
    /\ copy' = IF copy[c].state = "deleting" THEN [copy EXCEPT ![c].state = "deleted"] ELSE copy
    /\ pass' = [pass EXCEPT ![s] = NoPass]
    /\ UNCHANGED <<sha, attempts, progress, files, lock, worker, world, faults>>

(* Mutant: a row that need not go any more is active again, file or not. *)
StatDeletingUnseen(s, want) ==
    /\ pass[s].step = "idle" /\ want \in policies
    /\ \E c \in In(s, {"deleting"}) :
          /\ ~Prunable(c, want)
          /\ pass' = [pass EXCEPT ![s] = [NoPass EXCEPT !.copy = c, !.want = want, !.step = "revert"]]
    /\ UNCHANGED <<rows, files, lock, worker, world, faults>>

(* resolveUnqualifiedDeletingAsset: the file decides what the row becomes. *)
StatDeleting(s, want) ==
    /\ pass[s].step = "idle" /\ want \in policies
    /\ \E c \in In(s, {"deleting"}) :
          /\ ~Prunable(c, want)
          /\ pass' = [pass EXCEPT ![s] = [NoPass EXCEPT !.copy = c, !.want = want,
                         !.step = IF dest[c] = None THEN "unlinked" ELSE "revert"]]
    /\ UNCHANGED <<rows, files, lock, worker, world, faults>>

RevertToActive(s) ==
    LET c == pass[s].copy IN
    /\ pass[s].step = "revert"
    /\ copy' = IF copy[c].state = "deleting" /\ ~Prunable(c, pass[s].want)
               THEN [copy EXCEPT ![c].state = "active"] ELSE copy
    /\ pass' = [pass EXCEPT ![s] = NoPass]
    /\ UNCHANGED <<sha, attempts, progress, files, lock, worker, world, faults>>

(* reclaimObsoletePendingTransferCopy reads the generation before it has the
   locks of the transaction ... *)
ListObsolete(s, want) ==
    /\ pass[s].step = "idle" /\ want \in policies
    /\ \E c \in In(s, {"pending"}) :
          /\ Obsolete(c, want)
          /\ pass' = [pass EXCEPT ![s] = [step |-> "reclaim", copy |-> c, want |-> want,
                         generation |-> IF progress[c] = None THEN 0 ELSE progress[c].generation]]
    /\ UNCHANGED <<rows, files, lock, worker, world, faults>>

(* ... in which it removes the files it can tell are the transfer's own. *)
RemoveOwned(c, g) ==
    /\ dest' = IF g > 0 /\ g \in temp[c] /\ dest[c] = g THEN [dest EXCEPT ![c] = None] ELSE dest
    /\ temp' = [temp EXCEPT ![c] = @ \ {g}]

ReclaimObsolete(s) ==
    LET c == pass[s].copy IN
    /\ pass[s].step = "reclaim"
    /\ IF Obsolete(c, pass[s].want)
       THEN /\ RemoveOwned(c, pass[s].generation)
            /\ copy' = [copy EXCEPT ![c].state = "deleted"]
            /\ attempts' = [attempts EXCEPT ![c] = 0]
            /\ progress' = [progress EXCEPT ![c] = None]
       ELSE UNCHANGED <<dest, temp, copy, attempts, progress>>
    /\ pass' = [pass EXCEPT ![s] = NoPass]
    /\ UNCHANGED <<sha, inode, lock, worker, world, faults>>

(* The files are removed and the transaction is lost. *)
ReclaimLost(s) ==
    LET c == pass[s].copy
        g == pass[s].generation
    IN
    /\ pass[s].step = "reclaim" /\ Obsolete(c, pass[s].want) /\ g \in temp[c]
    /\ Fault
    /\ RemoveOwned(c, g)
    /\ torn' = torn \cup {c}
    /\ pass' = [pass EXCEPT ![s] = NoPass]
    /\ UNCHANGED <<rows, inode, lock, worker, policies, policy, trashed, switches, trashes>>

(* Mutant: the generation that goes on is swept too. *)
SweepTempOffByOne(c) ==
    /\ progress[c] # None /\ ~progress[c].live
    /\ \E g \in temp[c] : g <= progress[c].generation /\ temp' = [temp EXCEPT ![c] = @ \ {g}]
    /\ UNCHANGED <<rows, inode, dest, lock, worker, pass, world, faults>>

(* deleteOrphanTransferTemp: no one goes on with an older generation, nor with
   any when there is no progress and the file is old. *)
SweepTemp(c) ==
    /\ \E g \in temp[c] :
          /\ IF progress[c] # None THEN g < progress[c].generation
                                   ELSE \A w \in Workers : worker[w].copy # c
          /\ temp' = [temp EXCEPT ![c] = @ \ {g}]
    /\ UNCHANGED <<rows, inode, dest, lock, worker, pass, world, faults>>

PassDies(s) ==
    /\ pass[s].step # "idle"
    /\ Fault
    /\ pass' = [pass EXCEPT ![s] = NoPass]
    /\ UNCHANGED <<rows, files, lock, worker, world>>

(* The reconcile job of a process forgets the failures of what it does not want. *)
ClearObsoleteAttempts(want) ==
    /\ want \in policies
    /\ attempts' = [c \in Copies |-> IF Obsolete(c, want) THEN 0 ELSE attempts[c]]
    /\ attempts' # attempts
    /\ UNCHANGED <<copy, sha, progress, files, lock, worker, pass, world, faults>>

-----------------------------------------------------------------------------
(* The world around. *)

(* The operator switches the policy: new processes start ... *)
SwitchPolicy ==
    /\ policies = {policy} /\ switches < MaxSwitches
    /\ switches' = switches + 1
    /\ \E s \in Stores \ {policy} : policy' = s /\ policies' = {policy, s}
    /\ UNCHANGED <<rows, files, lock, worker, pass, torn, trashed, trashes, faults>>

(* ... and those with the old one stop when their jobs have ended. *)
RetirePolicy ==
    /\ policies # {policy}
    /\ \A w \in Workers : worker[w].at # "idle" => worker[w].want = policy
    /\ \A s \in Stores : pass[s].step \in {"revert", "reclaim"} => pass[s].want = policy
    /\ policies' = {policy}
    /\ UNCHANGED <<rows, files, lock, worker, pass, policy, torn, trashed, switches, trashes, faults>>

Trash ==
    /\ ~trashed /\ trashes < MaxTrash
    /\ trashed' = TRUE /\ trashes' = trashes + 1
    /\ UNCHANGED <<rows, files, lock, worker, pass, policies, policy, torn, switches, faults>>

Restore ==
    /\ trashed /\ trashed' = FALSE
    /\ UNCHANGED <<rows, files, lock, worker, pass, policies, policy, torn, switches, trashes, faults>>

(* The file that ingest wrote goes bad where it lies. *)
Rot ==
    /\ inode[1][0] = Data("good") /\ dest[1] = 0
    /\ Fault
    /\ inode' = [inode EXCEPT ![1][0] = Data("rotten")]
    /\ UNCHANGED <<rows, temp, dest, lock, worker, pass, world>>

Work(w) ==
    \/ \E s \in Stores : Prepare(w, s)
    \/ AcquireBandwidth(w) \/ AcquireProgress(w)
    \/ AdoptExistingDestination(w) \/ OpenSlice(w) \/ CopyBlock(w) \/ ReadBlock(w)
    \/ EndSlice(w) \/ ReadFails(w) \/ Publish(w)
    \/ Complete(w) \/ RemoveRefused(w) \/ DiscardPending(w) \/ RemoveTemp(w)
    \/ StartVerification(w) \/ FinishVerification(w) \/ RecordMeasured(w)
    \/ RecordFailure(w) \/ Leave(w) \/ GiveUp(w)

DeletePass(s) ==
    \/ \E want \in Stores : MarkCopyDeleting(s, want) \/ ListPending(s, want)
                             \/ StatDeleting(s, want) \/ ListObsolete(s, want)
    \/ Unlink(s) \/ MarkDeleted(s) \/ RevertToActive(s) \/ ReclaimObsolete(s)

Next ==
    \/ \E w \in Workers : Work(w) \/ Stall(w) \/ Crash(w)
    \/ \E s \in Stores : DeletePass(s) \/ PassDies(s) \/ ReclaimLost(s) \/ LoseLock(s)
                           \/ ClearObsoleteAttempts(s)
    \/ \E c \in Copies : LeaseExpires(c) \/ SweepTemp(c)
    \/ SwitchPolicy \/ RetirePolicy \/ Trash \/ Restore \/ Rot

Spec == Init /\ [][Next]_vars

ReadsOn(w) == CopyBlock(w) \/ ReadBlock(w)

(* The reconcile job enqueues what is missing again and again, every job and
   pass goes on, a slice is long enough to read something, leases expire, and
   an old process stops at last.  A subscript is the variable that every such
   step changes. *)
Fairness ==
    /\ \A w \in Workers : WF_worker(Work(w)) /\ SF_worker(ReadsOn(w))
    /\ \A s \in Stores : WF_pass(DeletePass(s))
    /\ WF_progress(\E c \in Copies : LeaseExpires(c))
    /\ SF_policies(RetirePolicy) /\ WF_trashed(Restore)

FairSpec == Spec /\ Fairness

-----------------------------------------------------------------------------
Reading(w) == worker[w].at = "copy"

(* Whoever reads the recording finds it: at every moment some row is active
   (docs/storage/transfer.md: the last copy is never deleted). *)
LastCopyStays == \E c \in Copies : copy[c].state = "active"

(* A copy that is shown has its file, and a file a transfer has made is the
   recording that the logical asset's SHA-256 speaks of, however many jobs,
   slices and sources it was read by (completeTransfer).  Only a reclaim whose
   transaction was lost may have taken it. *)
ActiveIsIntact ==
    \A c \in Copies \ torn : copy[c].state = "active" =>
        /\ dest[c] # None
        /\ Whole(inode[c][dest[c]])
        /\ c # 1 => inode[c][dest[c]] = sha

(* Two jobs never write one temporary file, even when the lock is lost and a
   lease has expired (transferTempPath, AcquireMediaAssetTransferProgress). *)
OneWriter ==
    \A v, w \in Workers :
        v # w /\ Reading(v) /\ Reading(w) /\ worker[v].copy = worker[w].copy
            => worker[v].generation # worker[w].generation

(* What was saved is in the temporary file for the one who goes on: a clean
   handover never counts as a failure (openTransferSlice, saveOriginalSlice),
   unless a reclaim whose transaction was lost has taken the file. *)
HandoverIntact ==
    \A c \in Copies \ torn : progress[c] # None /\ progress[c].handed /\ ~progress[c].verifying /\ dest[c] = None
        => /\ progress[c].generation \in temp[c]
           /\ inode[c][progress[c].generation] = progress[c].read

(* Where the model's bounds or the limit of attempts end the story. *)
Exhausted ==
    \/ \E c \in In(policy, Live) : attempts[c] = AttemptLimit
    \/ \E c \in In(policy, {"pending"}) :
          progress[c] # None /\ progress[c].generation = MaxGeneration
    \/ In(policy, Live) = {} /\ copy[MaxCopies].state # "none"

Settled ==
    /\ policies = {policy}
    /\ In(policy, {"active"}) # {}
    /\ \A s \in Stores \ {policy} : In(s, Live) = {}

(* In spite of crashes, stalls, switches and delete passes of both policies the
   recording ends up in the store the policy wants, and only there, unless its
   transfer has failed too often (StorageTransferReconcileWorker). *)
Settles == <>[](Settled \/ Exhausted)

=============================================================================
