------------------------- MODULE StorageTransferProofs -------------------------
(***************************************************************************)
(* What holds of the transfer for any number of workers, blocks, rows,     *)
(* generations, switches, trashings and faults: the recording always has   *)
(* an active row, and no temporary file has two writers.  As long as no    *)
(* lock of a source store is lost under its job, an active row has its     *)
(* file, and what was handed over is there.                                *)
(***************************************************************************)
EXTENDS StorageTransfer, TLAPS

-----------------------------------------------------------------------------
(* Contents of files. *)

Kinds == {"good", "rotten"}

LEMMA BlocksAreSequences ==
  ASSUME NEW b \in Blocks
  PROVE  /\ b \in Seq(Kinds) /\ Len(b) \in Nat /\ Len(b) <= Length
         /\ DOMAIN b = 1..Len(b) /\ \A i \in 1..Len(b) : b[i] \in Kinds
<1>1. PICK n \in 0..Length : b \in [1..n -> Kinds]
  BY DEF Blocks, Kinds
<1> QED BY <1>1, TransferAssumption DEF Kinds

LEMMA SequencesAreBlocks ==
  ASSUME NEW b \in Seq(Kinds), Len(b) <= Length
  PROVE  b \in Blocks
<1>1. Len(b) \in 0..Length /\ b \in [1..Len(b) -> Kinds]
  OBVIOUS
<1> QED BY <1>1 DEF Blocks, Kinds

LEMMA EmptyBlocks == <<>> \in Blocks
<1>1. <<>> \in Seq(Kinds) /\ Len(<<>>) = 0 /\ 0 <= Length
  BY TransferAssumption
<1> QED BY <1>1, SequencesAreBlocks

LEMMA DataBlocks == ASSUME NEW kind \in Kinds PROVE Data(kind) \in Blocks
BY TransferAssumption DEF Data, Blocks, Kinds

LEMMA AppendBlock ==
  ASSUME NEW read \in Blocks, NEW source \in Blocks, Len(read) + 1 \in DOMAIN source
  PROVE  Append(read, source[Len(read) + 1]) \in Blocks
<1> DEFINE block == source[Len(read) + 1]
<1>1. read \in Seq(Kinds) /\ Len(read) \in Nat
  BY BlocksAreSequences
<1>a. /\ Len(source) \in Nat /\ Len(source) <= Length /\ DOMAIN source = 1..Len(source)
      /\ \A i \in 1..Len(source) : source[i] \in Kinds
  BY BlocksAreSequences
<1>b. block \in Kinds /\ Len(read) + 1 <= Length
  BY <1>1, <1>a, TransferAssumption
<1>2. Append(read, block) \in Seq(Kinds) /\ Len(Append(read, block)) = Len(read) + 1
  BY <1>1, <1>b
<1> QED BY <1>b, <1>2, SequencesAreBlocks

LEMMA WriteBlock ==
  ASSUME NEW blocks \in Blocks, NEW i \in 1..Length, NEW block \in Kinds
  PROVE  Write(blocks, i, block) \in Blocks
<1>1. CASE i \in DOMAIN blocks
  <2>1. [blocks EXCEPT ![i] = block] \in Seq(Kinds) /\ Len([blocks EXCEPT ![i] = block]) = Len(blocks)
    BY <1>1, BlocksAreSequences
  <2> QED BY <1>1, <2>1, BlocksAreSequences, SequencesAreBlocks DEF Write
<1>2. CASE i \notin DOMAIN blocks
  <2>1. Append(blocks, block) \in Seq(Kinds) /\ Len(Append(blocks, block)) <= Length
    BY <1>2, BlocksAreSequences, TransferAssumption
  <2> QED BY <1>2, <2>1, SequencesAreBlocks DEF Write
<1> QED BY <1>1, <1>2

-----------------------------------------------------------------------------
(* Types. *)

LEMMA InitTyped == Init => TypeOK
<1> SUFFICES ASSUME Init PROVE TypeOK
  OBVIOUS
<1>1. 1 \in Copies /\ 0 \in Copies \cup {0} /\ 0 \in Generations /\ AttemptLimit \in Nat
  BY TransferAssumption DEF Copies, Generations
<1>2. Data("good") \in Blocks /\ <<>> \in Blocks
  BY DataBlocks, EmptyBlocks DEF Kinds
<1>b. /\ First \in Stores /\ AttemptLimit \in Nat /\ MaxCopies \in Nat /\ MaxGeneration \in Nat
      /\ MaxSwitches \in Nat /\ MaxTrash \in Nat /\ MaxFaults \in Nat
  BY TransferAssumption
<1>c. RowsOK
  <2>1. copy \in [Copies -> [store : Stores \cup {None},
                            state : {"none", "pending", "active", "deleting", "deleted"}]]
    BY <1>b DEF Init
  <2>2. ASSUME NEW a \in Copies, NEW b \in Copies, a # b, {copy[a].state, copy[b].state} \subseteq Live
        PROVE  FALSE
    <3>1. \A c \in Copies : copy[c].state = IF c = 1 THEN "active" ELSE "none"
      BY DEF Init
    <3> QED BY <2>2, <3>1 DEF Live
  <2>3. sha \in Blocks \cup {None} /\ attempts \in [Copies -> 0..AttemptLimit]
    BY <1>2, <1>b DEF Init
  <2>4. progress \in [Copies -> Progress \cup {None}]
    BY DEF Init
  <2> QED BY <2>1, <2>2, <2>3, <2>4 DEF RowsOK, Live
<1>4. FilesOK
  BY <1>1, <1>2 DEF Init, FilesOK
<1>5. JobsOK
  <2>1. Idle \in Job /\ Idle.at = "idle"
    BY <1>1, <1>2, <1>b DEF Idle, Job, Steps, Generations
  <2> QED BY <2>1 DEF Init, JobsOK
<1>6. PassesOK
  <2>1. NoPass \in Pass /\ NoPass.step = "idle"
    BY <1>1, <1>b DEF NoPass, Pass
  <2> QED BY <2>1 DEF Init, PassesOK
<1>7. WorldOK
  <2>1. lock \in [Stores -> Workers \cup {None}] /\ policies \in SUBSET Stores /\ policy \in policies
    BY <1>b DEF Init
  <2>2. trashed \in BOOLEAN /\ torn \subseteq Copies
    BY DEF Init
  <2>3. switches \in 0..MaxSwitches /\ trashes \in 0..MaxTrash /\ faults \in 0..MaxFaults
    BY <1>b DEF Init
  <2> QED BY <2>1, <2>2, <2>3 DEF WorldOK
<1> QED BY <1>c, <1>4, <1>5, <1>6, <1>7 DEF TypeOK

(* Live rows of one store stay apart while a row only moves on. *)
LEMMA RowMovesOn ==
  ASSUME RowsOK, NEW c \in Copies, NEW state \in {"none", "pending", "active", "deleting", "deleted"},
         state \in Live => copy[c].state \in Live,
         copy' = [copy EXCEPT ![c].state = state],
         sha' \in Blocks \cup {None},
         attempts' \in [Copies -> 0..AttemptLimit],
         progress' \in [Copies -> Progress \cup {None}]
  PROVE  RowsOK'
<1>1. copy' \in [Copies -> [store : Stores \cup {None},
                            state : {"none", "pending", "active", "deleting", "deleted"}]]
  BY DEF RowsOK
<1>2. ASSUME NEW b \in Copies
      PROVE  copy'[b].store = copy[b].store /\ (copy'[b].state \in Live => copy[b].state \in Live)
  BY DEF RowsOK
<1>3. ASSUME NEW a \in Copies, NEW b \in Copies, a # b, {copy'[a].state, copy'[b].state} \subseteq Live
      PROVE  copy'[a].store # copy'[b].store
  BY <1>2, <1>3 DEF RowsOK
<1> QED BY <1>1, <1>3 DEF RowsOK, Live

LEMMA RowsStay ==
  ASSUME RowsOK, UNCHANGED copy,
         sha' \in Blocks \cup {None},
         attempts' \in [Copies -> 0..AttemptLimit],
         progress' \in [Copies -> Progress \cup {None}]
  PROVE  RowsOK'
BY DEF RowsOK, Live

(* What the lease of a copy may become. *)
LEMMA ProgressTyped ==
  ASSUME RowsOK, NEW c \in Copies, NEW p \in Progress \cup {None},
         progress' = [progress EXCEPT ![c] = p]
  PROVE  progress' \in [Copies -> Progress \cup {None}]
BY DEF RowsOK

LEMMA JobTyped ==
  ASSUME JobsOK, NEW w \in Workers
  PROVE  /\ worker[w] \in Job
         /\ worker[w].read \in Blocks
         /\ worker[w].at # "idle" => worker[w].copy \in Copies
         /\ worker[w].at \notin {"idle", "failed", "leave"} => worker[w].from \in Copies
BY DEF JobsOK, Job

LEMMA RowsOfWork ==
  ASSUME TypeOK, NEW w \in Workers, Work(w)
  PROVE  RowsOK'
<1> USE DEF TypeOK
<1>j. worker[w] \in Job /\ worker[w].read \in Blocks /\ (worker[w].at # "idle" => worker[w].copy \in Copies)
  BY JobTyped
<1>k. /\ copy \in [Copies -> [store : Stores \cup {None},
                              state : {"none", "pending", "active", "deleting", "deleted"}]]
      /\ sha \in Blocks \cup {None} /\ attempts \in [Copies -> 0..AttemptLimit]
      /\ progress \in [Copies -> Progress \cup {None}]
      /\ AttemptLimit \in Nat \ {0} /\ MaxGeneration \in Nat \ {0} /\ <<>> \in Blocks
  BY TransferAssumption, EmptyBlocks DEF RowsOK
<1>1. ASSUME NEW s \in Stores, Prepare(w, s)
      PROVE  RowsOK'
  <2>1. CASE UNCHANGED copy
    BY <1>1, <1>k, <2>1, RowsStay DEF Prepare
  <2>2. CASE \E c \in Copies : /\ In(s, Live) = {} /\ copy[c].state = "none"
                               /\ copy' = [copy EXCEPT ![c] = [store |-> s, state |-> "pending"]]
    <3>1. PICK c \in Copies : /\ In(s, Live) = {} /\ copy[c].state = "none"
                              /\ copy' = [copy EXCEPT ![c] = [store |-> s, state |-> "pending"]]
      BY <2>2
    <3>2. copy' \in [Copies -> [store : Stores \cup {None},
                            state : {"none", "pending", "active", "deleting", "deleted"}]]
      BY <1>k, <3>1
    <3>3. \A a, b \in Copies :
            a # b /\ {copy'[a].state, copy'[b].state} \subseteq Live => copy'[a].store # copy'[b].store
      BY <1>k, <3>1 DEF In, RowsOK
    <3> QED BY <1>1, <3>2, <3>3 DEF RowsOK, Live, Prepare
  <2> QED BY <1>1, <2>1, <2>2 DEF Prepare
<1>2. ASSUME AcquireProgress(w)
      PROVE  RowsOK'
  <2> DEFINE c == worker[w].copy
             old == progress[c]
             row(generation, read, verifying) ==
               [owner |-> w, live |-> TRUE, generation |-> generation, handed |-> FALSE,
                read |-> read, verifying |-> verifying]
  <2>1. c \in Copies /\ old \in Progress \cup {None} /\ UNCHANGED <<copy, sha, attempts>>
    BY <1>2, <1>j, <1>k DEF AcquireProgress
  <2>2. CASE progress' = [progress EXCEPT ![c] = row(1, <<>>, FALSE)]
    <3>1. row(1, <<>>, FALSE) \in Progress
      BY <1>k DEF Progress
    <3> QED BY <2>1, <2>2, <3>1, <1>k, ProgressTyped, RowsStay
  <2>3. CASE old # None /\ progress' = [progress EXCEPT ![c] = row(old.generation, old.read, old.verifying)]
    <3>1. row(old.generation, old.read, old.verifying) \in Progress
      BY <2>1, <2>3 DEF Progress
    <3> QED BY <2>1, <2>3, <3>1, <1>k, ProgressTyped, RowsStay
  <2>4. CASE /\ old # None /\ old.generation < MaxGeneration
             /\ progress' = [progress EXCEPT ![c] = row(old.generation + 1, <<>>, old.verifying)]
    <3>1. row(old.generation + 1, <<>>, old.verifying) \in Progress
      BY <2>1, <2>4, <1>k DEF Progress
    <3> QED BY <2>1, <2>4, <3>1, <1>k, ProgressTyped, RowsStay
  <2>5. CASE UNCHANGED progress
    BY <2>1, <2>5, <1>k, RowsStay
  <2> QED BY <1>2, <2>2, <2>3, <2>4, <2>5 DEF AcquireProgress
<1>3. ASSUME Save(w), worker[w].at # "idle", Owns(w), UNCHANGED <<copy, sha, attempts>>
      PROVE  RowsOK'
  <2>1. progress' \in [Copies -> Progress \cup {None}]
    BY <1>3, <1>j, <1>k DEF Save, Owns, Progress
  <2> QED BY <1>3, <1>k, <2>1, RowsStay
<1>4. ASSUME EndSlice(w) \/ ReadFails(w)
      PROVE  RowsOK'
  <2>1. worker[w].at # "idle" /\ UNCHANGED <<copy, sha, attempts>>
    BY <1>4 DEF EndSlice, ReadFails
  <2>2. (Save(w) /\ Owns(w)) \/ UNCHANGED progress
    BY <1>4 DEF EndSlice, ReadFails
  <2> QED BY <2>1, <2>2, <1>3, <1>k, RowsStay
<1>5. ASSUME Complete(w)
      PROVE  RowsOK'
  <2> DEFINE c == worker[w].copy
  <2>1. c \in Copies
    BY <1>5, <1>j DEF Complete
  <2>2. progress' \in [Copies -> Progress \cup {None}]
    BY <1>5, <2>1, <1>k DEF Complete
  <2>3. CASE UNCHANGED <<copy, sha, attempts>>
    BY <2>2, <2>3, <1>k, RowsStay
  <2>4. CASE /\ copy[c].state = "pending" /\ copy' = [copy EXCEPT ![c].state = "active"]
             /\ sha' = worker[w].read /\ attempts' = [attempts EXCEPT ![c] = 0]
    <3>1. "active" \in Live /\ copy[c].state \in Live
      BY <2>4 DEF Live
    <3>2. sha' \in Blocks \cup {None} /\ attempts' \in [Copies -> 0..AttemptLimit]
      BY <2>1, <2>4, <1>j, <1>k
    <3> QED BY <2>1, <2>2, <2>4, <3>1, <3>2, RowMovesOn
  <2> QED BY <1>5, <2>3, <2>4 DEF Complete
<1>6. ASSUME DiscardPending(w)
      PROVE  RowsOK'
  <2> DEFINE c == worker[w].copy
  <2>1. c \in Copies
    BY <1>6, <1>j DEF DiscardPending
  <2>2. progress' \in [Copies -> Progress \cup {None}] /\ sha' \in Blocks \cup {None}
    BY <1>6, <2>1, <1>k DEF DiscardPending
  <2>3. CASE UNCHANGED <<copy, attempts>>
    BY <2>2, <2>3, <1>k, RowsStay
  <2>4. CASE copy' = [copy EXCEPT ![c].state = "deleted"] /\ attempts' = [attempts EXCEPT ![c] = 0]
    <3>1. "deleted" \notin Live /\ attempts' \in [Copies -> 0..AttemptLimit]
      BY <2>1, <2>4, <1>k DEF Live
    <3> QED BY <2>1, <2>2, <2>4, <3>1, RowMovesOn
  <2> QED BY <1>6, <2>3, <2>4 DEF DiscardPending
<1>7. ASSUME StartVerification(w) \/ FinishVerification(w)
      PROVE  RowsOK'
  <2>1. /\ worker[w].copy \in Copies /\ UNCHANGED <<copy, sha, attempts>>
    BY <1>7, <1>j DEF StartVerification, FinishVerification
  <2>2. CASE UNCHANGED progress
    BY <2>1, <2>2, <1>k, RowsStay
  <2>3. CASE Owns(w) /\ ~UNCHANGED progress
    <3> DEFINE p == progress[worker[w].copy]
               q(verifying) == [p EXCEPT !.verifying = verifying, !.read = <<>>]
    <3>1. p \in Progress /\ q(TRUE) \in Progress /\ q(FALSE) \in Progress
      BY <2>1, <2>3, <1>k DEF Owns, Progress
    <3>2. \E verifying \in BOOLEAN : progress' = [progress EXCEPT ![worker[w].copy] = q(verifying)]
      BY <1>7, <2>3 DEF StartVerification, FinishVerification
    <3> QED BY <2>1, <3>1, <3>2, <1>k, ProgressTyped, RowsStay
  <2> QED BY <1>7, <2>2, <2>3 DEF StartVerification, FinishVerification
<1>8. ASSUME RecordMeasured(w)
      PROVE  RowsOK'
  <2>1. sha' \in Blocks \cup {None} /\ UNCHANGED <<copy, attempts, progress>>
    BY <1>8, <1>j, <1>k DEF RecordMeasured
  <2> QED BY <2>1, <1>k, RowsStay
<1>9. ASSUME RecordFailure(w)
      PROVE  RowsOK'
  <2>1. worker[w].copy \in Copies /\ UNCHANGED <<copy, sha, progress>>
    BY <1>9, <1>j DEF RecordFailure
  <2>2. attempts' \in [Copies -> 0..AttemptLimit]
    BY <1>9, <2>1, <1>k DEF RecordFailure
  <2> QED BY <2>1, <2>2, <1>k, RowsStay
<1>10. ASSUME Leave(w)
       PROVE  RowsOK'
  <2>1. worker[w].copy \in Copies /\ UNCHANGED <<copy, sha, attempts>>
    BY <1>10, <1>j DEF Leave
  <2>2. progress' \in [Copies -> Progress \cup {None}]
    BY <1>10, <2>1, <1>k DEF Leave, Progress
  <2> QED BY <2>1, <2>2, <1>k, RowsStay
<1>11. ASSUME UNCHANGED rows
       PROVE  RowsOK'
  BY <1>11, <1>k, RowsStay DEF rows
<1> QED
  BY <1>1, <1>2, <1>4, <1>5, <1>6, <1>7, <1>8, <1>9, <1>10, <1>11
  DEF Work, AcquireBandwidth, AdoptExistingDestination, OpenSlice, CopyBlock, ReadBlock, Publish,
      RemoveRefused, RemoveTemp, GiveUp

LEMMA RowsOfPass ==
  ASSUME TypeOK, NEW s \in Stores, DeletePass(s)
  PROVE  RowsOK'
<1> USE DEF TypeOK
<1>k. /\ copy \in [Copies -> [store : Stores \cup {None},
                              state : {"none", "pending", "active", "deleting", "deleted"}]]
      /\ sha \in Blocks \cup {None} /\ attempts \in [Copies -> 0..AttemptLimit]
      /\ progress \in [Copies -> Progress \cup {None}] /\ AttemptLimit \in Nat \ {0}
      /\ pass[s].step # "idle" => pass[s].copy \in Copies
  BY TransferAssumption DEF RowsOK, PassesOK
<1>1. ASSUME NEW c \in Copies, NEW state \in {"active", "deleting", "deleted"},
             copy[c].state \in Live, copy' = [copy EXCEPT ![c].state = state],
             UNCHANGED <<sha, attempts, progress>>
      PROVE  RowsOK'
  BY <1>1, <1>k, RowMovesOn
<1>2. ASSUME UNCHANGED rows
      PROVE  RowsOK'
  BY <1>2, <1>k, RowsStay DEF rows
<1>3. ASSUME NEW want \in Stores, MarkCopyDeleting(s, want)
      PROVE  RowsOK'
  <2>1. PICK c \in In(s, {"active"}) : copy' = [copy EXCEPT ![c].state = "deleting"]
    BY <1>3 DEF MarkCopyDeleting
  <2>2. c \in Copies /\ copy[c].state \in Live
    BY DEF In, Live
  <2> QED BY <1>1, <1>3, <2>1, <2>2 DEF MarkCopyDeleting
<1>4. ASSUME MarkDeleted(s) \/ RevertToActive(s)
      PROVE  RowsOK'
  <2> DEFINE c == pass[s].copy
  <2>1. c \in Copies /\ UNCHANGED <<sha, attempts, progress>>
    BY <1>4, <1>k DEF MarkDeleted, RevertToActive
  <2>2. CASE UNCHANGED copy
    BY <1>2, <2>1, <2>2 DEF rows
  <2>3. CASE copy[c].state = "deleting" /\ \E state \in {"active", "deleted"} : copy' = [copy EXCEPT ![c].state = state]
    <3>1. copy[c].state \in Live
      BY <2>3 DEF Live
    <3> QED BY <1>1, <2>1, <2>3, <3>1
  <2> QED BY <1>4, <2>2, <2>3 DEF MarkDeleted, RevertToActive
<1>5. ASSUME ReclaimObsolete(s)
      PROVE  RowsOK'
  <2> DEFINE c == pass[s].copy
  <2>1. c \in Copies /\ UNCHANGED sha
    BY <1>5, <1>k DEF ReclaimObsolete
  <2>2. CASE UNCHANGED <<copy, attempts, progress>>
    BY <1>2, <2>1, <2>2 DEF rows
  <2>3. CASE /\ copy' = [copy EXCEPT ![c].state = "deleted"] /\ attempts' = [attempts EXCEPT ![c] = 0]
             /\ progress' = [progress EXCEPT ![c] = None]
    <3>1. "deleted" \notin Live
      BY DEF Live
    <3>2. attempts' \in [Copies -> 0..AttemptLimit] /\ progress' \in [Copies -> Progress \cup {None}]
      BY <2>1, <2>3, <1>k
    <3> QED BY <2>1, <2>3, <3>1, <3>2, <1>k, RowMovesOn
  <2> QED BY <1>5, <2>2, <2>3 DEF ReclaimObsolete
<1> QED
  BY <1>2, <1>3, <1>4, <1>5 DEF DeletePass, ListPending, StatDeleting, ListObsolete, Unlink

LEMMA RowsType == TypeOK /\ [Next]_vars => RowsOK'
<1> SUFFICES ASSUME TypeOK, [Next]_vars PROVE RowsOK'
  OBVIOUS
<1>k. /\ copy \in [Copies -> [store : Stores \cup {None},
                              state : {"none", "pending", "active", "deleting", "deleted"}]]
      /\ sha \in Blocks \cup {None} /\ attempts \in [Copies -> 0..AttemptLimit]
      /\ progress \in [Copies -> Progress \cup {None}] /\ AttemptLimit \in Nat \ {0} /\ RowsOK
  BY TransferAssumption DEF TypeOK, RowsOK
<1>1. ASSUME UNCHANGED rows
      PROVE  RowsOK'
  BY <1>1, <1>k, RowsStay DEF rows
<1>2. ASSUME NEW w \in Workers, Crash(w)
      PROVE  RowsOK'
  <2>1. progress' \in [Copies -> Progress \cup {None}]
    BY <1>2, <1>k DEF Crash, Progress
  <2> QED BY <1>2, <1>k, <2>1, RowsStay DEF Crash
<1>3. ASSUME NEW c \in Copies, LeaseExpires(c)
      PROVE  RowsOK'
  <2>1. progress' \in [Copies -> Progress \cup {None}]
    BY <1>3, <1>k DEF LeaseExpires, Progress
  <2> QED BY <1>3, <1>k, <2>1, RowsStay DEF LeaseExpires
<1>4. ASSUME NEW s \in Stores, ClearObsoleteAttempts(s)
      PROVE  RowsOK'
  <2>1. attempts' \in [Copies -> 0..AttemptLimit]
    BY <1>4, <1>k DEF ClearObsoleteAttempts
  <2> QED BY <1>4, <1>k, <2>1, RowsStay DEF ClearObsoleteAttempts
<1> QED
  BY <1>1, <1>2, <1>3, <1>4, RowsOfWork, RowsOfPass
  DEF Next, vars, Stall, PassDies, ReclaimLost, LoseLock, SweepTemp, SwitchPolicy, RetirePolicy, Trash,
      Restore, Rot

-----------------------------------------------------------------------------
(* The files. *)

LEMMA FilesOfWork ==
  ASSUME TypeOK, NEW w \in Workers, Work(w)
  PROVE  FilesOK'
<1> DEFINE c == worker[w].copy
           g == worker[w].generation
<1>j. /\ worker[w] \in Job /\ worker[w].read \in Blocks /\ g \in Generations
      /\ worker[w].at # "idle" => c \in Copies
      /\ worker[w].at = "copy" => worker[w].from \in Copies /\ worker[w].file \in Generations
  BY DEF TypeOK, JobsOK, Job
<1>k. /\ inode \in [Copies -> [Generations -> Blocks]]
      /\ temp \in [Copies -> SUBSET Generations]
      /\ dest \in [Copies -> Generations \cup {None}]
  BY DEF TypeOK, FilesOK
<1>1. ASSUME UNCHANGED files
      PROVE  FilesOK'
  BY <1>1, <1>k DEF FilesOK, files
<1>2. ASSUME UNCHANGED <<inode, dest>>, c \in Copies, NEW gone, temp' = [temp EXCEPT ![c] = @ \ gone]
      PROVE  FilesOK'
  BY <1>2, <1>k DEF FilesOK
<1>3. ASSUME UNCHANGED <<inode, temp>>, c \in Copies, NEW to \in Generations \cup {None},
             dest' = [dest EXCEPT ![c] = to]
      PROVE  FilesOK'
  BY <1>3, <1>k DEF FilesOK
<1>4. ASSUME AdoptExistingDestination(w)
      PROVE  FilesOK'
  BY <1>1, <1>2, <1>4, <1>j DEF AdoptExistingDestination, files
<1>5. ASSUME OpenSlice(w)
      PROVE  FilesOK'
  <2>1. CASE UNCHANGED files
    BY <1>1, <2>1
  <2>2. CASE /\ temp' = [temp EXCEPT ![c] = (@ \ {worker[w].previous}) \cup {g}]
             /\ inode' = [inode EXCEPT ![c][g] = <<>>] /\ UNCHANGED dest
    <3>1. c \in Copies
      BY <1>5, <1>j DEF OpenSlice
    <3> QED BY <2>2, <3>1, <1>j, <1>k, EmptyBlocks DEF FilesOK
  <2> QED BY <1>5, <2>1, <2>2 DEF OpenSlice
<1>6. ASSUME CopyBlock(w)
      PROVE  FilesOK'
  <2> DEFINE i == Len(worker[w].read) + 1
             source == inode[worker[w].from][worker[w].file]
  <2>1. c \in Copies /\ source \in Blocks /\ i \in DOMAIN source
    BY <1>6, <1>j, <1>k DEF CopyBlock
  <2>2. i \in 1..Length /\ source[i] \in Kinds
    <3>1. Len(source) \in Nat /\ Len(source) <= Length /\ DOMAIN source = 1..Len(source)
          /\ \A n \in 1..Len(source) : source[n] \in Kinds
      BY <2>1, BlocksAreSequences
    <3>2. Length \in Nat /\ i \in 1..Len(source)
      BY <2>1, <3>1, TransferAssumption
    <3> HIDE DEF i, source
    <3> QED BY <3>1, <3>2
  <2>3. Write(inode[c][g], i, source[i]) \in Blocks
    BY <2>1, <2>2, <1>j, <1>k, WriteBlock
  <2>4. inode' = [inode EXCEPT ![c][g] = Write(@, i, source[i])] /\ UNCHANGED <<temp, dest>>
    BY <1>6 DEF CopyBlock
  <2> HIDE DEF i, source
  <2> QED BY <2>1, <2>3, <2>4, <1>j, <1>k DEF FilesOK
<1>7. ASSUME Publish(w) \/ RemoveRefused(w)
      PROVE  FilesOK'
  BY <1>1, <1>3, <1>7, <1>j DEF Publish, RemoveRefused, files
<1>8. ASSUME RemoveTemp(w) \/ StartVerification(w)
      PROVE  FilesOK'
  BY <1>2, <1>8, <1>j DEF RemoveTemp, StartVerification
<1> QED
  BY <1>1, <1>4, <1>5, <1>6, <1>7, <1>8
  DEF Work, Prepare, AcquireBandwidth, AcquireProgress, ReadBlock, EndSlice, ReadFails, Complete,
      DiscardPending, FinishVerification, RecordMeasured, RecordFailure, Leave, GiveUp

LEMMA FilesType == TypeOK /\ [Next]_vars => FilesOK'
<1> SUFFICES ASSUME TypeOK, [Next]_vars PROVE FilesOK'
  OBVIOUS
<1>k. /\ inode \in [Copies -> [Generations -> Blocks]]
      /\ temp \in [Copies -> SUBSET Generations]
      /\ dest \in [Copies -> Generations \cup {None}]
      /\ \A s \in Stores : pass[s].step # "idle" => pass[s].copy \in Copies
  BY DEF TypeOK, FilesOK, PassesOK
<1>1. ASSUME UNCHANGED files
      PROVE  FilesOK'
  BY <1>1, <1>k DEF FilesOK, files
<1>2. ASSUME NEW s \in Stores, Unlink(s)
      PROVE  FilesOK'
  BY <1>2, <1>k DEF Unlink, FilesOK
<1>3. ASSUME NEW c \in Copies, NEW g, RemoveOwned(c, g), UNCHANGED inode
      PROVE  FilesOK'
  BY <1>3, <1>k DEF RemoveOwned, FilesOK
<1>4. ASSUME NEW s \in Stores, ReclaimObsolete(s) \/ ReclaimLost(s)
      PROVE  FilesOK'
  <2>1. pass[s].copy \in Copies /\ UNCHANGED inode
    BY <1>4, <1>k DEF ReclaimObsolete, ReclaimLost
  <2> QED BY <1>1, <1>3, <1>4, <2>1 DEF ReclaimObsolete, ReclaimLost, files
<1>5. ASSUME NEW c \in Copies, SweepTemp(c)
      PROVE  FilesOK'
  BY <1>5, <1>k DEF SweepTemp, FilesOK
<1>6. ASSUME Rot
      PROVE  FilesOK'
  <2>1. Data("rotten") \in Blocks /\ 1 \in Copies /\ 0 \in Generations
    BY DataBlocks, TransferAssumption DEF Kinds, Copies, Generations
  <2> QED BY <1>6, <1>k, <2>1 DEF Rot, FilesOK
<1> QED
  BY <1>1, <1>2, <1>4, <1>5, <1>6, FilesOfWork
  DEF Next, vars, DeletePass, MarkCopyDeleting, ListPending, StatDeleting, ListObsolete, MarkDeleted,
      RevertToActive, Stall, Crash, PassDies, LoseLock, ClearObsoleteAttempts, LeaseExpires, SwitchPolicy,
      RetirePolicy, Trash, Restore

-----------------------------------------------------------------------------
(* The jobs. *)

(* What JobsOK asks of one job. *)
Sound(j) ==
    /\ j \in Job
    /\ j.at # "idle" => j.copy \in Copies
    /\ j.at \notin {"idle", "failed", "leave"} => j.from \in Copies
    /\ j.at = "copy" => j.file # None

LEMMA JobsKeep ==
  ASSUME JobsOK, NEW w \in Workers, NEW j, Sound(j), worker' = [worker EXCEPT ![w] = j]
  PROVE  JobsOK'
BY DEF JobsOK, Sound

LEMMA IdleSound == Sound(Idle)
<1>1. 0 \in Generations /\ 0 \in 0..MaxCopies /\ <<>> \in Blocks
  BY EmptyBlocks, TransferAssumption DEF Generations
<1> QED BY <1>1 DEF Idle, Sound, Job, Steps

(* A job that goes on, or ends, stays sound. *)
LEMMA ToSound ==
  ASSUME JobsOK, NEW w \in Workers, worker[w].at \notin {"idle", "failed", "leave"},
         NEW at \in Steps \ {"idle", "copy"}, To(w, at)
  PROVE  JobsOK'
<1>1. Sound(worker[w])
  BY DEF JobsOK, Sound
<1>2. CASE at \in {"failed", "leave"}
  <2> DEFINE j == [Idle EXCEPT !.at = at, !.want = worker[w].want, !.copy = worker[w].copy,
                     !.saved = worker[w].saved, !.late = worker[w].late]
  <2>1. Sound(j)
    BY <1>1, <1>2, IdleSound DEF Sound, Idle, Job
  <2>2. worker' = [worker EXCEPT ![w] = j]
    BY <1>2 DEF To, Ends
  <2> QED BY <2>1, <2>2, JobsKeep
<1>3. CASE at \notin {"failed", "leave"}
  <2> DEFINE j == [worker[w] EXCEPT !.at = at]
  <2>1. Sound(j)
    BY <1>1 DEF Sound, Job
  <2>2. worker' = [worker EXCEPT ![w] = j]
    BY <1>3 DEF To
  <2> QED BY <2>1, <2>2, JobsKeep
<1> QED BY <1>2, <1>3

LEMMA EndsSound ==
  ASSUME JobsOK, NEW w \in Workers, worker[w].at # "idle",
         NEW at \in {"failed", "leave"}, NEW saved \in BOOLEAN, Ends(w, at, saved)
  PROVE  JobsOK'
<1> DEFINE j == [Idle EXCEPT !.at = at, !.want = worker[w].want, !.copy = worker[w].copy,
                   !.saved = saved, !.late = worker[w].late]
<1>1. Sound(worker[w])
  BY DEF JobsOK, Sound
<1>2. Sound(j)
  <2>1. Idle \in Job /\ worker[w] \in Job /\ worker[w].copy \in Copies /\ at \in Steps
    BY <1>1, IdleSound DEF Sound, Steps
  <2>2. j \in Job
    BY <2>1 DEF Job
  <2>3. j.at = at /\ j.copy = worker[w].copy
    BY <2>1 DEF Job
  <2> HIDE DEF j
  <2> QED BY <2>1, <2>2, <2>3 DEF Sound
<1>3. worker' = [worker EXCEPT ![w] = j]
  BY DEF Ends
<1> QED BY <1>2, <1>3, JobsKeep

LEMMA JobsOfWork ==
  ASSUME TypeOK, NEW w \in Workers, Work(w)
  PROVE  JobsOK'
<1> DEFINE c == worker[w].copy
           going == worker[w].at \notin {"idle", "failed", "leave"}
<1>j. JobsOK /\ Sound(worker[w])
  BY DEF TypeOK, JobsOK, Sound
<1>k. /\ progress \in [Copies -> Progress \cup {None}]
      /\ inode \in [Copies -> [Generations -> Blocks]]
      /\ dest \in [Copies -> Generations \cup {None}]
      /\ sha \in Blocks \cup {None} /\ policies \in SUBSET Stores
  BY DEF TypeOK, RowsOK, FilesOK, WorldOK
<1>g. MaxGeneration \in Nat \ {0} /\ {0, 1} \subseteq Generations /\ MaxCopies \in Nat
  BY TransferAssumption DEF Generations
<1>t. ASSUME going, NEW at \in Steps \ {"idle", "copy"}, To(w, at)
      PROVE  JobsOK'
  BY <1>t, <1>j, ToSound
<1>1. ASSUME NEW want \in Stores, Prepare(w, want)
      PROVE  JobsOK'
  <2>1. PICK source \in Copies, b \in Copies :
          worker' = [worker EXCEPT ![w].at = "prepared", ![w].want = want, ![w].copy = b,
                                      ![w].from = source, ![w].sha = sha]
    BY <1>1 DEF Prepare, In
  <2> DEFINE j == [worker[w] EXCEPT !.at = "prepared", !.want = want, !.copy = b,
                                    !.from = source, !.sha = sha]
  <2>2. b \in 0..MaxCopies /\ source \in Copies /\ source \in 0..MaxCopies
    BY <1>g DEF Copies
  <2>3. Sound(j)
    <3>1. worker[w] \in Job /\ want \in Stores \cup {None} /\ sha \in Blocks \cup {None}
      BY <1>j, <1>k DEF Sound
    <3>2. j \in Job
      BY <2>2, <3>1 DEF Job, Steps
    <3>3. j.at = "prepared" /\ j.copy = b /\ j.from = source
      BY <3>1 DEF Job
    <3> HIDE DEF j
    <3> QED BY <3>2, <3>3, <2>2 DEF Sound
  <2>4. worker' = [worker EXCEPT ![w] = j]
    BY <2>1
  <2> QED BY <2>3, <2>4, <1>j, JobsKeep
<1>2. ASSUME AcquireBandwidth(w)
      PROVE  JobsOK'
  BY <1>2, <1>t, <1>j, IdleSound, JobsKeep DEF AcquireBandwidth, Steps
<1>3. ASSUME AcquireProgress(w)
      PROVE  JobsOK'
  <2> DEFINE old == progress[c]
             next == IF old.verifying THEN "verify" ELSE "look"
  <2>1. c \in Copies /\ old \in Progress \cup {None} /\ going
    BY <1>3, <1>j, <1>k DEF AcquireProgress, Sound
  <2>2. CASE worker' = [worker EXCEPT ![w].at = "look", ![w].generation = 1]
    <3> DEFINE j == [worker[w] EXCEPT !.at = "look", !.generation = 1]
    <3>1. Sound(j)
      BY <2>1, <1>j, <1>g DEF Sound, Job, Steps
    <3> QED BY <2>2, <3>1, <1>j, JobsKeep
  <2>3. CASE /\ old # None
             /\ worker' = [worker EXCEPT ![w].at = next, ![w].resumed = TRUE, ![w].read = old.read,
                   ![w].generation = old.generation, ![w].previous = old.generation]
    <3> DEFINE j == [worker[w] EXCEPT !.at = next, !.resumed = TRUE, !.read = old.read,
                   !.generation = old.generation, !.previous = old.generation]
    <3>1. next \in Steps \ {"idle", "copy"} /\ old.read \in Blocks /\ old.generation \in Generations
      BY <2>1, <2>3, <1>g DEF Steps, Progress, Generations
    <3>2. Sound(j)
      BY <2>1, <3>1, <1>j DEF Sound, Job
    <3>3. worker' = [worker EXCEPT ![w] = j]
      BY <2>3
    <3> QED BY <3>2, <3>3, <1>j, JobsKeep
  <2>4. CASE /\ old # None /\ old.generation < MaxGeneration
             /\ worker' = [worker EXCEPT ![w].at = next,
                   ![w].generation = old.generation + 1, ![w].previous = old.generation]
    <3> DEFINE j == [worker[w] EXCEPT !.at = next, !.generation = old.generation + 1,
                                      !.previous = old.generation]
    <3>1. /\ next \in Steps \ {"idle", "copy"}
          /\ old.generation + 1 \in Generations /\ old.generation \in Generations
      BY <2>1, <2>4, <1>g DEF Steps, Progress, Generations
    <3>2. Sound(j)
      BY <2>1, <3>1, <1>j DEF Sound, Job
    <3>3. worker' = [worker EXCEPT ![w] = j]
      BY <2>4
    <3> QED BY <3>2, <3>3, <1>j, JobsKeep
  <2>5. CASE To(w, "leave")
    BY <2>1, <2>5, <1>t DEF Steps
  <2> QED BY <1>3, <2>2, <2>3, <2>4, <2>5 DEF AcquireProgress
<1>4. ASSUME AdoptExistingDestination(w)
      PROVE  JobsOK'
  <2> DEFINE there == inode[c][dest[c]]
             own == IF worker[w].previous > 0 /\ worker[w].previous \in temp[c]
                       /\ dest[c] = worker[w].previous THEN worker[w].previous ELSE 0
             j == [worker[w] EXCEPT !.at = "complete", !.read = there, !.remove = own]
  <2>1. CASE dest[c] # None /\ worker' = [worker EXCEPT ![w] = j]
    <3>1. there \in Blocks /\ own \in Generations
      BY <1>4, <2>1, <1>j, <1>k, <1>g DEF AdoptExistingDestination, Sound, Job
    <3>2. Sound(j)
      BY <1>4, <3>1, <1>j DEF Sound, Job, Steps, AdoptExistingDestination
    <3> QED BY <2>1, <3>2, <1>j, JobsKeep
  <2>2. CASE \E at \in {"open", "measure", "suspect"} : To(w, at)
    BY <1>4, <2>2, <1>t DEF AdoptExistingDestination, Steps
  <2> QED BY <1>4, <2>1, <2>2 DEF AdoptExistingDestination
<1>5. ASSUME OpenSlice(w)
      PROVE  JobsOK'
  <2> DEFINE j == [worker[w] EXCEPT !.at = "copy", !.file = dest[worker[w].from]]
             k == [worker[w] EXCEPT !.at = "copy", !.file = dest[worker[w].from], !.read = <<>>]
  <2>1. CASE To(w, "failed")
    BY <1>5, <2>1, <1>t DEF OpenSlice, Steps
  <2>2. CASE /\ dest[worker[w].from] # None
             /\ worker' = [worker EXCEPT ![w] = j] \/ worker' = [worker EXCEPT ![w] = k]
    <3>1. dest[worker[w].from] \in Generations
      BY <1>5, <2>2, <1>j, <1>k DEF OpenSlice, Sound
    <3>2. Sound(j) /\ Sound(k)
      BY <1>5, <2>2, <3>1, <1>j, EmptyBlocks DEF OpenSlice, Sound, Job, Steps
    <3> QED BY <2>2, <3>2, <1>j, JobsKeep
  <2> QED BY <1>5, <2>1, <2>2 DEF OpenSlice
<1>6. ASSUME CopyBlock(w)
      PROVE  JobsOK'
  <2> DEFINE source == inode[worker[w].from][worker[w].file]
             read == worker[w].read
             j == [worker[w] EXCEPT !.read = Append(read, source[Len(read) + 1])]
  <2>1. source \in Blocks /\ read \in Blocks /\ Len(read) + 1 \in DOMAIN source
    BY <1>6, <1>j, <1>k DEF CopyBlock, Sound, Job
  <2>2. Append(read, source[Len(read) + 1]) \in Blocks
    BY <2>1, AppendBlock
  <2>3. Sound(j)
    BY <2>2, <1>j DEF Sound, Job
  <2>4. worker' = [worker EXCEPT ![w] = j]
    BY <1>6 DEF CopyBlock
  <2> QED BY <2>3, <2>4, <1>j, JobsKeep
<1>7. ASSUME ReadBlock(w)
      PROVE  JobsOK'
  <2> DEFINE source == inode[worker[w].from][SourceFile(w)]
             read == worker[w].read
             j == [worker[w] EXCEPT !.file = SourceFile(w), !.read = Append(read, source[Len(read) + 1])]
  <2>1. SourceFile(w) \in Generations
    BY <1>7, <1>j, <1>k DEF ReadBlock, Sound, Job, SourceFile
  <2>2. source \in Blocks /\ read \in Blocks /\ Len(read) + 1 \in DOMAIN source
    BY <1>7, <2>1, <1>j, <1>k DEF ReadBlock, Sound, Job
  <2>3. Append(read, source[Len(read) + 1]) \in Blocks
    BY <2>2, AppendBlock
  <2>4. Sound(j)
    BY <1>7, <2>1, <2>3, <1>j DEF Sound, Job, ReadBlock
  <2>5. worker' = [worker EXCEPT ![w] = j]
    BY <1>7 DEF ReadBlock
  <2> QED BY <2>4, <2>5, <1>j, JobsKeep
<1>8. ASSUME EndSlice(w) \/ ReadFails(w)
      PROVE  JobsOK'
  <2>1. going
    BY <1>8 DEF EndSlice, ReadFails
  <2>2. \E at \in {"failed", "leave"} : Ends(w, at, TRUE) \/ To(w, at)
    BY <1>8 DEF EndSlice, ReadFails
  <2> QED BY <2>1, <2>2, <1>j, <1>t, EndsSound DEF Steps
<1>9. ASSUME Publish(w)
      PROVE  JobsOK'
  <2> DEFINE g == worker[w].generation
             j == [worker[w] EXCEPT !.at = "suspect", !.remove = g]
             k == [worker[w] EXCEPT !.at = "complete", !.made = TRUE, !.remove = g]
  <2>1. CASE To(w, "failed")
    BY <1>9, <2>1, <1>t DEF Publish, Steps
  <2>2. CASE worker' = [worker EXCEPT ![w] = j] \/ worker' = [worker EXCEPT ![w] = k]
    <3>1. Sound(j) /\ Sound(k)
      BY <1>9, <1>j DEF Publish, Sound, Job, Steps
    <3> QED BY <2>2, <3>1, <1>j, JobsKeep
  <2> QED BY <1>9, <2>1, <2>2 DEF Publish
<1>10. ASSUME Complete(w) \/ RemoveRefused(w) \/ DiscardPending(w) \/ RemoveTemp(w) \/ RecordMeasured(w)
              \/ FinishVerification(w) \/ GiveUp(w)
       PROVE  JobsOK'
  <2>1. going
    BY <1>10 DEF Complete, RemoveRefused, DiscardPending, RemoveTemp, RecordMeasured, FinishVerification, GiveUp
  <2>2. \E at \in {"tidy", "unlike", "stale", "leave", "suspect", "discard", "failed"} : To(w, at)
    BY <1>10 DEF Complete, RemoveRefused, DiscardPending, RemoveTemp, RecordMeasured, FinishVerification, GiveUp
  <2> QED BY <2>1, <2>2, <1>t DEF Steps
<1>11. ASSUME StartVerification(w)
       PROVE  JobsOK'
  <2> DEFINE j == [worker[w] EXCEPT !.at = "verify", !.read = <<>>, !.file = None]
  <2>1. Sound(j)
    BY <1>11, <1>j, EmptyBlocks DEF StartVerification, Sound, Job, Steps
  <2>2. worker' = [worker EXCEPT ![w] = j] \/ To(w, "leave")
    BY <1>11 DEF StartVerification
  <2> QED BY <1>11, <2>1, <2>2, <1>j, <1>t, JobsKeep DEF StartVerification, Steps
<1>12. ASSUME RecordFailure(w)
       PROVE  JobsOK'
  <2>1. Ends(w, "leave", worker[w].saved) /\ worker[w].at # "idle" /\ worker[w].saved \in BOOLEAN
    BY <1>12, <1>j DEF RecordFailure, To, Sound, Job
  <2> QED BY <2>1, <1>j, EndsSound
<1>13. ASSUME Leave(w)
       PROVE  JobsOK'
  BY <1>13, <1>j, IdleSound, JobsKeep DEF Leave
<1> QED
  BY <1>1, <1>2, <1>3, <1>4, <1>5, <1>6, <1>7, <1>8, <1>9, <1>10, <1>11, <1>12, <1>13 DEF Work

LEMMA JobsType == TypeOK /\ [Next]_vars => JobsOK'
<1> SUFFICES ASSUME TypeOK, [Next]_vars PROVE JobsOK'
  OBVIOUS
<1>j. JobsOK
  BY DEF TypeOK
<1>1. ASSUME UNCHANGED worker
      PROVE  JobsOK'
  BY <1>1, <1>j DEF JobsOK
<1>2. ASSUME NEW w \in Workers, Stall(w)
      PROVE  JobsOK'
  <2> DEFINE j == [worker[w] EXCEPT !.late = TRUE]
  <2>1. Sound(j)
    BY <1>j DEF JobsOK, Sound, Job
  <2>2. worker' = [worker EXCEPT ![w] = j]
    BY <1>2 DEF Stall
  <2> QED BY <2>1, <2>2, <1>j, JobsKeep
<1>3. ASSUME NEW w \in Workers, Crash(w)
      PROVE  JobsOK'
  BY <1>3, <1>j, IdleSound, JobsKeep DEF Crash
<1> QED
  BY <1>1, <1>2, <1>3, JobsOfWork
  DEF Next, vars, DeletePass, MarkCopyDeleting, ListPending, StatDeleting, ListObsolete, Unlink, MarkDeleted,
      RevertToActive, ReclaimObsolete, ReclaimLost, PassDies, LoseLock, ClearObsoleteAttempts,
      LeaseExpires, SweepTemp, SwitchPolicy, RetirePolicy, Trash, Restore, Rot

-----------------------------------------------------------------------------
(* The delete passes and the rest. *)

LEMMA PassesType == TypeOK /\ [Next]_vars => PassesOK'
<1> SUFFICES ASSUME TypeOK, [Next]_vars PROVE PassesOK'
  OBVIOUS
<1>k. /\ PassesOK /\ 0 \in Generations /\ 0 \in 0..MaxCopies
      /\ progress \in [Copies -> Progress \cup {None}]
      /\ \A b \in Copies : b \in 0..MaxCopies
  BY TransferAssumption DEF TypeOK, RowsOK, Generations, Copies
<1>1. ASSUME UNCHANGED pass
      PROVE  PassesOK'
  BY <1>1, <1>k DEF PassesOK
<1>2. ASSUME NEW s \in Stores, NEW p \in Pass, p.step # "idle" => p.copy \in Copies,
             pass' = [pass EXCEPT ![s] = p]
      PROVE  PassesOK'
  BY <1>2, <1>k DEF PassesOK
<1>3. NoPass \in Pass /\ NoPass.step = "idle"
  BY <1>k DEF NoPass, Pass
<1>4. ASSUME NEW s \in Stores, NEW want \in Stores,
             MarkCopyDeleting(s, want) \/ ListPending(s, want) \/ StatDeleting(s, want)
      PROVE  PassesOK'
  <2> DEFINE marked(c) == [NoPass EXCEPT !.step = "unlink", !.copy = c]
             stated(c, step) == [NoPass EXCEPT !.copy = c, !.want = want, !.step = step]
  <2>1. ASSUME NEW c \in Copies, NEW step \in {"unlinked", "revert"}
        PROVE  /\ marked(c) \in Pass /\ marked(c).copy = c
               /\ stated(c, step) \in Pass /\ stated(c, step).copy = c
    BY <1>k DEF NoPass, Pass
  <2>2. CASE \E c \in Copies : pass' = [pass EXCEPT ![s] = marked(c)]
    <3> HIDE DEF marked
    <3> QED BY <1>2, <2>1, <2>2
  <2>3. CASE \E c \in Copies, step \in {"unlinked", "revert"} : pass' = [pass EXCEPT ![s] = stated(c, step)]
    <3> HIDE DEF stated
    <3> QED BY <1>2, <2>1, <2>3
  <2>4. CASE StatDeleting(s, want)
    <3>1. PICK c \in Copies : pass' = [pass EXCEPT ![s] = [NoPass EXCEPT !.copy = c, !.want = want,
                         !.step = IF dest[c] = None THEN "unlinked" ELSE "revert"]]
      BY <2>4 DEF StatDeleting, In
    <3> QED BY <2>3, <3>1
  <2> QED BY <1>4, <2>2, <2>4 DEF MarkCopyDeleting, ListPending, In
<1>5. ASSUME NEW s \in Stores, NEW want \in Stores, ListObsolete(s, want)
      PROVE  PassesOK'
  <2>1. PICK c \in Copies :
          pass' = [pass EXCEPT ![s] = [step |-> "reclaim", copy |-> c, want |-> want,
                         generation |-> IF progress[c] = None THEN 0 ELSE progress[c].generation]]
    BY <1>5 DEF ListObsolete, In
  <2> DEFINE p == [step |-> "reclaim", copy |-> c, want |-> want,
                   generation |-> IF progress[c] = None THEN 0 ELSE progress[c].generation]
  <2>2. (IF progress[c] = None THEN 0 ELSE progress[c].generation) \in Generations
    BY <1>k, TransferAssumption DEF Progress, Generations
  <2>3. p \in Pass /\ p.copy = c
    BY <2>2, <1>k DEF Pass
  <2> QED BY <1>2, <2>1, <2>3
<1>6. ASSUME NEW s \in Stores, Unlink(s)
      PROVE  PassesOK'
  <2> DEFINE p == [pass[s] EXCEPT !.step = "unlinked"]
  <2>1. p \in Pass /\ p.copy \in Copies
    BY <1>6, <1>k DEF Unlink, PassesOK, Pass
  <2> QED BY <1>2, <1>6, <2>1 DEF Unlink
<1>7. ASSUME NEW s \in Stores,
             MarkDeleted(s) \/ RevertToActive(s) \/ ReclaimObsolete(s) \/ ReclaimLost(s) \/ PassDies(s)
      PROVE  PassesOK'
  BY <1>2, <1>3, <1>7 DEF MarkDeleted, RevertToActive, ReclaimObsolete, ReclaimLost, PassDies
<1>8. ASSUME NEW w \in Workers, Work(w)
      PROVE  PassesOK'
  BY <1>1, <1>8
  DEF Work, Prepare, AcquireBandwidth, AcquireProgress, AdoptExistingDestination, OpenSlice, CopyBlock,
      ReadBlock, EndSlice, ReadFails, Publish, Complete, RemoveRefused, DiscardPending, RemoveTemp,
      StartVerification, FinishVerification, RecordMeasured, RecordFailure, Leave, GiveUp
<1> QED
  BY <1>1, <1>4, <1>5, <1>6, <1>7, <1>8
  DEF Next, vars, DeletePass, Stall, Crash, LoseLock, ClearObsoleteAttempts, LeaseExpires, SweepTemp,
      SwitchPolicy, RetirePolicy, Trash, Restore, Rot

LEMMA WorldType == TypeOK /\ [Next]_vars => WorldOK'
<1> SUFFICES ASSUME TypeOK, [Next]_vars PROVE WorldOK'
  OBVIOUS
<1>k. /\ WorldOK /\ MaxSwitches \in Nat /\ MaxTrash \in Nat /\ MaxFaults \in Nat
  BY TransferAssumption DEF TypeOK
<1>1. lock' \in [Stores -> Workers \cup {None}]
  <2>1. CASE UNCHANGED lock
    BY <2>1, <1>k DEF WorldOK
  <2>2. ASSUME NEW s, NEW x \in Workers \cup {None}, lock' = [lock EXCEPT ![s] = x]
        PROVE  lock' \in [Stores -> Workers \cup {None}]
    BY <2>2, <1>k DEF WorldOK
  <2>3. ASSUME NEW w, lock' = [s \in Stores |-> IF lock[s] = w THEN None ELSE lock[s]]
        PROVE  lock' \in [Stores -> Workers \cup {None}]
    BY <2>3, <1>k DEF WorldOK
  <2>4. ASSUME NEW w \in Workers, Work(w)
        PROVE  lock' \in [Stores -> Workers \cup {None}]
    BY <2>1, <2>2, <2>3, <2>4
    DEF Work, Prepare, AcquireBandwidth, AcquireProgress, AdoptExistingDestination, OpenSlice, CopyBlock,
        ReadBlock, EndSlice, ReadFails, Publish, Complete, RemoveRefused, DiscardPending, RemoveTemp,
        StartVerification, FinishVerification, RecordMeasured, RecordFailure, Leave, GiveUp
  <2> QED
    BY <2>1, <2>2, <2>3, <2>4
    DEF Next, vars, Crash, LoseLock, DeletePass, MarkCopyDeleting, ListPending, StatDeleting, ListObsolete,
        Unlink, MarkDeleted, RevertToActive, ReclaimObsolete, ReclaimLost, PassDies, Stall,
        ClearObsoleteAttempts, LeaseExpires, SweepTemp, SwitchPolicy, RetirePolicy, Trash, Restore, Rot
<1>2. policies' \in SUBSET Stores /\ policy' \in policies'
  <2>1. CASE UNCHANGED <<policies, policy>>
    BY <2>1, <1>k DEF WorldOK
  <2>2. CASE SwitchPolicy \/ RetirePolicy
    BY <2>2, <1>k DEF SwitchPolicy, RetirePolicy, WorldOK
  <2>3. ASSUME NEW w \in Workers, Work(w)
        PROVE  UNCHANGED <<policies, policy>>
    BY <2>3
    DEF Work, Prepare, AcquireBandwidth, AcquireProgress, AdoptExistingDestination, OpenSlice, CopyBlock,
        ReadBlock, EndSlice, ReadFails, Publish, Complete, RemoveRefused, DiscardPending, RemoveTemp,
        StartVerification, FinishVerification, RecordMeasured, RecordFailure, Leave, GiveUp, world
  <2> QED
    BY <2>1, <2>2, <2>3
    DEF Next, vars, world, Crash, LoseLock, DeletePass, MarkCopyDeleting, ListPending, StatDeleting,
        ListObsolete, Unlink, MarkDeleted, RevertToActive, ReclaimObsolete, ReclaimLost, PassDies, Stall,
        ClearObsoleteAttempts, LeaseExpires, SweepTemp, Trash, Restore, Rot
<1>3. torn' \subseteq Copies /\ trashed' \in BOOLEAN
  <2>1. CASE UNCHANGED world
    BY <2>1, <1>k DEF WorldOK, world
  <2>2. ASSUME NEW s \in Stores, ReclaimLost(s)
        PROVE  torn' \subseteq Copies /\ trashed' \in BOOLEAN
    <3>1. pass[s].copy \in Copies
      BY <2>2 DEF ReclaimLost, TypeOK, PassesOK
    <3> QED BY <2>2, <3>1, <1>k DEF ReclaimLost, WorldOK
  <2>3. CASE Trash \/ Restore \/ SwitchPolicy \/ RetirePolicy
    BY <2>3, <1>k DEF Trash, Restore, SwitchPolicy, RetirePolicy, WorldOK
  <2>4. ASSUME NEW w \in Workers, Work(w)
        PROVE  UNCHANGED world
    BY <2>4
    DEF Work, Prepare, AcquireBandwidth, AcquireProgress, AdoptExistingDestination, OpenSlice, CopyBlock,
        ReadBlock, EndSlice, ReadFails, Publish, Complete, RemoveRefused, DiscardPending, RemoveTemp,
        StartVerification, FinishVerification, RecordMeasured, RecordFailure, Leave, GiveUp
  <2> QED
    BY <2>1, <2>2, <2>3, <2>4
    DEF Next, vars, Crash, LoseLock, DeletePass, MarkCopyDeleting, ListPending, StatDeleting, ListObsolete,
        Unlink, MarkDeleted, RevertToActive, ReclaimObsolete, PassDies, Stall, ClearObsoleteAttempts,
        LeaseExpires, SweepTemp, Rot
<1>4. switches' \in 0..MaxSwitches /\ trashes' \in 0..MaxTrash
  <2>1. CASE UNCHANGED <<switches, trashes>>
    BY <2>1, <1>k DEF WorldOK
  <2>2. CASE SwitchPolicy \/ Trash
    BY <2>2, <1>k DEF SwitchPolicy, Trash, WorldOK
  <2>3. ASSUME NEW w \in Workers, Work(w)
        PROVE  UNCHANGED <<switches, trashes>>
    BY <2>3
    DEF Work, Prepare, AcquireBandwidth, AcquireProgress, AdoptExistingDestination, OpenSlice, CopyBlock,
        ReadBlock, EndSlice, ReadFails, Publish, Complete, RemoveRefused, DiscardPending, RemoveTemp,
        StartVerification, FinishVerification, RecordMeasured, RecordFailure, Leave, GiveUp, world
  <2> QED
    BY <2>1, <2>2, <2>3
    DEF Next, vars, world, Crash, LoseLock, DeletePass, MarkCopyDeleting, ListPending, StatDeleting,
        ListObsolete, Unlink, MarkDeleted, RevertToActive, ReclaimObsolete, ReclaimLost, PassDies, Stall,
        ClearObsoleteAttempts, LeaseExpires, SweepTemp, RetirePolicy, Restore, Rot
<1>5. faults' \in 0..MaxFaults
  <2>1. CASE UNCHANGED faults \/ Fault
    BY <2>1, <1>k DEF WorldOK, Fault
  <2>2. ASSUME NEW w \in Workers, Work(w)
        PROVE  UNCHANGED faults \/ Fault
    BY <2>2
    DEF Work, Prepare, AcquireBandwidth, AcquireProgress, AdoptExistingDestination, OpenSlice, CopyBlock,
        ReadBlock, EndSlice, ReadFails, Publish, Complete, RemoveRefused, DiscardPending, RemoveTemp,
        StartVerification, FinishVerification, RecordMeasured, RecordFailure, Leave, GiveUp
  <2> QED
    BY <2>1, <2>2
    DEF Next, vars, Crash, LoseLock, DeletePass, MarkCopyDeleting, ListPending, StatDeleting, ListObsolete,
        Unlink, MarkDeleted, RevertToActive, ReclaimObsolete, ReclaimLost, PassDies, Stall,
        ClearObsoleteAttempts, LeaseExpires, SweepTemp, SwitchPolicy, RetirePolicy, Trash, Restore, Rot
<1> QED BY <1>1, <1>2, <1>3, <1>4, <1>5 DEF WorldOK

(* Every reachable state of the transfer has the declared shape, and a store
   never has two live rows of the asset (media_asset_copies). *)
THEOREM TypeCorrect == Spec => []TypeOK
<1>1. TypeOK /\ [Next]_vars => TypeOK'
  BY RowsType, FilesType, JobsType, PassesType, WorldType DEF TypeOK
<1> QED BY <1>1, InitTyped, PTL DEF Spec

-----------------------------------------------------------------------------
(* The last copy. *)

(* The recording has an active row at every moment, whatever the policies are
   switched to and however jobs and passes fail: the pass that takes an active
   row on has seen the wanted one active under the lock of the asset
   (deletePlacementCopy, media_asset_copy_prunable). *)
THEOREM LastCopy == Spec => []LastCopyStays
<1>1. Init => LastCopyStays
  BY TransferAssumption DEF Init, LastCopyStays, Copies
<1>2. TypeOK /\ LastCopyStays /\ [Next]_vars => LastCopyStays'
  <2> SUFFICES ASSUME TypeOK, LastCopyStays, [Next]_vars PROVE LastCopyStays'
    OBVIOUS
  <2>k. copy \in [Copies -> [store : Stores \cup {None},
                            state : {"none", "pending", "active", "deleting", "deleted"}]]
    BY DEF TypeOK, RowsOK
  <2>1. CASE UNCHANGED copy
    BY <2>1 DEF LastCopyStays
  <2>2. ASSUME NEW c, NEW state, copy[c].state # "active" \/ state = "active",
               copy' = [copy EXCEPT ![c].state = state]
        PROVE  LastCopyStays'
    BY <2>2, <2>k DEF LastCopyStays
  <2>3. ASSUME NEW s \in Stores, NEW want \in Stores, MarkCopyDeleting(s, want)
        PROVE  LastCopyStays'
    <3>1. PICK c \in Copies : Prunable(c, want) /\ copy' = [copy EXCEPT ![c].state = "deleting"]
      BY <2>3 DEF MarkCopyDeleting, In
    <3>2. PICK b \in Copies : copy[b].store = want /\ copy[b].state = "active"
      BY <3>1 DEF Prunable, In
    <3>3. b # c
      BY <3>1, <3>2 DEF Prunable
    <3> QED BY <2>k, <3>1, <3>2, <3>3 DEF LastCopyStays
  <2>4. ASSUME NEW w \in Workers, NEW s \in Stores, Prepare(w, s)
        PROVE  LastCopyStays'
    <3>1. CASE \E c \in Copies : /\ copy[c].state = "none"
                                 /\ copy' = [copy EXCEPT ![c] = [store |-> s, state |-> "pending"]]
      BY <2>k, <3>1 DEF LastCopyStays
    <3> QED BY <2>1, <2>4, <3>1 DEF Prepare
  <2>5. ASSUME NEW w \in Workers, Complete(w) \/ DiscardPending(w)
        PROVE  LastCopyStays'
    BY <2>1, <2>2, <2>5 DEF Complete, DiscardPending
  <2>6. ASSUME NEW s \in Stores, MarkDeleted(s) \/ RevertToActive(s) \/ ReclaimObsolete(s)
        PROVE  LastCopyStays'
    BY <2>1, <2>2, <2>6 DEF MarkDeleted, RevertToActive, ReclaimObsolete, Obsolete
  <2>7. ASSUME NEW w \in Workers, Work(w)
        PROVE  LastCopyStays'
    BY <2>1, <2>4, <2>5, <2>7
    DEF Work, AcquireBandwidth, AcquireProgress, AdoptExistingDestination, OpenSlice, CopyBlock,
        ReadBlock, EndSlice, ReadFails, Publish, RemoveRefused, RemoveTemp, StartVerification,
        FinishVerification, RecordMeasured, RecordFailure, Leave, GiveUp, rows
  <2> QED
    BY <2>1, <2>3, <2>6, <2>7
    DEF Next, vars, rows, DeletePass, ListPending, StatDeleting, ListObsolete, Unlink, Stall, Crash,
        PassDies, ReclaimLost, LoseLock, ClearObsoleteAttempts, LeaseExpires, SweepTemp, SwitchPolicy,
        RetirePolicy, Trash, Restore, Rot
<1> QED BY <1>1, <1>2, TypeCorrect, PTL DEF Spec

-----------------------------------------------------------------------------
(* One writer for a temporary file. *)

Writing(w) == worker[w].at \in {"look", "open", "copy"}

(* A row that a job has reserved never becomes a row that was never made. *)
RowStays(w) == worker[w].at # "idle" => copy[worker[w].copy].state # "none"

(* A job that writes has the lease, or its generation is over, or the row that
   the lease belonged to can never be transferred again. *)
Fenced(w) ==
    LET c == worker[w].copy
        p == progress[c]
    IN  Writing(w) =>
           \/ p = None /\ copy[c].state \notin {"none", "pending"}
           \/ p # None /\ p.generation > worker[w].generation
           \/ p # None /\ p.generation = worker[w].generation /\ p.owner = w /\ ~p.handed

Apart(v, w) ==
    v # w /\ Writing(v) /\ Writing(w) /\ worker[v].copy = worker[w].copy
        => worker[v].generation # worker[w].generation

Writers == (\A w \in Workers : RowStays(w) /\ Fenced(w)) /\ \A v, w \in Workers : Apart(v, w)

(* What a step other than Prepare and AcquireProgress does to the jobs, the
   rows and the leases. *)
JobsMove ==
    \A v \in Workers :
       /\ worker'[v].at # "idle" => worker[v].at # "idle" /\ worker'[v].copy = worker[v].copy
       /\ Writing(v)' => Writing(v) /\ worker'[v].generation = worker[v].generation

RowsMove ==
    \A c \in Copies :
       /\ copy[c].state # "none" => copy'[c].state # "none"
       /\ copy[c].state \notin {"none", "pending"} => copy'[c].state \notin {"none", "pending"}

LeaseGone(c) == progress'[c] = None /\ (progress[c] = None \/ copy'[c].state \notin {"none", "pending"})

LeaseKept(c, v) ==
    /\ progress[c] # None /\ progress'[c] # None
    /\ progress'[c].generation = progress[c].generation
    /\ progress[c].owner = v /\ ~progress[c].handed => progress'[c].owner = v /\ ~progress'[c].handed

LeasesMove ==
    \A v \in Workers :
       Writing(v)' => LeaseGone(worker[v].copy) \/ LeaseKept(worker[v].copy, v)

LEMMA WritersKeep ==
  ASSUME TypeOK, Writers, JobsMove, RowsMove, LeasesMove
  PROVE  Writers'
<1>j. ASSUME NEW v \in Workers, worker[v].at # "idle"
      PROVE  worker[v].copy \in Copies
  BY <1>j DEF TypeOK, JobsOK
<1>1. ASSUME NEW v \in Workers
      PROVE  RowStays(v)'
  BY <1>1, <1>j DEF Writers, RowStays, JobsMove, RowsMove
<1>2. ASSUME NEW v \in Workers
      PROVE  Fenced(v)'
  <2> SUFFICES ASSUME Writing(v)' PROVE Fenced(v)'
    BY DEF Fenced
  <2> DEFINE c == worker[v].copy
  <2>1. /\ Writing(v) /\ worker'[v].copy = c /\ worker'[v].generation = worker[v].generation
        /\ c \in Copies
    BY <1>j DEF JobsMove, Writing
  <2>2. CASE LeaseGone(c)
    BY <2>1, <2>2 DEF LeaseGone, Fenced, Writers, RowStays, RowsMove, Writing
  <2>3. CASE LeaseKept(c, v)
    BY <2>1, <2>3 DEF LeaseKept, Fenced, Writers
  <2> QED BY <2>2, <2>3 DEF LeasesMove
<1>3. ASSUME NEW v \in Workers, NEW w \in Workers
      PROVE  Apart(v, w)'
  <2> SUFFICES ASSUME v # w, Writing(v)', Writing(w)', worker'[v].copy = worker'[w].copy
               PROVE  worker'[v].generation # worker'[w].generation
    BY DEF Apart
  <2> QED BY DEF JobsMove, Writers, Apart, Writing
<1> QED BY <1>1, <1>2, <1>3 DEF Writers

(* A job that ends or goes on to a step that does not write. *)
LEMMA ToMoves ==
  ASSUME TypeOK, NEW w \in Workers, worker[w].at # "idle",
         \/ \E at \in Steps \ {"look", "open", "copy"} : To(w, at)
         \/ \E at \in {"failed", "leave"}, saved \in BOOLEAN : Ends(w, at, saved)
         \/ worker' = [worker EXCEPT ![w] = Idle]
  PROVE  JobsMove /\ ~Writing(w)'
<1>1. worker \in [Workers -> Job]
  BY DEF TypeOK, JobsOK
<1>2. CASE worker' = [worker EXCEPT ![w] = Idle]
  BY <1>1, <1>2 DEF JobsMove, Writing, Idle
<1>3. ASSUME NEW at \in {"failed", "leave"}, NEW saved \in BOOLEAN, Ends(w, at, saved)
      PROVE  JobsMove /\ ~Writing(w)'
  BY <1>1, <1>3 DEF Ends, JobsMove, Writing, Idle
<1>4. ASSUME NEW at \in Steps \ {"look", "open", "copy"}, To(w, at)
      PROVE  JobsMove /\ ~Writing(w)'
  <2>1. CASE at \in {"failed", "leave"}
    <3>1. worker[w].saved \in BOOLEAN /\ Ends(w, at, worker[w].saved)
      BY <1>1, <1>4, <2>1 DEF To, Job
    <3> QED BY <1>3, <2>1, <3>1
  <2>2. CASE at \notin {"failed", "leave"}
    BY <1>1, <1>4, <2>2 DEF To, JobsMove, Writing, Job
  <2> QED BY <2>1, <2>2
<1> QED BY <1>2, <1>3, <1>4

LEMMA NothingMoves ==
  /\ UNCHANGED worker => JobsMove
  /\ UNCHANGED copy => RowsMove
  /\ TypeOK /\ UNCHANGED progress => LeasesMove
<1>1. UNCHANGED worker => JobsMove
  BY DEF JobsMove, Writing
<1>2. UNCHANGED copy => RowsMove
  BY DEF RowsMove
<1>3. TypeOK /\ UNCHANGED progress => LeasesMove
  BY DEF LeasesMove, LeaseGone, LeaseKept
<1> QED BY <1>1, <1>2, <1>3

(* A lease that changes for the one who has it alone. *)
LEMMA LeaseOf ==
  ASSUME TypeOK, NEW w \in Workers, JobsMove, ~Writing(w)',
         NEW c \in Copies, progress[c] # None, progress[c].owner = w,
         NEW p \in Progress, p.generation = progress[c].generation,
         progress' = [progress EXCEPT ![c] = p]
  PROVE  LeasesMove
<1>1. progress \in [Copies -> Progress \cup {None}] /\ None \notin Progress
  BY NoneAssumption DEF TypeOK, RowsOK
<1>2. ASSUME NEW v \in Workers, Writing(v)'
      PROVE  LeaseGone(worker[v].copy) \/ LeaseKept(worker[v].copy, v)
  <2>1. v # w /\ worker[v].copy \in Copies
    BY <1>2 DEF JobsMove, Writing, TypeOK, JobsOK
  <2> QED BY <1>1, <2>1 DEF LeaseGone, LeaseKept
<1> QED BY <1>2 DEF LeasesMove

LEMMA WritersOfWork ==
  ASSUME TypeOK, Writers, NEW w \in Workers, Work(w)
  PROVE  Writers'
<1> DEFINE c == worker[w].copy
<1>j. /\ worker \in [Workers -> Job] /\ worker[w] \in Job
      /\ \A v \in Workers : worker[v].at # "idle" => worker[v].copy \in Copies
  BY DEF TypeOK, JobsOK
<1>k. /\ copy \in [Copies -> [store : Stores \cup {None},
                              state : {"none", "pending", "active", "deleting", "deleted"}]]
      /\ progress \in [Copies -> Progress \cup {None}] /\ None \notin Progress
  BY NoneAssumption DEF TypeOK, RowsOK
<1>t. ASSUME worker[w].at # "idle",
             \/ \E at \in Steps \ {"look", "open", "copy"} : To(w, at)
             \/ \E at \in {"failed", "leave"}, saved \in BOOLEAN : Ends(w, at, saved)
             \/ worker' = [worker EXCEPT ![w] = Idle]
      PROVE  JobsMove /\ ~Writing(w)'
  BY <1>t, ToMoves
<1>u. ASSUME JobsMove, UNCHANGED <<copy, progress>>
      PROVE  Writers'
  BY <1>u, NothingMoves, WritersKeep
<1>1. ASSUME NEW s \in Stores, Prepare(w, s)
      PROVE  Writers'
  <2>1. PICK b \in Copies :
          /\ \/ copy[b].state = "pending" /\ UNCHANGED copy
             \/ copy[b].state = "none" /\ copy' = [copy EXCEPT ![b] = [store |-> s, state |-> "pending"]]
          /\ \E from : worker' = [worker EXCEPT ![w].at = "prepared", ![w].want = s, ![w].copy = b,
                                          ![w].from = from, ![w].sha = sha]
    BY <1>1 DEF Prepare, In
  <2>2. /\ worker[w].at = "idle" /\ UNCHANGED progress
        /\ worker'[w].at = "prepared" /\ worker'[w].copy = b
        /\ \A v \in Workers \ {w} : worker'[v] = worker[v]
    BY <1>1, <1>j, <2>1 DEF Prepare, Job
  <2>3. copy'[b].state = "pending" /\ \A a \in Copies \ {b} : copy'[a] = copy[a]
    BY <1>k, <2>1
  <2>4. ASSUME NEW v \in Workers
        PROVE  RowStays(v)'
    BY <2>2, <2>3, <1>j DEF Writers, RowStays
  <2>5. ASSUME NEW v \in Workers
        PROVE  Fenced(v)'
    <3>1. CASE v = w
      BY <2>2, <3>1 DEF Fenced, Writing
    <3>2. CASE v # w
      <4> SUFFICES ASSUME Writing(v) PROVE Fenced(v)'
        BY <2>2, <3>2 DEF Fenced, Writing
      <4>1. worker[v].copy \in Copies /\ Fenced(v) /\ RowStays(v)
        BY <1>j DEF Writing, Writers
      <4>2. CASE copy'[worker[v].copy] = copy[worker[v].copy]
        BY <2>2, <3>2, <4>1, <4>2 DEF Fenced, Writing
      <4>3. CASE copy'[worker[v].copy] # copy[worker[v].copy]
        <5>1. worker[v].copy = b /\ copy[b].state = "none"
          BY <2>1, <2>3, <4>1, <4>3
        <5> QED BY <4>1, <5>1 DEF RowStays, Writing
      <4> QED BY <4>2, <4>3
    <3> QED BY <3>1, <3>2
  <2>6. ASSUME NEW u \in Workers, NEW v \in Workers
        PROVE  Apart(u, v)'
    BY <2>2 DEF Writers, Apart, Writing
  <2> QED BY <2>4, <2>5, <2>6 DEF Writers
<1>2. ASSUME AcquireProgress(w)
      PROVE  Writers'
  <2> DEFINE old == progress[c]
  <2>1. c \in Copies /\ old \in Progress \cup {None} /\ UNCHANGED copy /\ worker[w].at = "locked"
    BY <1>2, <1>j, <1>k DEF AcquireProgress
  <2>2. CASE To(w, "leave") /\ UNCHANGED progress
    BY <2>1, <2>2, <1>t, <1>u DEF Steps
  <2>3. ASSUME NEW generation \in Nat, NEW p \in Progress,
               p.generation = generation, p.owner = w, ~p.handed,
               progress' = [progress EXCEPT ![c] = p],
               worker'[w].at \in {"look", "verify"}, worker'[w].copy = c,
               worker'[w].generation = generation,
               \A v \in Workers \ {w} : worker'[v] = worker[v],
               \A v \in Workers \ {w} :
                  Writing(v) /\ worker[v].copy = c => worker[v].generation < generation
        PROVE  Writers'
    <3>1. ASSUME NEW v \in Workers
          PROVE  RowStays(v)'
      BY <2>1, <2>3 DEF Writers, RowStays
    <3>2. ASSUME NEW v \in Workers
          PROVE  Fenced(v)'
      <4>1. CASE v = w
        BY <1>k, <2>1, <2>3, <4>1 DEF Fenced
      <4>2. CASE v # w
        <5> SUFFICES ASSUME Writing(v) PROVE Fenced(v)'
          BY <2>3, <4>2 DEF Fenced, Writing
        <5>1. worker[v].copy \in Copies /\ Fenced(v) /\ worker'[v] = worker[v]
          BY <1>j, <2>3, <4>2 DEF Writing, Writers
        <5>2. CASE worker[v].copy = c
          BY <1>k, <2>1, <2>3, <4>2, <5>1, <5>2 DEF Fenced
        <5>3. CASE worker[v].copy # c
          BY <1>k, <2>1, <2>3, <5>1, <5>3 DEF Fenced
        <5> QED BY <5>2, <5>3
      <4> QED BY <4>1, <4>2
    <3>3. ASSUME NEW u \in Workers, NEW v \in Workers
          PROVE  Apart(u, v)'
      <4> SUFFICES ASSUME u # v, Writing(u)', Writing(v)', worker'[u].copy = worker'[v].copy
                   PROVE  worker'[u].generation # worker'[v].generation
        BY DEF Apart
      <4>1. /\ u # w => Writing(u) /\ worker'[u] = worker[u] /\ worker[u].generation \in Nat
            /\ v # w => Writing(v) /\ worker'[v] = worker[v] /\ worker[v].generation \in Nat
        BY <1>j, <2>3, TransferAssumption DEF Writing, Job, Generations
      <4> QED BY <2>3, <4>1 DEF Writers, Apart
    <3> QED BY <3>1, <3>2, <3>3 DEF Writers
  <2>4. ASSUME NEW v \in Workers \ {w}, Writing(v), worker[v].copy = c
        PROVE  /\ worker[v].generation \in Nat
               /\ old = None => copy[c].state # "pending"
               /\ old # None => worker[v].generation <= old.generation
               /\ old # None /\ old.handed => worker[v].generation < old.generation
    <3>1. worker[v].generation \in Nat /\ (old # None => old.generation \in Nat)
      BY <1>j, <2>1, TransferAssumption DEF Job, Generations, Progress
    <3>2. Fenced(v)
      BY DEF Writers
    <3> QED BY <2>4, <3>1, <3>2 DEF Fenced
  <2>5. CASE /\ old = None /\ copy[c].state = "pending"
             /\ progress' = [progress EXCEPT ![c] = [owner |-> w, live |-> TRUE, generation |-> 1,
                                     handed |-> FALSE, read |-> <<>>, verifying |-> FALSE]]
             /\ worker' = [worker EXCEPT ![w].at = "look", ![w].generation = 1]
    <3> DEFINE p == [owner |-> w, live |-> TRUE, generation |-> 1,
                     handed |-> FALSE, read |-> <<>>, verifying |-> FALSE]
    <3>1. p \in Progress
      BY EmptyBlocks, TransferAssumption DEF Progress
    <3>2. /\ worker'[w].at = "look" /\ worker'[w].copy = c /\ worker'[w].generation = 1
          /\ \A v \in Workers \ {w} : worker'[v] = worker[v]
      BY <1>j, <2>5 DEF Job
    <3>3. p.generation = 1 /\ p.owner = w /\ ~p.handed /\ progress' = [progress EXCEPT ![c] = p]
      BY <2>5
    <3> HIDE DEF p
    <3> QED BY <2>3, <2>4, <2>5, <3>1, <3>2, <3>3
  <2>6. CASE /\ old # None /\ old.handed
             /\ progress' = [progress EXCEPT ![c] = [owner |-> w, live |-> TRUE, generation |-> old.generation,
                                     handed |-> FALSE, read |-> old.read, verifying |-> old.verifying]]
             /\ worker' = [worker EXCEPT ![w].at = IF old.verifying THEN "verify" ELSE "look",
                   ![w].resumed = TRUE, ![w].read = old.read,
                   ![w].generation = old.generation, ![w].previous = old.generation]
    <3> DEFINE p == [owner |-> w, live |-> TRUE, generation |-> old.generation,
                     handed |-> FALSE, read |-> old.read, verifying |-> old.verifying]
    <3>1. p \in Progress /\ old.generation \in Nat
      BY <2>1, <2>6, TransferAssumption DEF Progress
    <3>2. /\ worker'[w].at \in {"look", "verify"} /\ worker'[w].copy = c
          /\ worker'[w].generation = old.generation
          /\ \A v \in Workers \ {w} : worker'[v] = worker[v]
      BY <1>j, <2>6 DEF Job
    <3>3. p.generation = old.generation /\ p.owner = w /\ ~p.handed /\ progress' = [progress EXCEPT ![c] = p]
      BY <2>6
    <3> HIDE DEF p
    <3> QED BY <2>3, <2>4, <2>6, <3>1, <3>2, <3>3
  <2>7. CASE /\ old # None /\ old.generation < MaxGeneration
             /\ progress' = [progress EXCEPT ![c] = [owner |-> w, live |-> TRUE, generation |-> old.generation + 1,
                                     handed |-> FALSE, read |-> <<>>, verifying |-> old.verifying]]
             /\ worker' = [worker EXCEPT ![w].at = IF old.verifying THEN "verify" ELSE "look",
                   ![w].generation = old.generation + 1, ![w].previous = old.generation]
    <3> DEFINE p == [owner |-> w, live |-> TRUE, generation |-> old.generation + 1,
                     handed |-> FALSE, read |-> <<>>, verifying |-> old.verifying]
    <3>1. p \in Progress /\ old.generation \in Nat /\ old.generation + 1 \in Nat
      BY <2>1, <2>7, EmptyBlocks, TransferAssumption DEF Progress
    <3>2. /\ worker'[w].at \in {"look", "verify"} /\ worker'[w].copy = c
          /\ worker'[w].generation = old.generation + 1
          /\ \A v \in Workers \ {w} : worker'[v] = worker[v]
      BY <1>j, <2>7 DEF Job
    <3>3. /\ p.generation = old.generation + 1 /\ p.owner = w /\ ~p.handed
          /\ progress' = [progress EXCEPT ![c] = p]
      BY <2>7
    <3>4. \A v \in Workers \ {w} :
            Writing(v) /\ worker[v].copy = c => worker[v].generation < old.generation + 1
      BY <2>4, <2>7, <3>1
    <3> HIDE DEF p
    <3> QED BY <2>3, <3>1, <3>2, <3>3, <3>4
  <2> QED BY <1>2, <2>2, <2>5, <2>6, <2>7 DEF AcquireProgress
<1>3. ASSUME EndSlice(w) \/ ReadFails(w)
      PROVE  Writers'
  <2>1. JobsMove /\ ~Writing(w)' /\ UNCHANGED copy /\ c \in Copies
    BY <1>3, <1>t, <1>j DEF EndSlice, ReadFails, Steps
  <2>2. CASE UNCHANGED progress
    BY <2>1, <2>2, <1>u
  <2>3. CASE Owns(w) /\ Save(w)
    <3> DEFINE p == [progress[c] EXCEPT !.handed = TRUE, !.live = FALSE, !.read = worker[w].read]
    <3>1. progress[c] \in Progress /\ progress[c] # None /\ progress[c].owner = w
      BY <1>k, <2>1, <2>3 DEF Owns
    <3>2. p \in Progress /\ p.generation = progress[c].generation
      BY <1>j, <3>1 DEF Progress, Job
    <3>3. progress' = [progress EXCEPT ![c] = p]
      BY <2>3 DEF Save
    <3> HIDE DEF p
    <3> QED BY <2>1, <3>1, <3>2, <3>3, LeaseOf, NothingMoves, WritersKeep
  <2> QED BY <1>3, <2>2, <2>3 DEF EndSlice, ReadFails
<1>4. ASSUME StartVerification(w) \/ FinishVerification(w)
      PROVE  Writers'
  <2>1. CASE To(w, "leave") /\ UNCHANGED progress
    BY <1>4, <2>1, <1>t, <1>u DEF StartVerification, FinishVerification, Steps
  <2>2. CASE Owns(w) /\ ~(To(w, "leave") /\ UNCHANGED progress)
    <3> DEFINE p(verifying) == [progress[c] EXCEPT !.verifying = verifying, !.read = <<>>]
    <3>1. c \in Copies /\ UNCHANGED copy /\ worker[w].at # "idle"
      BY <1>4, <1>j DEF StartVerification, FinishVerification
    <3>2. JobsMove /\ ~Writing(w)'
      <4>1. CASE To(w, "failed")
        BY <3>1, <4>1, <1>t DEF Steps
      <4>2. CASE worker' = [worker EXCEPT ![w].at = "verify", ![w].read = <<>>, ![w].file = None]
        BY <3>1, <4>2, <1>j DEF JobsMove, Writing, Job
      <4> QED BY <1>4, <2>2, <4>1, <4>2 DEF StartVerification, FinishVerification
    <3>3. progress[c] \in Progress /\ progress[c] # None /\ progress[c].owner = w
      BY <1>k, <3>1, <2>2 DEF Owns
    <3>4. ASSUME NEW verifying \in BOOLEAN
          PROVE  p(verifying) \in Progress /\ p(verifying).generation = progress[c].generation
      BY <3>3, EmptyBlocks DEF Progress
    <3>5. \E verifying \in BOOLEAN : progress' = [progress EXCEPT ![c] = p(verifying)]
      BY <1>4, <2>2 DEF StartVerification, FinishVerification
    <3> HIDE DEF p
    <3> QED BY <3>1, <3>2, <3>3, <3>4, <3>5, LeaseOf, NothingMoves, WritersKeep
  <2> QED BY <1>4, <2>1, <2>2 DEF StartVerification, FinishVerification
<1>5. ASSUME Leave(w)
      PROVE  Writers'
  <2>1. JobsMove /\ ~Writing(w)' /\ UNCHANGED copy /\ c \in Copies
    BY <1>5, <1>t, <1>j DEF Leave
  <2>2. CASE UNCHANGED progress
    BY <2>1, <2>2, <1>u
  <2>3. CASE /\ progress[c] # None /\ progress[c].owner = w
             /\ progress' = [progress EXCEPT ![c].live = FALSE, ![c].handed = FALSE]
    <3> DEFINE p == [progress[c] EXCEPT !.live = FALSE, !.handed = FALSE]
    <3>1. progress[c] \in Progress
      BY <1>k, <2>1, <2>3
    <3>2. p \in Progress /\ p.generation = progress[c].generation
      BY <3>1 DEF Progress
    <3>3. progress' = [progress EXCEPT ![c] = p]
      BY <2>3
    <3> HIDE DEF p
    <3> QED BY <2>1, <2>3, <3>2, <3>3, LeaseOf, NothingMoves, WritersKeep
  <2> QED BY <1>5, <2>2, <2>3 DEF Leave
<1>6. ASSUME Complete(w) \/ DiscardPending(w)
      PROVE  Writers'
  <2>1. JobsMove /\ c \in Copies
    BY <1>6, <1>t, <1>j DEF Complete, DiscardPending, Steps
  <2>2. RowsMove
    BY <1>6, <1>k, <2>1 DEF Complete, DiscardPending, RowsMove
  <2>3. LeasesMove
    <3>1. CASE UNCHANGED progress
      BY <3>1, NothingMoves
    <3>2. CASE progress' = [progress EXCEPT ![c] = None] /\ copy'[c].state \notin {"none", "pending"}
      BY <1>j, <1>k, <2>1, <3>2 DEF LeasesMove, LeaseGone, LeaseKept, JobsMove, Writing
    <3>3. copy[c].state # "none"
      BY <1>6 DEF Writers, RowStays, Complete, DiscardPending
    <3>4. UNCHANGED progress \/ (progress' = [progress EXCEPT ![c] = None] /\ copy'[c].state \notin {"none", "pending"})
      BY <1>6, <1>k, <2>1, <3>3 DEF Complete, DiscardPending
    <3> QED BY <3>1, <3>2, <3>4
  <2> QED BY <2>1, <2>2, <2>3, WritersKeep
<1>7. ASSUME OpenSlice(w) \/ CopyBlock(w) \/ ReadBlock(w) \/ AdoptExistingDestination(w) \/ Publish(w)
      PROVE  Writers'
  <2>1. UNCHANGED <<copy, progress>>
    BY <1>7 DEF OpenSlice, CopyBlock, ReadBlock, AdoptExistingDestination, Publish, rows
  <2>e. worker[w].at # "idle"
    BY <1>7 DEF OpenSlice, CopyBlock, ReadBlock, AdoptExistingDestination, Publish
  <2>n. ASSUME Writing(w),
               /\ worker'[w].copy = c /\ worker'[w].generation = worker[w].generation
               /\ \A v \in Workers \ {w} : worker'[v] = worker[v]
        PROVE  JobsMove
    BY <2>e, <2>n DEF JobsMove, Writing
  <2>2. ASSUME OpenSlice(w) PROVE JobsMove
    <3>1. Writing(w)
      BY <2>2 DEF OpenSlice, Writing
    <3>2. CASE To(w, "failed")
      BY <2>e, <3>2, <1>t DEF Steps
    <3>3. CASE ~To(w, "failed")
      <4>1. /\ worker'[w].copy = c /\ worker'[w].generation = worker[w].generation
            /\ \A v \in Workers \ {w} : worker'[v] = worker[v]
        BY <1>j, <2>2, <3>3 DEF OpenSlice, Job
      <4> QED BY <2>n, <3>1, <4>1
    <3> QED BY <3>2, <3>3
  <2>3. ASSUME CopyBlock(w) PROVE JobsMove
    <3>1. Writing(w)
      BY <2>3 DEF CopyBlock, Writing
    <3>2. /\ worker'[w].copy = c /\ worker'[w].generation = worker[w].generation
          /\ \A v \in Workers \ {w} : worker'[v] = worker[v]
      BY <1>j, <2>3 DEF CopyBlock, Job
    <3> QED BY <2>n, <3>1, <3>2
  <2>4. ASSUME ReadBlock(w) PROVE JobsMove
    <3>1. /\ worker'[w].copy = c /\ worker'[w].at \in {"measure", "verify"}
          /\ \A v \in Workers \ {w} : worker'[v] = worker[v]
      BY <1>j, <2>4 DEF ReadBlock, Job
    <3> QED BY <2>e, <3>1 DEF JobsMove, Writing
  <2>5. ASSUME AdoptExistingDestination(w) PROVE JobsMove
    <3>1. Writing(w)
      BY <2>5 DEF AdoptExistingDestination, Writing
    <3>2. CASE \E at \in {"measure", "suspect"} : To(w, at)
      BY <2>e, <3>2, <1>t DEF Steps
    <3>3. CASE ~\E at \in {"measure", "suspect"} : To(w, at)
      <4>1. /\ worker'[w].copy = c /\ worker'[w].generation = worker[w].generation
            /\ \A v \in Workers \ {w} : worker'[v] = worker[v]
        BY <1>j, <2>5, <3>3 DEF AdoptExistingDestination, To, Job
      <4> QED BY <2>n, <3>1, <4>1
    <3> QED BY <3>2, <3>3
  <2>6. ASSUME Publish(w) PROVE JobsMove
    <3>1. Writing(w)
      BY <2>6 DEF Publish, Writing
    <3>2. CASE To(w, "failed")
      BY <2>e, <3>2, <1>t DEF Steps
    <3>3. CASE ~To(w, "failed")
      <4>1. /\ worker'[w].copy = c /\ worker'[w].generation = worker[w].generation
            /\ \A v \in Workers \ {w} : worker'[v] = worker[v]
        BY <1>j, <2>6, <3>3 DEF Publish, Job
      <4> QED BY <2>n, <3>1, <4>1
    <3> QED BY <3>2, <3>3
  <2>7. JobsMove
    BY <1>7, <2>2, <2>3, <2>4, <2>5, <2>6
  <2> QED BY <2>1, <2>7, <1>u
<1>8. ASSUME AcquireBandwidth(w) \/ RemoveRefused(w) \/ RemoveTemp(w) \/ RecordMeasured(w) \/ RecordFailure(w)
             \/ GiveUp(w)
      PROVE  Writers'
  <2>1. UNCHANGED <<copy, progress>>
    BY <1>8 DEF AcquireBandwidth, RemoveRefused, RemoveTemp, RecordMeasured, RecordFailure, GiveUp, rows
  <2>2. JobsMove
    BY <1>8, <1>t DEF AcquireBandwidth, RemoveRefused, RemoveTemp, RecordMeasured, RecordFailure, GiveUp, Steps
  <2> QED BY <2>1, <2>2, <1>u
<1> QED BY <1>1, <1>2, <1>3, <1>4, <1>5, <1>6, <1>7, <1>8 DEF Work

LEMMA WritersHold == Spec => []Writers
<1>1. Init => Writers
  BY DEF Init, Writers, RowStays, Fenced, Apart, Writing, Idle
<1>2. TypeOK /\ Writers /\ [Next]_vars => Writers'
  <2> SUFFICES ASSUME TypeOK, Writers, [Next]_vars PROVE Writers'
    OBVIOUS
  <2>j. /\ worker \in [Workers -> Job]
        /\ \A v \in Workers : worker[v].at # "idle" => worker[v].copy \in Copies
    BY DEF TypeOK, JobsOK
  <2>k. /\ copy \in [Copies -> [store : Stores \cup {None},
                              state : {"none", "pending", "active", "deleting", "deleted"}]]
        /\ progress \in [Copies -> Progress \cup {None}] /\ None \notin Progress
    BY NoneAssumption DEF TypeOK, RowsOK
  <2>1. CASE UNCHANGED <<copy, progress, worker>>
    BY <2>1, NothingMoves, WritersKeep
  <2>2. ASSUME NEW w \in Workers, Stall(w)
        PROVE  Writers'
    <3>1. JobsMove /\ UNCHANGED <<copy, progress>>
      BY <2>2, <2>j DEF Stall, JobsMove, Writing, Job, rows
    <3> QED BY <3>1, NothingMoves, WritersKeep
  <2>3. ASSUME NEW w \in Workers, Crash(w)
        PROVE  Writers'
    <3>1. JobsMove /\ ~Writing(w)' /\ UNCHANGED copy
      BY <2>3, ToMoves DEF Crash
    <3>2. LeasesMove
      <4> SUFFICES ASSUME NEW v \in Workers, Writing(v)'
                   PROVE  LeaseGone(worker[v].copy) \/ LeaseKept(worker[v].copy, v)
        BY DEF LeasesMove
      <4>1. v # w /\ worker[v].copy \in Copies
        BY <2>j, <3>1 DEF JobsMove, Writing
      <4>2. progress'[worker[v].copy] = IF progress[worker[v].copy] # None /\ progress[worker[v].copy].owner = w
                                        THEN [progress[worker[v].copy] EXCEPT !.owner = None]
                                        ELSE progress[worker[v].copy]
        BY <2>3, <4>1 DEF Crash
      <4>3. /\ progress[worker[v].copy] \in Progress =>
                 [progress[worker[v].copy] EXCEPT !.owner = None] \in Progress
        BY DEF Progress
      <4> QED BY <2>k, <4>1, <4>2, <4>3 DEF LeaseGone, LeaseKept, Progress
    <3> QED BY <3>1, <3>2, NothingMoves, WritersKeep
  <2>4. ASSUME NEW c \in Copies, LeaseExpires(c)
        PROVE  Writers'
    <3>1. JobsMove /\ RowsMove
      BY <2>4, NothingMoves DEF LeaseExpires
    <3>2. LeasesMove
      <4> DEFINE p == [progress[c] EXCEPT !.live = FALSE]
      <4>1. progress[c] \in Progress
        BY <2>4, <2>k DEF LeaseExpires
      <4>2. /\ p \in Progress /\ p.generation = progress[c].generation
            /\ p.owner = progress[c].owner /\ p.handed = progress[c].handed
        BY <4>1 DEF Progress
      <4>3. progress' = [progress EXCEPT ![c] = p]
        BY <2>4 DEF LeaseExpires
      <4> HIDE DEF p
      <4> QED BY <2>j, <2>k, <3>1, <4>1, <4>2, <4>3 DEF LeasesMove, LeaseGone, LeaseKept, JobsMove, Writing
    <3> QED BY <3>1, <3>2, WritersKeep
  <2>5. ASSUME NEW s \in Stores, ReclaimObsolete(s)
        PROVE  Writers'
    <3>1. JobsMove /\ pass[s].copy \in Copies
      BY <2>5, NothingMoves DEF ReclaimObsolete, TypeOK, PassesOK
    <3>2. RowsMove
      BY <2>5, <2>k, <3>1 DEF ReclaimObsolete, RowsMove
    <3>3. LeasesMove
      <4>1. CASE UNCHANGED progress
        BY <4>1, NothingMoves
      <4>2. CASE progress' = [progress EXCEPT ![pass[s].copy] = None] /\ copy'[pass[s].copy].state = "deleted"
        BY <2>j, <2>k, <3>1, <4>2 DEF LeasesMove, LeaseGone, LeaseKept, JobsMove, Writing
      <4> QED BY <2>5, <2>k, <3>1, <4>1, <4>2 DEF ReclaimObsolete
    <3> QED BY <3>1, <3>2, <3>3, WritersKeep
  <2>6. ASSUME NEW s \in Stores, NEW want \in Stores, MarkCopyDeleting(s, want)
        PROVE  Writers'
    <3>1. JobsMove /\ LeasesMove
      BY <2>6, NothingMoves DEF MarkCopyDeleting
    <3>2. RowsMove
      BY <2>6, <2>k DEF MarkCopyDeleting, RowsMove
    <3> QED BY <3>1, <3>2, WritersKeep
  <2>7. ASSUME NEW s \in Stores, MarkDeleted(s) \/ RevertToActive(s)
        PROVE  Writers'
    <3>1. JobsMove /\ LeasesMove
      BY <2>7, NothingMoves DEF MarkDeleted, RevertToActive
    <3>2. RowsMove
      BY <2>7, <2>k DEF MarkDeleted, RevertToActive, RowsMove
    <3> QED BY <3>1, <3>2, WritersKeep
  <2> QED
    BY <2>1, <2>2, <2>3, <2>4, <2>5, <2>6, <2>7, WritersOfWork
    DEF Next, vars, rows, DeletePass, ListPending, StatDeleting, ListObsolete, Unlink, PassDies, ReclaimLost,
        LoseLock, ClearObsoleteAttempts, SweepTemp, SwitchPolicy, RetirePolicy, Trash, Restore, Rot
<1> QED BY <1>1, <1>2, TypeCorrect, PTL DEF Spec

(* No two jobs write the temporary file of one generation of one copy, whoever
   has lost the lock of the source store, stalled past its lease or died
   (AcquireMediaAssetTransferProgress, transferTempPath). *)
THEOREM OneWriterEach == Spec => []OneWriter
<1>1. Writers => OneWriter
  BY DEF Writers, Apart, OneWriter, Writing, Reading
<1> QED BY <1>1, WritersHold, PTL

-----------------------------------------------------------------------------
(* While locks are kept. *)

(* No connection that holds the lock of a source store is lost under its job. *)
LockKept == [][\A s \in Stores : ~LoseLock(s)]_vars

Begun(w) == worker[w].at \notin {"idle", "prepared"}

(* A job past AcquireBandwidth has the lock of the store it does not write to. *)
Holds(w) ==
    LET c == worker[w].copy
        from == worker[w].from
    IN
    /\ worker[w].at # "idle" => copy[c].state # "none" /\ copy[c].store \in Stores
    /\ worker[w].at = "prepared" =>
          /\ from \in Copies /\ copy[from].state # "none"
          /\ copy[from].store \in Stores \ {copy[c].store}
    /\ Begun(w) => \A s \in Stores \ {copy[c].store} : lock[s] = w

Held == \A w \in Workers : Holds(w)

LEMMA OtherStore ==
  ASSUME NEW s \in Stores
  PROVE  \E t \in Stores \ {s} : Stores = {s, t}
BY TransferAssumption

(* The lock leaves a copy one job. *)
LEMMA Alone ==
  ASSUME TypeOK, Held, NEW v \in Workers, NEW w \in Workers, Begun(v), Begun(w),
         worker[v].copy = worker[w].copy
  PROVE  v = w
<1>1. copy[worker[w].copy].store \in Stores
  BY DEF Held, Holds, Begun
<1>2. PICK t \in Stores : t # copy[worker[w].copy].store
  BY <1>1, OtherStore
<1>3. lock[t] = v /\ lock[t] = w
  BY <1>2 DEF Held, Holds
<1> QED BY <1>3

(* What keeps the lock with a job. *)
LEMMA HoldsKeep ==
  ASSUME TypeOK, NEW v \in Workers, Holds(v),
         worker'[v].at # "idle" =>
            /\ worker[v].at # "idle" /\ worker'[v].copy = worker[v].copy
            /\ worker'[v].at = "prepared" =>
                  worker[v].at = "prepared" /\ worker'[v].from = worker[v].from
            /\ Begun(v)' => Begun(v) /\ \A s \in Stores : lock[s] = v => lock'[s] = v,
         \A c \in Copies : copy[c].state # "none" =>
            copy'[c].state # "none" /\ copy'[c].store = copy[c].store
  PROVE  Holds(v)'
<1>1. worker[v].at # "idle" => worker[v].copy \in Copies
  BY DEF TypeOK, JobsOK
<1> QED BY <1>1 DEF Holds, Begun

(* A job that goes on, or ends. *)
LEMMA HeldGoesOn ==
  ASSUME TypeOK, Held, NEW w \in Workers,
         \A v \in Workers \ {w} : worker'[v] = worker[v],
         worker'[w].at # "idle" => Begun(w) /\ Begun(w)' /\ worker'[w].copy = worker[w].copy
                                   /\ UNCHANGED lock,
         \A s \in Stores : \A v \in Workers \ {w} : lock[s] = v => lock'[s] = v,
         \A c \in Copies : copy[c].state # "none" =>
            copy'[c].state # "none" /\ copy'[c].store = copy[c].store
  PROVE  Held'
<1>1. ASSUME NEW v \in Workers \ {w} PROVE Holds(v)'
  BY <1>1, HoldsKeep DEF Held, Begun
<1>2. Holds(w)'
  BY HoldsKeep DEF Held, Begun
<1> QED BY <1>1, <1>2 DEF Held

(* The job goes on with the same copy, or ends. *)
GoesOn(w) ==
    /\ \A v \in Workers \ {w} : worker'[v] = worker[v]
    /\ worker'[w].copy = worker[w].copy
    /\ worker'[w].at \notin {"idle", "prepared"}

LEMMA ToGoesOn ==
  ASSUME TypeOK, NEW w \in Workers,
         \/ \E at \in Steps \ {"idle", "prepared"} : To(w, at)
         \/ \E at \in {"failed", "leave"} : \E saved \in BOOLEAN : Ends(w, at, saved)
  PROVE  GoesOn(w)
<1>1. worker \in [Workers -> Job]
  BY DEF TypeOK, JobsOK
<1>2. ASSUME NEW at \in {"failed", "leave"}, NEW saved, Ends(w, at, saved)
      PROVE  GoesOn(w)
  BY <1>1, <1>2 DEF Ends, GoesOn, Idle
<1>3. ASSUME NEW at \in Steps \ {"idle", "prepared"}, To(w, at)
      PROVE  GoesOn(w)
  <2>1. CASE at \in {"failed", "leave"}
    BY <1>2, <1>3, <2>1 DEF To
  <2>2. CASE at \notin {"failed", "leave"}
    BY <1>1, <1>3, <2>2 DEF To, GoesOn, Job
  <2> QED BY <2>1, <2>2
<1> QED BY <1>2, <1>3

(* Every step past the lock but the last. *)
LEMMA WorkGoesOn ==
  ASSUME TypeOK, NEW w \in Workers,
         \/ AcquireProgress(w) \/ AdoptExistingDestination(w) \/ OpenSlice(w)
         \/ CopyBlock(w) \/ ReadBlock(w) \/ EndSlice(w) \/ ReadFails(w) \/ Publish(w)
         \/ Complete(w) \/ RemoveRefused(w) \/ DiscardPending(w) \/ RemoveTemp(w)
         \/ StartVerification(w) \/ FinishVerification(w) \/ RecordMeasured(w)
         \/ RecordFailure(w) \/ GiveUp(w)
  PROVE  Begun(w) /\ GoesOn(w) /\ UNCHANGED <<lock, pass, torn>>
<1>1. worker \in [Workers -> Job]
  BY DEF TypeOK, JobsOK
<1>2. Begun(w) /\ UNCHANGED <<lock, pass, torn>>
  BY DEF Begun, AcquireProgress, AdoptExistingDestination, OpenSlice, CopyBlock, ReadBlock,
     EndSlice, ReadFails, Publish, Complete, RemoveRefused, DiscardPending, RemoveTemp,
     StartVerification, FinishVerification, RecordMeasured, RecordFailure, GiveUp, world
<1>3. ASSUME AcquireProgress(w) PROVE GoesOn(w)
  <2>1. CASE To(w, "leave")
    BY <2>1, ToGoesOn DEF Steps
  <2> DEFINE old == progress[worker[w].copy]
             next == IF old.verifying THEN "verify" ELSE "look"
  <2>2. \/ To(w, "leave")
        \/ worker' = [worker EXCEPT ![w].at = "look", ![w].generation = 1]
        \/ worker' = [worker EXCEPT ![w].at = next, ![w].resumed = TRUE, ![w].read = old.read,
                ![w].generation = old.generation, ![w].previous = old.generation]
        \/ worker' = [worker EXCEPT ![w].at = next,
                ![w].generation = old.generation + 1, ![w].previous = old.generation]
    BY <1>3 DEF AcquireProgress
  <2>3. next \notin {"idle", "prepared"}
    OBVIOUS
  <2> HIDE DEF next, old
  <2> QED BY <1>1, <2>1, <2>2, <2>3 DEF GoesOn, Job
<1>4. ASSUME AdoptExistingDestination(w) PROVE GoesOn(w)
  <2>1. CASE \E at \in {"open", "measure", "suspect"} : To(w, at)
    BY <2>1, ToGoesOn DEF Steps
  <2>2. CASE ~\E at \in {"open", "measure", "suspect"} : To(w, at)
    BY <1>1, <1>4, <2>2 DEF AdoptExistingDestination, GoesOn, Job
  <2> QED BY <2>1, <2>2
<1>5. ASSUME OpenSlice(w) \/ Publish(w) \/ StartVerification(w) PROVE GoesOn(w)
  <2>1. CASE \E at \in {"failed", "leave"} : To(w, at)
    BY <2>1, ToGoesOn DEF Steps
  <2>2. CASE ~\E at \in {"failed", "leave"} : To(w, at)
    BY <1>1, <1>5, <2>2 DEF OpenSlice, Publish, StartVerification, GoesOn, Job
  <2> QED BY <2>1, <2>2
<1>6. ASSUME CopyBlock(w) PROVE GoesOn(w)
  BY <1>1, <1>6 DEF CopyBlock, GoesOn, Job
<1>8. ASSUME ReadBlock(w) PROVE GoesOn(w)
  BY <1>1, <1>8 DEF ReadBlock, GoesOn, Job
<1>7. ASSUME EndSlice(w) \/ ReadFails(w) \/ Complete(w) \/ RemoveRefused(w) \/ DiscardPending(w)
           \/ RemoveTemp(w) \/ FinishVerification(w) \/ RecordMeasured(w) \/ RecordFailure(w)
           \/ GiveUp(w)
      PROVE  GoesOn(w)
  BY <1>7, ToGoesOn DEF EndSlice, ReadFails, Complete, RemoveRefused, DiscardPending, RemoveTemp,
     FinishVerification, RecordMeasured, RecordFailure, GiveUp, Steps
<1> QED BY <1>2, <1>3, <1>4, <1>5, <1>6, <1>7, <1>8

(* A row stays in its store, and once made it is never unmade. *)
LEMMA RowsStayMade ==
  ASSUME TypeOK, [Next]_vars
  PROVE  \A c \in Copies : copy[c].state # "none" =>
            copy'[c].state # "none" /\ copy'[c].store = copy[c].store
<1> DEFINE Made == \A c \in Copies : copy[c].state # "none" =>
                      copy'[c].state # "none" /\ copy'[c].store = copy[c].store
<1>1. copy \in [Copies -> [store : Stores \cup {None},
                           state : {"none", "pending", "active", "deleting", "deleted"}]]
  BY DEF TypeOK, RowsOK
<1>2. CASE UNCHANGED copy
  BY <1>2
<1>3. ASSUME NEW c, NEW state, state # "none", copy' = [copy EXCEPT ![c].state = state]
      PROVE  Made
  BY <1>1, <1>3
<1>4. ASSUME NEW w \in Workers, NEW s \in Stores, Prepare(w, s)
      PROVE  Made
  BY <1>1, <1>4 DEF Prepare
<1>5. ASSUME NEW w \in Workers, Work(w)
      PROVE  Made
  <2>1. CASE Complete(w)
    <3>1. copy' = [copy EXCEPT ![worker[w].copy].state = "active"] \/ UNCHANGED copy
      BY <2>1 DEF Complete
    <3> QED BY <1>2, <1>3, <3>1
  <2>2. CASE DiscardPending(w)
    <3>1. copy' = [copy EXCEPT ![worker[w].copy].state = "deleted"] \/ UNCHANGED copy
      BY <2>2 DEF DiscardPending
    <3> QED BY <1>2, <1>3, <3>1
  <2> QED BY <1>4, <1>5, <2>1, <2>2
      DEF Work, AcquireBandwidth, AcquireProgress, AdoptExistingDestination, OpenSlice, CopyBlock,
          ReadBlock, EndSlice, ReadFails, Publish, RemoveRefused, RemoveTemp, StartVerification,
          FinishVerification, RecordMeasured, RecordFailure, Leave, GiveUp, rows
<1>6. ASSUME NEW s \in Stores, DeletePass(s)
      PROVE  Made
  <2>1. ASSUME NEW want \in Stores, MarkCopyDeleting(s, want) PROVE Made
    BY <1>3, <2>1 DEF MarkCopyDeleting
  <2>2. CASE MarkDeleted(s) \/ RevertToActive(s) \/ ReclaimObsolete(s)
    BY <1>3, <2>2 DEF MarkDeleted, RevertToActive, ReclaimObsolete
  <2> QED BY <1>6, <2>1, <2>2 DEF DeletePass, ListPending, StatDeleting, ListObsolete, Unlink, rows
<1>7. CASE ~\E w \in Workers : Work(w)
  <2>1. CASE ~\E s \in Stores : DeletePass(s)
    BY <1>7, <2>1
    DEF Next, vars, rows, Stall, Crash, PassDies, ReclaimLost, LoseLock, ClearObsoleteAttempts,
        LeaseExpires, SweepTemp, SwitchPolicy, RetirePolicy, Trash, Restore, Rot
  <2> QED BY <1>6, <2>1
<1> QED BY <1>5, <1>7

(* Leaving, or dying, gives back one's own locks only. *)
LEMMA LocksOfOthers ==
  ASSUME TypeOK, NEW w \in Workers,
         lock' = [s \in Stores |-> IF lock[s] = w THEN None ELSE lock[s]]
  PROVE  \A s \in Stores : \A v \in Workers \ {w} : lock[s] = v => lock'[s] = v
OBVIOUS

LEMMA HeldOfWork ==
  ASSUME TypeOK, Held, NEW w \in Workers, Work(w), [Next]_vars
  PROVE  Held'
<1> DEFINE c == worker[w].copy
<1>1. worker \in [Workers -> Job] /\ lock \in [Stores -> Workers \cup {None}] /\ None \notin Workers
  BY NoneAssumption DEF TypeOK, JobsOK, WorldOK
<1>2. copy \in [Copies -> [store : Stores \cup {None},
                           state : {"none", "pending", "active", "deleting", "deleted"}]]
  BY DEF TypeOK, RowsOK
<1>3. \A b \in Copies : copy[b].state # "none" =>
            copy'[b].state # "none" /\ copy'[b].store = copy[b].store
  BY RowsStayMade
<1>4. ASSUME NEW want \in Stores, Prepare(w, want) PROVE Held'
  <2>1. PICK t \in Stores \ {want} : \E from \in In(t, {"active"}) : \E b \in Copies :
          /\ \/ b \in In(want, {"pending"}) /\ UNCHANGED copy
             \/ copy[b].state = "none" /\ copy' = [copy EXCEPT ![b] = [store |-> want, state |-> "pending"]]
          /\ worker' = [worker EXCEPT ![w].at = "prepared", ![w].want = want, ![w].copy = b,
                                          ![w].from = from, ![w].sha = sha]
    BY <1>4 DEF Prepare
  <2>a. PICK from \in In(t, {"active"}) : \E b \in Copies :
          /\ \/ b \in In(want, {"pending"}) /\ UNCHANGED copy
             \/ copy[b].state = "none" /\ copy' = [copy EXCEPT ![b] = [store |-> want, state |-> "pending"]]
          /\ worker' = [worker EXCEPT ![w].at = "prepared", ![w].want = want, ![w].copy = b,
                                          ![w].from = from, ![w].sha = sha]
    BY <2>1
  <2>b. PICK b \in Copies :
          /\ \/ b \in In(want, {"pending"}) /\ UNCHANGED copy
             \/ copy[b].state = "none" /\ copy' = [copy EXCEPT ![b] = [store |-> want, state |-> "pending"]]
          /\ worker' = [worker EXCEPT ![w].at = "prepared", ![w].want = want, ![w].copy = b,
                                          ![w].from = from, ![w].sha = sha]
    BY <2>a
  <2>2. /\ worker'[w].at = "prepared" /\ worker'[w].copy = b /\ worker'[w].from = from
        /\ \A v \in Workers \ {w} : worker'[v] = worker[v]
    BY <1>1, <2>b DEF Job
  <2>3. from \in Copies /\ copy[from].state = "active" /\ copy[from].store = t
    BY DEF In
  <2>4. copy'[b].state = "pending" /\ copy'[b].store = want
    BY <1>2, <2>b DEF In
  <2>5. copy'[from].state # "none" /\ copy'[from].store = t
    BY <1>3, <2>3
  <2>6. Holds(w)'
    BY <2>2, <2>3, <2>4, <2>5 DEF Holds, Begun
  <2>7. ASSUME NEW v \in Workers \ {w} PROVE Holds(v)'
    BY <1>3, <1>4, <2>2, <2>7, HoldsKeep DEF Held, Begun, Prepare
  <2> QED BY <2>6, <2>7 DEF Held
<1>5. ASSUME AcquireBandwidth(w) PROVE Held'
  <2> DEFINE s == Source(w)
  <2>1. /\ worker[w].at = "prepared" /\ UNCHANGED copy /\ s \in Stores \ {copy[c].store}
        /\ Holds(w)
    BY <1>5 DEF AcquireBandwidth, rows, Held, Holds, Source
  <2>2. CASE lock[s] = None /\ lock' = [lock EXCEPT ![s] = w] /\ To(w, "locked")
    <3>1. /\ worker'[w].at = "locked" /\ worker'[w].copy = c
          /\ \A v \in Workers \ {w} : worker'[v] = worker[v]
      BY <1>1, <2>2 DEF To, Job
    <3>2. ASSUME NEW v \in Workers \ {w} PROVE Holds(v)'
      <4>1. \A t \in Stores : lock[t] = v => lock'[t] = v
        BY <1>1, <2>1, <2>2
      <4> QED BY <1>3, <3>1, <4>1, HoldsKeep DEF Held, Begun
    <3>3. \A t \in Stores \ {copy[c].store} : lock'[t] = w
      <4>1. copy[c].store \in Stores
        BY <2>1 DEF Holds
      <4>2. \A t \in Stores : t = s \/ t = copy[c].store
        BY <2>1, <4>1, OtherStore
      <4> QED BY <1>1, <2>1, <2>2, <4>2
    <3>4. Holds(w)'
      BY <2>1, <3>1, <3>3 DEF Holds, Begun
    <3> QED BY <3>2, <3>4 DEF Held
  <2>3. CASE worker' = [worker EXCEPT ![w] = Idle] /\ UNCHANGED lock
    <3>1. worker'[w].at = "idle" /\ \A v \in Workers \ {w} : worker'[v] = worker[v]
      BY <1>1, <2>3 DEF Idle
    <3> QED BY <1>3, <2>3, <3>1, HeldGoesOn
  <2> QED BY <1>5, <2>2, <2>3 DEF AcquireBandwidth
<1>6. ASSUME Leave(w) PROVE Held'
  <2>1. worker'[w].at = "idle" /\ \A v \in Workers \ {w} : worker'[v] = worker[v]
    BY <1>1, <1>6 DEF Leave, Idle
  <2>2. \A s \in Stores : \A v \in Workers \ {w} : lock[s] = v => lock'[s] = v
    BY <1>6, LocksOfOthers DEF Leave
  <2> QED BY <1>3, <2>1, <2>2, HeldGoesOn
<1>7. ASSUME ~(AcquireBandwidth(w) \/ Leave(w) \/ \E want \in Stores : Prepare(w, want))
      PROVE  Held'
  <2>1. Begun(w) /\ GoesOn(w) /\ UNCHANGED lock
    BY <1>7, WorkGoesOn DEF Work
  <2>2. Begun(w)'
    BY <2>1 DEF GoesOn, Begun
  <2> QED BY <1>3, <2>1, <2>2, HeldGoesOn DEF GoesOn
<1> QED BY <1>4, <1>5, <1>6, <1>7

LEMMA HeldStep ==
  ASSUME TypeOK, Held, [Next]_vars, [\A s \in Stores : ~LoseLock(s)]_vars
  PROVE  Held'
<1>1. worker \in [Workers -> Job]
  BY DEF TypeOK, JobsOK
<1>2. \A b \in Copies : copy[b].state # "none" =>
            copy'[b].state # "none" /\ copy'[b].store = copy[b].store
  BY RowsStayMade
<1>3. ASSUME UNCHANGED <<worker, lock>> PROVE Held'
  BY <1>2, <1>3, HoldsKeep DEF Held, Begun
<1>4. ASSUME NEW w \in Workers, Stall(w) PROVE Held'
  <2>1. \A v \in Workers : worker'[v].at = worker[v].at /\ worker'[v].copy = worker[v].copy
                           /\ worker'[v].from = worker[v].from
    BY <1>1, <1>4 DEF Stall, Job
  <2> QED BY <1>2, <1>4, <2>1, HoldsKeep DEF Held, Begun, Stall
<1>5. ASSUME NEW w \in Workers, Crash(w) PROVE Held'
  <2>1. worker'[w].at = "idle" /\ \A v \in Workers \ {w} : worker'[v] = worker[v]
    BY <1>1, <1>5 DEF Crash, Idle
  <2>2. \A s \in Stores : \A v \in Workers \ {w} : lock[s] = v => lock'[s] = v
    BY <1>5, LocksOfOthers DEF Crash
  <2> QED BY <1>2, <2>1, <2>2, HeldGoesOn
<1>6. CASE UNCHANGED vars
  BY <1>3, <1>6 DEF vars
<1> QED
  BY <1>3, <1>4, <1>5, <1>6, HeldOfWork
  DEF Next, DeletePass, MarkCopyDeleting, ListPending, StatDeleting, ListObsolete, Unlink, MarkDeleted,
      RevertToActive, ReclaimObsolete, PassDies, ReclaimLost, ClearObsoleteAttempts, LeaseExpires,
      SweepTemp, SwitchPolicy, RetirePolicy, Trash, Restore, Rot, world

LEMMA LocksAreHeld == Spec /\ LockKept => []Held
<1>1. Init => Held
  BY DEF Init, Held, Holds, Begun, Idle
<1>2. TypeOK /\ Held /\ [Next]_vars /\ [\A s \in Stores : ~LoseLock(s)]_vars => Held'
  BY HeldStep
<1> QED BY <1>1, <1>2, TypeCorrect, PTL DEF Spec, LockKept

-----------------------------------------------------------------------------
(* Files and what is known of them, while locks are kept. *)

Working == {"look", "open", "copy", "measure", "verify", "complete", "unlike", "stale", "discard",
            "suspect"}

(* What the job has of a row that still waits for it. *)
FileTrue(w) ==
    LET j == worker[w]
        c == j.copy
    IN
    /\ j.at \in {"look", "open"} /\ j.resumed /\ dest[c] = None =>
          j.generation \in temp[c] /\ inode[c][j.generation] = j.read
    /\ j.at = "copy" => j.generation \in temp[c] /\ inode[c][j.generation] = j.read
    /\ j.at = "measure" => dest[c] # None
    /\ j.at = "complete" => dest[c] # None /\ inode[c][dest[c]] = j.read

(* A job at work is the one the lease was last given to. *)
JobTrue(w) ==
    LET j == worker[w]
        c == j.copy
    IN
    /\ j.sha # None => Whole(j.sha)
    /\ j.at \in {"idle", "prepared", "locked"} => ~j.resumed
    /\ j.at = "complete" => Whole(j.read)
    /\ j.at \in Working \cup {"tidy"} /\ progress[c] # None => ~progress[c].handed
    /\ j.at \in Working =>
          /\ copy[c].state \in {"pending", "deleted"}
          /\ copy[c].state = "pending" =>
                progress[c] # None /\ progress[c].generation = j.generation
          /\ j.at \in {"open", "copy"} => dest[c] = None
          /\ j.at = "verify" /\ progress[c] # None => progress[c].verifying
          /\ copy[c].state = "pending" /\ c \notin torn => FileTrue(w)

Intact(c) ==
    /\ dest[c] # None
    /\ Whole(inode[c][dest[c]])
    /\ c # 1 => inode[c][dest[c]] = sha

Handover(c) ==
    progress[c] # None /\ progress[c].handed /\ ~progress[c].verifying /\ dest[c] = None =>
       /\ progress[c].generation \in temp[c]
       /\ inode[c][progress[c].generation] = progress[c].read

RowTrue(c) ==
    /\ c = 1 => copy[c].state \notin {"none", "pending"}
    /\ progress[c] # None => copy[c].state = "pending"
    /\ c \notin torn =>
          /\ copy[c].state = "active" => Intact(c)
          /\ copy[c].state = "deleting" /\ dest[c] # None => Intact(c)
          /\ Handover(c)

(* A pass that has a row in deleting is the only one to have it. *)
PassTrue(s) ==
    LET c == pass[s].copy IN
    pass[s].step \in {"unlink", "unlinked", "revert"} =>
       /\ copy[c].state = "deleting" /\ copy[c].store = s
       /\ pass[s].step = "revert" /\ c \notin torn => dest[c] # None

ShaTrue == sha # None => Whole(sha)

Inv ==
    /\ \A w \in Workers : JobTrue(w)
    /\ \A c \in Copies : RowTrue(c)
    /\ \A s \in Stores : PassTrue(s)
    /\ ShaTrue

-----------------------------------------------------------------------------
(* What leaves them true. *)

(* The same lease, whoever has it and whether it has run out. *)
SameSave(c) ==
    \/ progress[c] = None /\ progress'[c] = None
    \/ /\ progress[c] # None /\ progress'[c] # None
       /\ progress'[c].generation = progress[c].generation /\ progress'[c].read = progress[c].read
       /\ progress'[c].handed = progress[c].handed /\ progress'[c].verifying = progress[c].verifying

SameJob(v) ==
    /\ worker'[v].at = worker[v].at /\ worker'[v].copy = worker[v].copy
    /\ worker'[v].sha = worker[v].sha /\ worker'[v].generation = worker[v].generation
    /\ worker'[v].resumed = worker[v].resumed /\ worker'[v].read = worker[v].read

(* The row of a job that is not the one who acts: it stays, or is given up. *)
LEMMA JobKeeps ==
  ASSUME NEW v \in Workers, JobTrue(v), SameJob(v), torn \subseteq torn',
         LET c == worker[v].copy
             g == worker[v].generation
         IN worker[v].at \in Working \cup {"tidy"} =>
            /\ progress'[c] = None \/ SameSave(c)
            /\ copy'[c].state = copy[c].state \/ copy'[c].state = "deleted" \/ worker[v].at = "tidy"
            /\ copy'[c].state = "pending" => SameSave(c)
            /\ dest[c] = None => dest'[c] = None
            /\ copy'[c].state = "pending" /\ c \notin torn' =>
                  /\ inode'[c] = inode[c] /\ dest'[c] = dest[c]
                  /\ g \in temp[c] => g \in temp'[c]
  PROVE  JobTrue(v)'
<1> DEFINE c == worker[v].copy
           j == worker[v]
<1>1. CASE j.at \notin Working \cup {"tidy"}
  BY <1>1 DEF JobTrue, SameJob, Working, Whole
<1>2. CASE j.at = "tidy"
  BY <1>2 DEF JobTrue, SameJob, SameSave, Working, Whole
<1>3. CASE j.at \in Working
  <2>1. /\ copy'[c].state \in {"pending", "deleted"}
        /\ copy'[c].state = "pending" => copy[c].state = "pending"
    BY <1>3 DEF JobTrue, Working
  <2>2. ASSUME progress'[c] # None
        PROVE  progress[c] # None /\ progress'[c].handed = progress[c].handed
               /\ progress'[c].verifying = progress[c].verifying
               /\ progress'[c].generation = progress[c].generation
    BY <1>3, <2>2 DEF SameSave
  <2>3. copy'[c].state = "pending" =>
          progress'[c] # None /\ progress'[c].generation = j.generation
    BY <1>3, <2>1 DEF JobTrue, SameSave
  <2>4. ASSUME copy'[c].state = "pending", c \notin torn'
        PROVE  FileTrue(v) /\ inode'[c] = inode[c] /\ dest'[c] = dest[c]
               /\ (j.generation \in temp[c] => j.generation \in temp'[c])
    BY <1>3, <2>1, <2>4 DEF JobTrue
  <2>5. ASSUME copy'[c].state = "pending", c \notin torn'
        PROVE  FileTrue(v)'
    BY <2>4, <2>5 DEF FileTrue, SameJob, Whole
  <2> QED BY <1>3, <2>1, <2>2, <2>3, <2>5 DEF JobTrue, SameJob, Whole
<1> QED BY <1>1, <1>2, <1>3

LEMMA RowKeeps ==
  ASSUME TypeOK, NEW c \in Copies, RowTrue(c), torn \subseteq torn',
         copy'[c].state = copy[c].state, dest'[c] = dest[c],
         c \notin torn' => inode'[c] = inode[c],
         sha # None => sha' = sha,
         progress'[c] # None =>
            /\ progress[c] # None
            /\ progress'[c].handed => SameSave(c)
               /\ (progress[c].generation \in temp[c] => progress[c].generation \in temp'[c])
  PROVE  RowTrue(c)'
<1>1. inode[c][dest[c]] = sha /\ dest[c] # None => sha # None
  BY NoneAssumption DEF TypeOK, FilesOK
<1>2. c \notin torn' /\ Intact(c) => Intact(c)'
  BY <1>1 DEF Intact, Whole
<1>3. c \notin torn' /\ Handover(c) => Handover(c)'
  BY DEF Handover, SameSave
<1> QED BY <1>2, <1>3 DEF RowTrue

LEMMA PassKeeps ==
  ASSUME NEW s \in Stores, PassTrue(s), pass'[s] = pass[s], torn \subseteq torn',
         LET c == pass[s].copy IN
         copy[c].state = "deleting" /\ copy[c].store = s =>
            copy'[c] = copy[c] /\ dest'[c] = dest[c]
  PROVE  PassTrue(s)'
BY DEF PassTrue

(* A job that acts on its own copy, which is no other's. *)
LEMMA OwnStep ==
  ASSUME TypeOK, Held, Inv, NEW w \in Workers, Begun(w), NEW c \in Copies, c = worker[w].copy,
         \A v \in Workers \ {w} : worker'[v] = worker[v],
         UNCHANGED <<pass, torn>>,
         \A b \in Copies \ {c} :
            /\ copy'[b] = copy[b] /\ progress'[b] = progress[b]
            /\ inode'[b] = inode[b] /\ temp'[b] = temp[b] /\ dest'[b] = dest[b],
         copy[c].state = "deleting" => copy'[c] = copy[c] /\ dest'[c] = dest[c],
         sha # None => sha' = sha, ShaTrue',
         JobTrue(w)', RowTrue(c)'
  PROVE  Inv'
<1>1. ASSUME NEW v \in Workers \ {w} PROVE JobTrue(v)'
  <2>1. JobTrue(v) /\ SameJob(v)
    BY DEF Inv, SameJob
  <2>2. CASE worker[v].at \in Working \cup {"tidy"}
    <3>1. worker[v].copy # c
      BY <2>2, Alone DEF Begun, Working
    <3>2. worker[v].copy \in Copies \ {c}
      BY <2>2, <3>1 DEF TypeOK, JobsOK, Working
    <3>3. LET b == worker[v].copy IN
          /\ copy'[b] = copy[b] /\ SameSave(b)
          /\ inode'[b] = inode[b] /\ temp'[b] = temp[b] /\ dest'[b] = dest[b]
      BY <3>2 DEF SameSave
    <3>4. torn \subseteq torn'
      OBVIOUS
    <3> QED BY <2>1, <3>3, <3>4, JobKeeps
  <2>3. CASE worker[v].at \notin Working \cup {"tidy"}
    BY <2>1, <2>3 DEF JobTrue, SameJob, Whole, Working
  <2> QED BY <2>2, <2>3
<1>2. ASSUME NEW b \in Copies \ {c} PROVE RowTrue(b)'
  BY RowKeeps DEF Inv, SameSave
<1>3. ASSUME NEW s \in Stores PROVE PassTrue(s)'
  <2> DEFINE b == pass[s].copy
  <2>1. pass[s].step \in {"unlink", "unlinked", "revert"} => b \in Copies
    BY DEF TypeOK, PassesOK
  <2>2. pass[s].step \in {"unlink", "unlinked", "revert"} /\ copy[b].state = "deleting" =>
           copy'[b] = copy[b] /\ dest'[b] = dest[b]
    BY <2>1
  <2>3. PassTrue(s)
    BY DEF Inv
  <2>4. pass[s].step \in {"unlink", "unlinked", "revert"} =>
           copy'[b] = copy[b] /\ dest'[b] = dest[b]
    BY <2>2, <2>3 DEF PassTrue
  <2> QED BY <2>3, <2>4 DEF PassTrue
<1>4. \A v \in Workers : JobTrue(v)'
  BY <1>1
<1>5. \A b \in Copies : RowTrue(b)'
  BY <1>2
<1> QED BY <1>3, <1>4, <1>5 DEF Inv

(* Rows and files stay as they are; leases may change hands or run out. *)
LEMMA QuietStep ==
  ASSUME TypeOK, Inv, UNCHANGED <<copy, inode, temp, dest, pass, torn>>,
         \A c \in Copies : SameSave(c),
         sha' = sha,
         \A v \in Workers : SameJob(v) \/ JobTrue(v)'
  PROVE  Inv'
<1>1. ASSUME NEW v \in Workers PROVE JobTrue(v)'
  <2>1. worker[v].at \in Working \cup {"tidy"} => worker[v].copy \in Copies
    BY DEF TypeOK, JobsOK, Working
  <2> QED BY <2>1, JobKeeps DEF Inv
<1>2. ASSUME NEW c \in Copies PROVE RowTrue(c)'
  BY RowKeeps DEF Inv, SameSave
<1>3. ASSUME NEW s \in Stores PROVE PassTrue(s)'
  BY PassKeeps DEF Inv
<1> QED BY <1>1, <1>2, <1>3 DEF Inv, ShaTrue, Whole

(* What a job that ends still says. *)
LEMMA EndedIsTrue ==
  ASSUME NEW w \in Workers, worker'[w].at \in {"idle", "prepared", "locked", "failed", "leave"},
         worker'[w].at \in {"idle", "prepared", "locked"} => ~worker'[w].resumed,
         worker'[w].sha # None => Whole(worker'[w].sha)
  PROVE  JobTrue(w)'
BY DEF JobTrue, Working, Whole

(* Steps of the bounded world, and those that only read or mark. *)
LEMMA AroundKeeps ==
  ASSUME TypeOK, Inv,
         \/ UNCHANGED vars
         \/ SwitchPolicy \/ RetirePolicy \/ Trash \/ Restore
         \/ \E c \in Copies : LeaseExpires(c)
         \/ \E s \in Stores : ClearObsoleteAttempts(s)
         \/ \E w \in Workers : Stall(w) \/ Crash(w)
  PROVE  Inv'
<1>1. worker \in [Workers -> Job] /\ progress \in [Copies -> Progress \cup {None}]
      /\ None \notin Progress
  BY NoneAssumption DEF TypeOK, JobsOK, RowsOK
<1>2. ASSUME UNCHANGED <<copy, sha, progress, files, worker, pass, torn>> PROVE Inv'
  BY <1>2, QuietStep DEF files, SameSave, SameJob
<1>3. ASSUME NEW c \in Copies, LeaseExpires(c) PROVE Inv'
  <2>1. \A b \in Copies : SameSave(b)
    BY <1>1, <1>3 DEF LeaseExpires, SameSave, Progress
  <2> QED BY <1>3, <2>1, QuietStep DEF LeaseExpires, files, world, SameJob
<1>4. ASSUME NEW w \in Workers, Stall(w) PROVE Inv'
  <2>1. \A v \in Workers : SameJob(v)
    BY <1>1, <1>4 DEF Stall, SameJob, Job
  <2> QED BY <1>4, <2>1, QuietStep DEF Stall, rows, files, world, SameSave
<1>5. ASSUME NEW w \in Workers, Crash(w) PROVE Inv'
  <2>1. worker'[w] = Idle /\ \A v \in Workers \ {w} : SameJob(v)
    BY <1>1, <1>5 DEF Crash, SameJob
  <2>2. JobTrue(w)'
    BY <2>1, EndedIsTrue DEF Idle
  <2>3. \A c \in Copies : progress'[c] = IF progress[c] # None /\ progress[c].owner = w
                                         THEN [progress[c] EXCEPT !.owner = None] ELSE progress[c]
    BY <1>5 DEF Crash
  <2>4. ASSUME NEW p \in Progress
        PROVE  LET q == [p EXCEPT !.owner = None] IN
               /\ q.generation = p.generation /\ q.read = p.read /\ q.handed = p.handed
               /\ q.verifying = p.verifying /\ q.owner = None
    BY DEF Progress
  <2>5. ASSUME NEW p \in Progress PROVE [p EXCEPT !.owner = None] # None
    BY <2>4, NoneAssumption DEF Progress
  <2>6. \A c \in Copies : SameSave(c)
    BY <1>1, <2>3, <2>4, <2>5 DEF SameSave
  <2> QED BY <1>5, <2>1, <2>2, <2>6, QuietStep DEF Crash, files, world
<1>6. ASSUME NEW s \in Stores, ClearObsoleteAttempts(s) PROVE Inv'
  BY <1>2, <1>6 DEF ClearObsoleteAttempts, world
<1>7. ASSUME UNCHANGED vars \/ SwitchPolicy \/ RetirePolicy \/ Trash \/ Restore PROVE Inv'
  BY <1>2, <1>7 DEF vars, rows, world, SwitchPolicy, RetirePolicy, Trash, Restore
<1> QED BY <1>3, <1>4, <1>5, <1>6, <1>7

-----------------------------------------------------------------------------
(* Jobs. *)

LEMMA OwnFacts ==
  ASSUME TypeOK, NEW w \in Workers, Begun(w)
  PROVE  LET c == worker[w].copy IN
         /\ c \in Copies /\ worker[w] \in Job
         /\ worker[w].generation \in Generations /\ worker[w].read \in Blocks
         /\ worker[w].generation # None
         /\ progress[c] \in Progress \cup {None}
         /\ temp[c] \in SUBSET Generations /\ inode[c] \in [Generations -> Blocks]
         /\ dest[c] \in Generations \cup {None}
BY NoneAssumption DEF TypeOK, JobsOK, RowsOK, FilesOK, Job, Begun

(* Where a job goes. *)
LEMMA ToStep ==
  ASSUME TypeOK, NEW w \in Workers, NEW at \in Steps \ {"failed", "leave"}, To(w, at)
  PROVE  /\ worker'[w].at = at /\ worker'[w].copy = worker[w].copy
         /\ worker'[w].sha = worker[w].sha /\ worker'[w].generation = worker[w].generation
         /\ worker'[w].resumed = worker[w].resumed /\ worker'[w].read = worker[w].read
         /\ \A v \in Workers \ {w} : worker'[v] = worker[v]
BY DEF To, TypeOK, JobsOK, Job

LEMMA EndStep ==
  ASSUME TypeOK, NEW w \in Workers,
         \/ \E at \in {"failed", "leave"} : To(w, at)
         \/ \E at \in {"failed", "leave"} : \E saved \in BOOLEAN : Ends(w, at, saved)
         \/ worker' = [worker EXCEPT ![w] = Idle]
  PROVE  /\ JobTrue(w)' /\ worker'[w].at \in {"idle", "failed", "leave"}
         /\ \A v \in Workers \ {w} : worker'[v] = worker[v]
<1>1. worker \in [Workers -> Job]
  BY DEF TypeOK, JobsOK
<1>2. ASSUME NEW at \in {"failed", "leave"}, NEW saved, Ends(w, at, saved)
      PROVE  /\ worker'[w].at = at /\ worker'[w].sha = None
             /\ \A v \in Workers \ {w} : worker'[v] = worker[v]
  BY <1>1, <1>2 DEF Ends, Idle
<1>3. ASSUME worker' = [worker EXCEPT ![w] = Idle]
      PROVE  /\ worker'[w].at = "idle" /\ worker'[w].sha = None /\ ~worker'[w].resumed
             /\ \A v \in Workers \ {w} : worker'[v] = worker[v]
  BY <1>1, <1>3 DEF Idle
<1>4. /\ worker'[w].at \in {"idle", "failed", "leave"} /\ worker'[w].sha = None
      /\ worker'[w].at = "idle" => ~worker'[w].resumed
      /\ \A v \in Workers \ {w} : worker'[v] = worker[v]
  BY <1>2, <1>3 DEF To
<1> QED BY <1>4, EndedIsTrue

(* A row that waits, or is given up, with nothing handed over. *)
LEMMA WaitingRow ==
  ASSUME Inv, NEW c \in Copies, copy'[c].state \in {"pending", "deleted"},
         copy'[c].state = "pending" => copy[c].state = "pending",
         progress'[c] # None => copy'[c].state = "pending" /\ ~progress'[c].handed
  PROVE  RowTrue(c)'
BY DEF Inv, RowTrue, Handover

LEMMA PrepareKeeps ==
  ASSUME TypeOK, Held, Inv, NEW w \in Workers, NEW want \in Stores, Prepare(w, want)
  PROVE  Inv'
<1>1. /\ worker \in [Workers -> Job]
      /\ copy \in [Copies -> [store : Stores \cup {None},
                           state : {"none", "pending", "active", "deleting", "deleted"}]]
  BY DEF TypeOK, JobsOK, RowsOK
<1>2. PICK from, c \in Copies :
          /\ \/ UNCHANGED copy
             \/ copy[c].state = "none" /\ copy' = [copy EXCEPT ![c] = [store |-> want, state |-> "pending"]]
          /\ worker' = [worker EXCEPT ![w].at = "prepared", ![w].want = want, ![w].copy = c,
                                          ![w].from = from, ![w].sha = sha]
  BY DEF Prepare, In
<1>3. /\ worker'[w].at = "prepared" /\ worker'[w].sha = sha
      /\ worker'[w].resumed = worker[w].resumed
      /\ \A v \in Workers \ {w} : worker'[v] = worker[v]
  BY <1>1, <1>2 DEF Job
<1>4. worker[w].at = "idle" /\ ~worker[w].resumed
  BY DEF Prepare, Inv, JobTrue
<1>5. JobTrue(w)'
  BY <1>3, <1>4, EndedIsTrue DEF Inv, ShaTrue
<1>6. CASE UNCHANGED copy
  BY <1>3, <1>5, <1>6, QuietStep DEF Prepare, files, world, SameSave, SameJob
<1>7. CASE copy[c].state = "none" /\ copy' = [copy EXCEPT ![c] = [store |-> want, state |-> "pending"]]
  <2>1. /\ \A b \in Copies \ {c} : copy'[b] = copy[b]
        /\ UNCHANGED <<sha, progress, inode, temp, dest, torn, pass>>
    BY <1>1, <1>7 DEF Prepare, files, world
  <2>2. ASSUME NEW v \in Workers \ {w} PROVE JobTrue(v)'
    <3>1. JobTrue(v) /\ SameJob(v)
      BY <1>3 DEF Inv, SameJob
    <3>2. worker[v].at \in Working \cup {"tidy"} =>
             worker[v].copy \in Copies /\ copy[worker[v].copy].state # "none"
      BY DEF Held, Holds, Working, TypeOK, JobsOK
    <3>3. worker[v].at \in Working \cup {"tidy"} => copy'[worker[v].copy] = copy[worker[v].copy]
      BY <1>7, <2>1, <3>2
    <3>4. SameSave(worker[v].copy)
      BY <2>1 DEF SameSave
    <3> QED BY <2>1, <3>1, <3>3, <3>4, JobKeeps
  <2>3. ASSUME NEW b \in Copies \ {c} PROVE RowTrue(b)'
    BY <2>1, RowKeeps DEF Inv, SameSave
  <2>4. copy'[c].state = "pending" /\ c # 1 /\ progress'[c] = None
    BY <1>1, <1>7, <2>1 DEF Inv, RowTrue
  <2>5. RowTrue(c)'
    BY <2>4 DEF RowTrue, Handover
  <2>6. ASSUME NEW s \in Stores PROVE PassTrue(s)'
    <3>1. pass[s].step \in {"unlink", "unlinked", "revert"} => pass[s].copy \in Copies \ {c}
      BY <1>7 DEF Inv, PassTrue, TypeOK, PassesOK
    <3>2. PassTrue(s)
      BY DEF Inv
    <3> QED BY <2>1, <3>1, <3>2 DEF PassTrue
  <2> QED BY <1>5, <2>1, <2>2, <2>3, <2>5, <2>6 DEF Inv, ShaTrue, Whole
<1> QED BY <1>2, <1>6, <1>7

LEMMA AcquireBandwidthKeeps ==
  ASSUME TypeOK, Inv, NEW w \in Workers, AcquireBandwidth(w)
  PROVE  Inv'
<1>1. /\ JobTrue(w)' /\ \A v \in Workers \ {w} : worker'[v] = worker[v]
  <2>1. CASE To(w, "locked")
    <3>1. JobTrue(w) /\ worker[w].at = "prepared"
      BY DEF Inv, AcquireBandwidth
    <3> QED BY <2>1, <3>1, ToStep, EndedIsTrue DEF Steps, JobTrue
  <2>2. CASE worker' = [worker EXCEPT ![w] = Idle]
    BY <2>2, EndStep
  <2> QED BY <2>1, <2>2 DEF AcquireBandwidth
<1> QED BY <1>1, QuietStep DEF AcquireBandwidth, rows, files, world, SameSave, SameJob

(* Steps that leave everything but the job alone, and end it. *)
LEMMA EndingKeeps ==
  ASSUME TypeOK, Inv, NEW w \in Workers,
         \E at \in {"failed", "leave"} : To(w, at),
         UNCHANGED <<copy, sha, progress, files, pass, torn>>
  PROVE  Inv'
<1>1. JobTrue(w)' /\ \A v \in Workers \ {w} : worker'[v] = worker[v]
  BY EndStep
<1> QED BY <1>1, QuietStep DEF files, SameSave, SameJob

(* A claim: nothing is handed over any more, and what was is in hand. *)
LEMMA AcquireProgressKeeps ==
  ASSUME TypeOK, Held, Inv, NEW w \in Workers, AcquireProgress(w),
         NEW c \in Copies, c = worker[w].copy
  PROVE  Inv'
<1> DEFINE old == progress[c]
           next == IF old.verifying THEN "verify" ELSE "look"
           p(generation, read, verifying) ==
              [owner |-> w, live |-> TRUE, generation |-> generation,
               handed |-> FALSE, read |-> read, verifying |-> verifying]
<1>1. /\ worker \in [Workers -> Job] /\ progress \in [Copies -> Progress \cup {None}]
      /\ None \notin Progress
  BY NoneAssumption DEF TypeOK, JobsOK, RowsOK
<1>2. /\ worker[w].at = "locked" /\ Begun(w) /\ c \in Copies
      /\ UNCHANGED <<copy, sha, inode, temp, dest, pass, torn>>
  BY OwnFacts DEF AcquireProgress, files, world, Begun
<1>3. JobTrue(w) /\ RowTrue(c)
  BY <1>2 DEF Inv
<1>4. ASSUME To(w, "leave"), UNCHANGED progress PROVE Inv'
  BY <1>2, <1>4, EndingKeeps DEF files
<1>5. ASSUME NEW q \in Progress, copy[c].state = "pending", ~q.handed,
             progress' = [progress EXCEPT ![c] = q],
             worker'[w].at = (IF q.verifying THEN "verify" ELSE "look"),
             worker'[w].copy = c, worker'[w].sha = worker[w].sha,
             worker'[w].generation = q.generation,
             \A v \in Workers \ {w} : worker'[v] = worker[v],
             ~q.verifying /\ worker'[w].resumed /\ dest[c] = None /\ c \notin torn =>
                /\ q.generation \in temp[c] /\ inode[c][q.generation] = q.read
                /\ worker'[w].read = q.read
      PROVE  Inv'
  <2>1. /\ progress'[c] = q /\ progress'[c] # None
        /\ \A b \in Copies \ {c} : progress'[b] = progress[b]
    BY <1>1, <1>2, <1>5
  <2>2. copy'[c].state = "pending"
    BY <1>2, <1>5
  <2>3. c \notin torn => FileTrue(w)'
    BY <1>2, <1>5 DEF FileTrue
  <2>4. JobTrue(w)'
    BY <1>2, <1>3, <1>5, <2>1, <2>2, <2>3 DEF JobTrue, Working, Whole
  <2>5. RowTrue(c)'
    BY <1>2, <1>5, <2>1, <2>2, WaitingRow
  <2>6. ShaTrue'
    BY <1>2 DEF Inv, ShaTrue, Whole
  <2> QED BY <1>2, <1>5, <2>1, <2>4, <2>5, <2>6, OwnStep
<1>6. CASE /\ old = None /\ copy[c].state = "pending"
           /\ progress' = [progress EXCEPT ![c] = p(1, <<>>, FALSE)]
           /\ worker' = [worker EXCEPT ![w].at = "look", ![w].generation = 1]
  <2> DEFINE q == p(1, <<>>, FALSE)
  <2>1. /\ q \in Progress /\ ~q.handed /\ q.generation = 1 /\ q.read = <<>>
        /\ q.verifying = FALSE /\ progress' = [progress EXCEPT ![c] = q]
    BY <1>6, EmptyBlocks, TransferAssumption DEF Progress
  <2>2. /\ worker'[w].at = "look" /\ worker'[w].copy = c /\ worker'[w].sha = worker[w].sha
        /\ worker'[w].generation = 1 /\ worker'[w].resumed = worker[w].resumed
        /\ \A v \in Workers \ {w} : worker'[v] = worker[v]
    BY <1>1, <1>6 DEF Job
  <2>3. ~worker[w].resumed
    BY <1>2, <1>3 DEF JobTrue
  <2> HIDE DEF q, p
  <2> QED BY <1>5, <1>6, <2>1, <2>2, <2>3
<1>7. CASE /\ old # None /\ old.handed
           /\ progress' = [progress EXCEPT ![c] = p(old.generation, old.read, old.verifying)]
           /\ worker' = [worker EXCEPT ![w].at = next, ![w].resumed = TRUE, ![w].read = old.read,
                 ![w].generation = old.generation, ![w].previous = old.generation]
  <2> DEFINE q == p(old.generation, old.read, old.verifying)
  <2>1. /\ q \in Progress /\ ~q.handed /\ q.generation = old.generation /\ q.read = old.read
        /\ q.verifying = old.verifying /\ progress' = [progress EXCEPT ![c] = q]
    BY <1>1, <1>2, <1>7 DEF Progress
  <2>2. /\ worker'[w].at = next /\ worker'[w].copy = c /\ worker'[w].sha = worker[w].sha
        /\ worker'[w].generation = old.generation /\ worker'[w].resumed = TRUE
        /\ worker'[w].read = old.read
        /\ \A v \in Workers \ {w} : worker'[v] = worker[v]
    BY <1>1, <1>7 DEF Job
  <2>3. copy[c].state = "pending" /\ (c \notin torn => Handover(c))
    BY <1>3, <1>7 DEF RowTrue
  <2>4. ~old.verifying /\ dest[c] = None /\ c \notin torn =>
           old.generation \in temp[c] /\ inode[c][old.generation] = old.read
    BY <1>7, <2>3 DEF Handover
  <2>5. worker'[w].at = (IF q.verifying THEN "verify" ELSE "look")
    BY <2>1, <2>2
  <2>6. ~q.verifying /\ worker'[w].resumed /\ dest[c] = None /\ c \notin torn =>
           /\ q.generation \in temp[c] /\ inode[c][q.generation] = q.read
           /\ worker'[w].read = q.read
    BY <2>1, <2>2, <2>4
  <2> HIDE DEF q, p, next
  <2> QED BY <1>5, <2>1, <2>2, <2>3, <2>5, <2>6
<1>8. CASE /\ old # None /\ old.generation < MaxGeneration
           /\ progress' = [progress EXCEPT ![c] = p(old.generation + 1, <<>>, old.verifying)]
           /\ worker' = [worker EXCEPT ![w].at = next,
                 ![w].generation = old.generation + 1, ![w].previous = old.generation]
  <2> DEFINE q == p(old.generation + 1, <<>>, old.verifying)
  <2>1. /\ q \in Progress /\ ~q.handed /\ q.generation = old.generation + 1 /\ q.read = <<>>
        /\ q.verifying = old.verifying /\ progress' = [progress EXCEPT ![c] = q]
    BY <1>1, <1>2, <1>8, EmptyBlocks, TransferAssumption DEF Progress
  <2>2. /\ worker'[w].at = next /\ worker'[w].copy = c /\ worker'[w].sha = worker[w].sha
        /\ worker'[w].generation = old.generation + 1 /\ worker'[w].resumed = worker[w].resumed
        /\ \A v \in Workers \ {w} : worker'[v] = worker[v]
    BY <1>1, <1>8 DEF Job
  <2>3. ~worker[w].resumed
    BY <1>2, <1>3 DEF JobTrue
  <2>4. copy[c].state = "pending"
    BY <1>3, <1>8 DEF RowTrue
  <2> HIDE DEF q, p
  <2> QED BY <1>5, <1>8, <2>1, <2>2, <2>3, <2>4
<1> QED BY <1>4, <1>6, <1>7, <1>8 DEF AcquireProgress

(* A job that waits for its row changes nothing that it has handed over. *)
LEMMA WorkingRow ==
  ASSUME Inv, NEW w \in Workers, NEW c \in Copies, c = worker[w].copy,
         worker[w].at \in Working, UNCHANGED <<copy, progress>>
  PROVE  RowTrue(c)'
<1>1. JobTrue(w) /\ RowTrue(c)
  BY DEF Inv
<1>2. /\ copy'[c].state \in {"pending", "deleted"}
      /\ progress'[c] # None => copy'[c].state = "pending" /\ ~progress'[c].handed
  BY <1>1 DEF JobTrue, RowTrue
<1> QED BY <1>2, WaitingRow

LEMMA AdoptKeeps ==
  ASSUME TypeOK, Held, Inv, NEW w \in Workers, AdoptExistingDestination(w),
         NEW c \in Copies, c = worker[w].copy
  PROVE  Inv'
<1>1. /\ worker[w].at = "look" /\ Begun(w) /\ UNCHANGED <<copy, sha, progress, inode, dest, pass, torn>>
      /\ temp \in [Copies -> SUBSET Generations] /\ worker \in [Workers -> Job]
  BY DEF AdoptExistingDestination, rows, world, Begun, TypeOK, FilesOK, JobsOK
<1>2. /\ c \in Copies /\ inode[c] \in [Generations -> Blocks] /\ dest[c] \in Generations \cup {None}
      /\ None \notin Blocks
  BY <1>1, OwnFacts, NoneAssumption
<1>3. JobTrue(w) /\ RowTrue(c)'
  BY <1>1, <1>2, WorkingRow DEF Inv, Working
<1>4. \A b \in Copies \ {c} : temp'[b] = temp[b]
  BY <1>1 DEF AdoptExistingDestination
<1>5. /\ \A v \in Workers \ {w} : worker'[v] = worker[v]
      /\ JobTrue(w)'
  <2>1. ASSUME NEW at \in {"open", "measure", "suspect"}, To(w, at),
               at = "open" => dest[c] = None /\ UNCHANGED temp,
               at = "measure" => dest[c] # None
        PROVE  JobTrue(w)' /\ \A v \in Workers \ {w} : worker'[v] = worker[v]
    <3>1. /\ worker'[w].at = at /\ worker'[w].copy = c
          /\ worker'[w].sha = worker[w].sha /\ worker'[w].generation = worker[w].generation
          /\ worker'[w].resumed = worker[w].resumed /\ worker'[w].read = worker[w].read
          /\ \A v \in Workers \ {w} : worker'[v] = worker[v]
      BY <2>1, ToStep DEF Steps
    <3>2. copy[c].state = "pending" /\ c \notin torn => FileTrue(w)'
      BY <1>1, <1>3, <2>1, <3>1 DEF JobTrue, Working, FileTrue
    <3> QED BY <1>1, <1>3, <2>1, <3>1, <3>2 DEF JobTrue, Working, Whole
  <2>2. ASSUME NEW remove, dest[c] # None, worker[w].sha = inode[c][dest[c]],
               worker' = [worker EXCEPT ![w].at = "complete", ![w].read = inode[c][dest[c]],
                                          ![w].remove = remove]
        PROVE  JobTrue(w)' /\ \A v \in Workers \ {w} : worker'[v] = worker[v]
    <3>1. /\ worker'[w].at = "complete" /\ worker'[w].copy = c
          /\ worker'[w].sha = worker[w].sha /\ worker'[w].generation = worker[w].generation
          /\ worker'[w].read = inode[c][dest[c]]
          /\ \A v \in Workers \ {w} : worker'[v] = worker[v]
      BY <1>1, <2>2 DEF Job
    <3>2. Whole(inode[c][dest[c]])
      BY <1>2, <1>3, <2>2 DEF JobTrue
    <3>3. FileTrue(w)'
      BY <1>1, <2>2, <3>1 DEF FileTrue
    <3> QED BY <1>1, <1>3, <3>1, <3>2, <3>3 DEF JobTrue, Working, Whole
  <2> QED BY <2>1, <2>2 DEF AdoptExistingDestination
<1> QED BY <1>1, <1>2, <1>3, <1>4, <1>5, OwnStep DEF Inv, ShaTrue, Whole

(* A job at work that goes on, or ends, without touching the rows. *)
LEMMA WorkStep ==
  ASSUME TypeOK, Held, Inv, NEW w \in Workers, NEW c \in Copies, c = worker[w].copy,
         worker[w].at \in Working,
         \A v \in Workers \ {w} : worker'[v] = worker[v],
         UNCHANGED <<copy, sha, progress, pass, torn>>,
         \A b \in Copies \ {c} :
            inode'[b] = inode[b] /\ temp'[b] = temp[b] /\ dest'[b] = dest[b],
         JobTrue(w)'
  PROVE  Inv'
<1>1. Begun(w) /\ RowTrue(c)'
  BY WorkingRow DEF Begun, Working
<1>2. copy[c].state # "deleting"
  BY DEF Inv, JobTrue
<1> QED BY <1>1, <1>2, OwnStep DEF Inv, ShaTrue, Whole

LEMMA OpenSliceKeeps ==
  ASSUME TypeOK, Held, Inv, NEW w \in Workers, OpenSlice(w), NEW c \in Copies, c = worker[w].copy
  PROVE  Inv'
<1> DEFINE g == worker[w].generation
<1>1. /\ worker[w].at = "open" /\ Begun(w) /\ UNCHANGED <<copy, sha, progress, pass, torn>>
      /\ worker \in [Workers -> Job] /\ temp \in [Copies -> SUBSET Generations]
      /\ inode \in [Copies -> [Generations -> Blocks]]
  BY DEF OpenSlice, rows, world, Begun, TypeOK, FilesOK, JobsOK
<1>2. /\ g \in Generations /\ worker[w].at \in Working
      /\ JobTrue(w) /\ dest[c] = None
  BY <1>1, OwnFacts DEF Inv, JobTrue, Working
<1>3. CASE To(w, "failed") /\ UNCHANGED files
  BY <1>1, <1>3, EndingKeeps
<1>4. CASE /\ worker[w].resumed /\ UNCHANGED files
           /\ worker' = [worker EXCEPT ![w].at = "copy", ![w].file = dest[worker[w].from]]
  <2>1. /\ worker'[w].at = "copy" /\ worker'[w].copy = c
        /\ worker'[w].sha = worker[w].sha /\ worker'[w].generation = g
        /\ worker'[w].read = worker[w].read
        /\ \A v \in Workers \ {w} : worker'[v] = worker[v]
    BY <1>1, <1>4 DEF Job
  <2>2. UNCHANGED <<inode, temp, dest>>
    BY <1>4 DEF files
  <2>3. copy[c].state = "pending" /\ c \notin torn => FileTrue(w)'
    BY <1>1, <1>2, <1>4, <2>1, <2>2 DEF JobTrue, FileTrue
  <2>4. JobTrue(w)'
    BY <1>1, <1>2, <2>1, <2>2, <2>3 DEF JobTrue, Whole, Working
  <2> QED BY <1>1, <1>2, <2>1, <2>2, <2>4, WorkStep
<1>5. CASE /\ temp' = [temp EXCEPT ![c] = (@ \ {worker[w].previous}) \cup {g}]
           /\ inode' = [inode EXCEPT ![c][g] = <<>>]
           /\ worker' = [worker EXCEPT ![w].at = "copy", ![w].file = dest[worker[w].from],
                                          ![w].read = <<>>]
           /\ UNCHANGED dest
  <2>1. /\ worker'[w].at = "copy" /\ worker'[w].copy = c
        /\ worker'[w].sha = worker[w].sha /\ worker'[w].generation = g
        /\ worker'[w].read = <<>>
        /\ \A v \in Workers \ {w} : worker'[v] = worker[v]
    BY <1>1, <1>5 DEF Job
  <2>2. /\ g \in temp'[c] /\ inode'[c][g] = <<>>
        /\ \A b \in Copies \ {c} :
              inode'[b] = inode[b] /\ temp'[b] = temp[b] /\ dest'[b] = dest[b]
    BY <1>1, <1>2, <1>5
  <2>3. FileTrue(w)'
    BY <2>1, <2>2 DEF FileTrue
  <2>4. JobTrue(w)'
    BY <1>1, <1>2, <1>5, <2>1, <2>3 DEF JobTrue, Whole, Working
  <2> QED BY <1>1, <1>2, <2>1, <2>2, <2>4, WorkStep
<1> QED BY <1>3, <1>4, <1>5 DEF OpenSlice

LEMMA CopyBlockKeeps ==
  ASSUME TypeOK, Held, Inv, NEW w \in Workers, CopyBlock(w), NEW c \in Copies, c = worker[w].copy
  PROVE  Inv'
<1> DEFINE g == worker[w].generation
           read == worker[w].read
           i == Len(read) + 1
           block == inode[worker[w].from][worker[w].file][i]
<1>1. /\ worker[w].at = "copy" /\ Begun(w) /\ UNCHANGED <<copy, sha, progress, temp, dest, pass, torn>>
      /\ worker \in [Workers -> Job] /\ inode \in [Copies -> [Generations -> Blocks]]
      /\ worker' = [worker EXCEPT ![w].read = Append(@, block)]
      /\ inode' = [inode EXCEPT ![c][g] = Write(@, i, block)]
  BY DEF CopyBlock, rows, world, Begun, TypeOK, FilesOK, JobsOK
<1>2. /\ g \in Generations /\ worker[w].at \in Working /\ read \in Blocks
      /\ JobTrue(w)
  BY <1>1, OwnFacts DEF Inv, Working
<1> HIDE DEF block
<1>3. /\ worker'[w].at = "copy" /\ worker'[w].copy = c
      /\ worker'[w].sha = worker[w].sha /\ worker'[w].generation = g
      /\ worker'[w].read = Append(read, block)
      /\ \A v \in Workers \ {w} : worker'[v] = worker[v]
  BY <1>1 DEF Job
<1>4. /\ inode'[c][g] = Write(inode[c][g], i, block)
      /\ \A b \in Copies \ {c} : inode'[b] = inode[b]
  BY <1>1, <1>2
<1>5. Write(read, i, block) = Append(read, block)
  <2>1. DOMAIN read = 1..Len(read) /\ Len(read) \in Nat
    BY <1>2, BlocksAreSequences
  <2> QED BY <2>1 DEF Write
<1>6. copy[c].state = "pending" /\ c \notin torn => FileTrue(w)'
  BY <1>1, <1>2, <1>3, <1>4, <1>5 DEF JobTrue, FileTrue
<1>7. JobTrue(w)'
  BY <1>1, <1>2, <1>3, <1>6 DEF JobTrue, Whole, Working
<1> QED BY <1>1, <1>2, <1>3, <1>4, <1>7, WorkStep

LEMMA ReadBlockKeeps ==
  ASSUME TypeOK, Held, Inv, NEW w \in Workers, ReadBlock(w), NEW c \in Copies, c = worker[w].copy
  PROVE  Inv'
<1>1. /\ worker[w].at \in {"measure", "verify"} /\ worker \in [Workers -> Job]
      /\ UNCHANGED <<copy, sha, progress, inode, temp, dest, pass, torn>>
      /\ worker' = [worker EXCEPT ![w].file = SourceFile(w),
            ![w].read = Append(@, inode[worker[w].from][SourceFile(w)][Len(worker[w].read) + 1])]
  BY DEF ReadBlock, rows, files, world, TypeOK, JobsOK
<1>2. /\ worker'[w].at = worker[w].at /\ worker'[w].copy = c
      /\ worker'[w].sha = worker[w].sha /\ worker'[w].generation = worker[w].generation
      /\ \A v \in Workers \ {w} : worker'[v] = worker[v]
  BY <1>1 DEF Job
<1>3. JobTrue(w)
  BY DEF Inv
<1>4. JobTrue(w)'
  BY <1>1, <1>2, <1>3 DEF JobTrue, FileTrue, Whole, Working
<1> QED BY <1>1, <1>2, <1>4, WorkStep DEF Working

(* Saving: what was copied is what the one who goes on will find. *)
LEMMA SaveKeeps ==
  ASSUME TypeOK, Held, Inv, NEW w \in Workers, NEW c \in Copies, c = worker[w].copy,
         worker[w].at \in {"copy", "measure", "verify"}, Owns(w), Save(w),
         \E at \in {"failed", "leave"} : Ends(w, at, TRUE),
         UNCHANGED <<copy, sha, files, pass, torn>>
  PROVE  Inv'
<1>1. /\ progress \in [Copies -> Progress \cup {None}] /\ None \notin Progress
      /\ UNCHANGED <<inode, temp, dest>>
  BY NoneAssumption DEF TypeOK, RowsOK, files
<1>2. /\ progress[c] \in Progress /\ progress[c].generation = worker[w].generation
      /\ JobTrue(w) /\ RowTrue(c)
  BY <1>1 DEF Owns, Inv
<1>3. /\ JobTrue(w)' /\ \A v \in Workers \ {w} : worker'[v] = worker[v]
  BY EndStep
<1>4. /\ progress'[c].generation = progress[c].generation /\ progress'[c].read = worker[w].read
      /\ progress'[c].verifying = progress[c].verifying
      /\ \A b \in Copies \ {c} : progress'[b] = progress[b]
  BY <1>1, <1>2 DEF Save, Progress
<1>5. copy[c].state = "pending" /\ progress[c] # None
  BY <1>1, <1>2 DEF RowTrue
<1>6. c \notin torn => Handover(c)'
  <2>1. ASSUME c \notin torn, ~progress[c].verifying, dest[c] = None
        PROVE  worker[w].generation \in temp[c] /\ inode[c][worker[w].generation] = worker[w].read
    <3>1. FileTrue(w)
      BY <1>2, <1>5, <2>1 DEF JobTrue, Working
    <3>2. worker[w].at = "copy"
      BY <1>2, <1>5, <2>1, <3>1 DEF JobTrue, Working, FileTrue
    <3> QED BY <3>1, <3>2 DEF FileTrue
  <2> QED BY <1>1, <1>2, <1>4, <2>1 DEF Handover
<1>7. RowTrue(c)'
  BY <1>1, <1>2, <1>5, <1>6 DEF RowTrue
<1>8. Begun(w)
  BY DEF Begun
<1> QED BY <1>1, <1>3, <1>4, <1>5, <1>7, <1>8, OwnStep DEF Inv, ShaTrue, Whole

LEMMA EndSliceKeeps ==
  ASSUME TypeOK, Held, Inv, NEW w \in Workers, EndSlice(w) \/ ReadFails(w),
         NEW c \in Copies, c = worker[w].copy
  PROVE  Inv'
<1>1. /\ UNCHANGED <<copy, sha, files, pass, torn>>
      /\ worker[w].at \in {"copy", "measure", "verify"}
  BY DEF EndSlice, ReadFails, world
<1>2. CASE Owns(w) /\ Save(w) /\ \E at \in {"failed", "leave"} : Ends(w, at, TRUE)
  BY <1>1, <1>2, SaveKeeps
<1>3. CASE UNCHANGED progress /\ \E at \in {"failed", "leave"} : To(w, at)
  BY <1>1, <1>3, EndingKeeps
<1> QED BY <1>2, <1>3 DEF EndSlice, ReadFails

LEMMA PublishKeeps ==
  ASSUME TypeOK, Held, Inv, NEW w \in Workers, Publish(w), NEW c \in Copies, c = worker[w].copy
  PROVE  Inv'
<1> DEFINE g == worker[w].generation
<1>1. /\ worker[w].at = "copy" /\ Begun(w) /\ UNCHANGED <<copy, sha, progress, inode, temp, pass, torn>>
      /\ worker \in [Workers -> Job] /\ Whole(worker[w].read)
      /\ dest \in [Copies -> Generations \cup {None}]
  BY DEF Publish, rows, world, Begun, TypeOK, FilesOK, JobsOK
<1>2. /\ JobTrue(w) /\ worker[w].at \in Working /\ g # None
  BY <1>1, OwnFacts DEF Inv, Working
<1>3. CASE worker' = [worker EXCEPT ![w].at = "suspect", ![w].remove = g] /\ UNCHANGED dest
  <2>1. /\ worker'[w].at = "suspect" /\ worker'[w].copy = c
        /\ worker'[w].sha = worker[w].sha /\ worker'[w].generation = g
        /\ \A v \in Workers \ {w} : worker'[v] = worker[v]
    BY <1>1, <1>3 DEF Job
  <2>2. JobTrue(w)'
    BY <1>1, <1>2, <1>3, <2>1 DEF JobTrue, FileTrue, Whole, Working
  <2> QED BY <1>1, <1>2, <1>3, <2>1, <2>2, WorkStep
<1>4. CASE /\ dest' = [dest EXCEPT ![c] = g]
           /\ worker' = [worker EXCEPT ![w].at = "complete", ![w].made = TRUE, ![w].remove = g]
  <2>1. /\ worker'[w].at = "complete" /\ worker'[w].copy = c
        /\ worker'[w].sha = worker[w].sha /\ worker'[w].generation = g
        /\ worker'[w].read = worker[w].read
        /\ \A v \in Workers \ {w} : worker'[v] = worker[v]
    BY <1>1, <1>4 DEF Job
  <2>2. dest'[c] = g /\ \A b \in Copies \ {c} : dest'[b] = dest[b]
    BY <1>1, <1>4
  <2>3. copy[c].state = "pending" /\ c \notin torn => FileTrue(w)'
    BY <1>1, <1>2, <2>1, <2>2 DEF JobTrue, FileTrue
  <2>4. JobTrue(w)'
    BY <1>1, <1>2, <2>1, <2>3 DEF JobTrue, Whole, Working
  <2> QED BY <1>1, <1>2, <2>1, <2>2, <2>4, WorkStep
<1>5. CASE To(w, "failed") /\ UNCHANGED dest
  BY <1>1, <1>5, EndingKeeps DEF files
<1> QED BY <1>3, <1>4, <1>5 DEF Publish

LEMMA VerificationKeeps ==
  ASSUME TypeOK, Held, Inv, NEW w \in Workers, StartVerification(w) \/ FinishVerification(w),
         NEW c \in Copies, c = worker[w].copy
  PROVE  Inv'
<1>1. /\ worker[w].at \in {"suspect", "verify"} /\ Begun(w)
      /\ UNCHANGED <<copy, sha, inode, dest, pass, torn>>
      /\ worker \in [Workers -> Job] /\ progress \in [Copies -> Progress \cup {None}]
      /\ temp \in [Copies -> SUBSET Generations] /\ None \notin Progress
  BY NoneAssumption
  DEF StartVerification, FinishVerification, files, world, Begun, TypeOK, RowsOK, FilesOK, JobsOK
<1>2. /\ JobTrue(w) /\ RowTrue(c) /\ worker[w].at \in Working
      /\ copy[c].state # "deleting" /\ \A b \in Copies \ {c} : temp'[b] = temp[b]
  BY <1>1 DEF Inv, JobTrue, Working, StartVerification, FinishVerification, files
<1>3. CASE UNCHANGED progress /\ To(w, "leave")
  <2>1. JobTrue(w)' /\ \A v \in Workers \ {w} : worker'[v] = worker[v]
    BY <1>3, EndStep
  <2> QED BY <1>1, <1>2, <1>3, <2>1, WorkStep
<1>4. ASSUME NEW verifying \in BOOLEAN, Owns(w), JobTrue(w)',
             \A v \in Workers \ {w} : worker'[v] = worker[v],
             progress' = [progress EXCEPT ![c].verifying = verifying, ![c].read = <<>>]
      PROVE  Inv'
  <2>1. progress[c] \in Progress /\ ~progress[c].handed /\ copy[c].state = "pending"
    BY <1>1, <1>2, <1>4 DEF Owns, JobTrue, RowTrue
  <2>2. ~progress'[c].handed /\ \A b \in Copies \ {c} : progress'[b] = progress[b]
    BY <1>1, <1>4, <2>1 DEF Progress
  <2>3. RowTrue(c)'
    BY <1>1, <2>1, <2>2, WaitingRow
  <2> QED BY <1>1, <1>2, <1>4, <2>2, <2>3, OwnStep DEF Inv, ShaTrue, Whole
<1>5. CASE /\ Owns(w)
           /\ progress' = [progress EXCEPT ![c].verifying = TRUE, ![c].read = <<>>]
           /\ worker' = [worker EXCEPT ![w].at = "verify", ![w].read = <<>>, ![w].file = None]
  <2>1. /\ worker'[w].at = "verify" /\ worker'[w].copy = c
        /\ worker'[w].sha = worker[w].sha /\ worker'[w].generation = worker[w].generation
        /\ \A v \in Workers \ {w} : worker'[v] = worker[v]
    BY <1>1, <1>5 DEF Job
  <2>2. progress[c] \in Progress /\ ~progress[c].handed
    BY <1>1, <1>2, <1>5 DEF Owns, JobTrue
  <2>3. /\ progress'[c].verifying /\ ~progress'[c].handed /\ progress'[c] # None
        /\ progress'[c].generation = worker[w].generation
    <3>1. progress'[c] = [progress[c] EXCEPT !.verifying = TRUE, !.read = <<>>]
      BY <1>1, <1>5
    <3>2. progress'[c] \in Progress
      BY <2>2, <3>1, EmptyBlocks DEF Progress
    <3> QED BY <1>1, <1>5, <2>2, <3>1, <3>2 DEF Owns, Progress
  <2>4. JobTrue(w)'
    BY <1>1, <1>2, <2>1, <2>3 DEF JobTrue, FileTrue, Whole, Working
  <2> QED BY <1>4, <1>5, <2>1, <2>4
<1>6. CASE /\ Owns(w) /\ To(w, "failed")
           /\ progress' = [progress EXCEPT ![c].verifying = FALSE, ![c].read = <<>>]
  <2>1. JobTrue(w)' /\ \A v \in Workers \ {w} : worker'[v] = worker[v]
    BY <1>6, EndStep
  <2> QED BY <1>4, <1>6, <2>1
<1> QED BY <1>3, <1>5, <1>6 DEF StartVerification, FinishVerification

(* The commit shows a file that is whole and that the hash speaks of. *)
LEMMA CompleteKeeps ==
  ASSUME TypeOK, Held, Inv, NEW w \in Workers, Complete(w), NEW c \in Copies, c = worker[w].copy
  PROVE  Inv'
<1> DEFINE digest == worker[w].read
           activates == copy[c].state = "pending" /\ ~trashed /\ sha \in {None, digest}
<1>1. /\ worker[w].at = "complete" /\ Begun(w) /\ UNCHANGED <<inode, temp, dest, pass, torn>>
      /\ progress \in [Copies -> Progress \cup {None}]
      /\ copy \in [Copies -> [store : Stores \cup {None},
                           state : {"none", "pending", "active", "deleting", "deleted"}]]
  BY DEF Complete, files, world, Begun, TypeOK, RowsOK
<1>2. /\ JobTrue(w) /\ RowTrue(c) /\ worker[w].at \in Working /\ ShaTrue
      /\ copy[c].state \in {"pending", "deleted"} /\ Whole(digest)
  BY <1>1 DEF Inv, JobTrue, Working
<1>3. CASE activates
  <2>1. /\ copy' = [copy EXCEPT ![c].state = "active"] /\ sha' = digest
        /\ progress' = [progress EXCEPT ![c] = None]
        /\ To(w, "tidy") \/ To(w, "leave")
    BY <1>3 DEF Complete
  <2>2. /\ copy'[c].state = "active" /\ progress'[c] = None
        /\ \A b \in Copies \ {c} : copy'[b] = copy[b] /\ progress'[b] = progress[b]
    BY <1>1, <2>1
  <2>3. JobTrue(w)' /\ \A v \in Workers \ {w} : worker'[v] = worker[v]
    <3>1. CASE To(w, "leave")
      BY <3>1, EndStep
    <3>2. CASE To(w, "tidy")
      <4>1. /\ worker'[w].at = "tidy" /\ worker'[w].copy = c /\ worker'[w].sha = worker[w].sha
            /\ \A v \in Workers \ {w} : worker'[v] = worker[v]
        BY <3>2, ToStep DEF Steps
      <4> QED BY <1>2, <2>2, <4>1 DEF JobTrue, Working, Whole
    <3> QED BY <2>1, <3>1, <3>2
  <2>4. c \notin torn => Intact(c)'
    BY <1>1, <1>2, <1>3, <2>1 DEF JobTrue, FileTrue, Intact, Whole
  <2>5. RowTrue(c)'
    BY <1>1, <2>2, <2>4 DEF RowTrue, Handover
  <2>6. ShaTrue'
    BY <1>2, <2>1 DEF ShaTrue, Whole
  <2> QED BY <1>1, <1>2, <1>3, <2>1, <2>2, <2>3, <2>5, <2>6, OwnStep
<1>4. CASE ~activates
  <2>1. /\ UNCHANGED <<copy, sha, progress>>
        /\ To(w, "unlike") \/ To(w, "stale")
    BY <1>2, <1>4 DEF Complete
  <2>2. /\ worker'[w].at \in {"unlike", "stale"} /\ worker'[w].copy = c
        /\ worker'[w].sha = worker[w].sha /\ worker'[w].generation = worker[w].generation
        /\ \A v \in Workers \ {w} : worker'[v] = worker[v]
    BY <2>1, ToStep DEF Steps
  <2>3. JobTrue(w)'
    BY <1>1, <1>2, <2>1, <2>2 DEF JobTrue, FileTrue, Working, Whole
  <2> QED BY <1>1, <1>2, <2>1, <2>2, <2>3, WorkStep
<1> QED BY <1>3, <1>4

LEMMA RemoveRefusedKeeps ==
  ASSUME TypeOK, Held, Inv, NEW w \in Workers, RemoveRefused(w), NEW c \in Copies, c = worker[w].copy
  PROVE  Inv'
<1>1. /\ worker[w].at \in {"unlike", "stale"} /\ UNCHANGED <<copy, sha, progress, inode, temp, pass, torn>>
      /\ dest \in [Copies -> Generations \cup {None}]
      /\ To(w, "suspect") \/ To(w, "discard")
  BY DEF RemoveRefused, rows, world, TypeOK, FilesOK
<1>2. JobTrue(w) /\ worker[w].at \in Working
  BY <1>1 DEF Inv, Working
<1>3. /\ worker'[w].at \in {"suspect", "discard"} /\ worker'[w].copy = c
      /\ worker'[w].sha = worker[w].sha /\ worker'[w].generation = worker[w].generation
      /\ \A v \in Workers \ {w} : worker'[v] = worker[v]
  BY <1>1, ToStep DEF Steps
<1>4. \A b \in Copies \ {c} : dest'[b] = dest[b]
  BY <1>1 DEF RemoveRefused
<1>5. JobTrue(w)'
  BY <1>1, <1>2, <1>3 DEF JobTrue, FileTrue, Working, Whole
<1> QED BY <1>1, <1>2, <1>3, <1>4, <1>5, WorkStep

LEMMA DiscardPendingKeeps ==
  ASSUME TypeOK, Held, Inv, NEW w \in Workers, DiscardPending(w), NEW c \in Copies, c = worker[w].copy
  PROVE  Inv'
<1>1. /\ worker[w].at = "discard" /\ Begun(w) /\ UNCHANGED <<sha, inode, temp, dest, pass, torn>>
      /\ progress \in [Copies -> Progress \cup {None}]
      /\ copy \in [Copies -> [store : Stores \cup {None},
                           state : {"none", "pending", "active", "deleting", "deleted"}]]
      /\ progress' = [progress EXCEPT ![c] = None] /\ To(w, "tidy")
  BY DEF DiscardPending, files, world, Begun, TypeOK, RowsOK
<1>2. JobTrue(w) /\ copy[c].state \in {"pending", "deleted"} /\ ShaTrue'
  BY <1>1 DEF Inv, JobTrue, Working, ShaTrue, Whole
<1>3. copy' = [copy EXCEPT ![c].state = "deleted"] \/ (copy[c].state # "pending" /\ UNCHANGED copy)
  BY DEF DiscardPending
<1>4. /\ copy'[c].state = "deleted" /\ progress'[c] = None
      /\ \A b \in Copies \ {c} : copy'[b] = copy[b] /\ progress'[b] = progress[b]
  BY <1>1, <1>2, <1>3
<1>5. /\ worker'[w].at = "tidy" /\ worker'[w].copy = c /\ worker'[w].sha = worker[w].sha
      /\ \A v \in Workers \ {w} : worker'[v] = worker[v]
  BY <1>1, ToStep DEF Steps
<1>6. JobTrue(w)'
  BY <1>2, <1>4, <1>5 DEF JobTrue, Working, Whole
<1>7. RowTrue(c)'
  BY <1>4, WaitingRow
<1> QED BY <1>1, <1>2, <1>4, <1>5, <1>6, <1>7, OwnStep

LEMMA EndsKeep ==
  ASSUME TypeOK, Held, Inv, NEW w \in Workers, NEW c \in Copies, c = worker[w].copy,
         RemoveTemp(w) \/ RecordMeasured(w) \/ RecordFailure(w) \/ Leave(w) \/ GiveUp(w)
  PROVE  Inv'
<1>1. /\ JobTrue(w)' /\ \A v \in Workers \ {w} : worker'[v] = worker[v]
  BY EndStep DEF RemoveTemp, RecordMeasured, RecordFailure, Leave, GiveUp
<1>2. JobTrue(w) /\ RowTrue(c) /\ ShaTrue
  BY DEF Inv
<1>3. CASE RecordFailure(w) \/ GiveUp(w)
  BY <1>3, EndingKeeps DEF RecordFailure, GiveUp, rows, world
<1>4. CASE RemoveTemp(w)
  <2>1. /\ worker[w].at = "tidy" /\ Begun(w) /\ UNCHANGED <<copy, sha, progress, inode, dest, pass, torn>>
        /\ temp \in [Copies -> SUBSET Generations]
        /\ temp' = [temp EXCEPT ![c] = @ \ {worker[w].remove}]
    BY <1>4 DEF RemoveTemp, rows, world, Begun, TypeOK, FilesOK
  <2>2. progress[c] # None => ~progress[c].handed
    BY <1>2, <2>1 DEF JobTrue, Working
  <2>3. RowTrue(c)'
    BY <1>2, <2>1, <2>2, RowKeeps
  <2>4. ShaTrue' /\ \A b \in Copies \ {c} : temp'[b] = temp[b]
    BY <1>2, <2>1 DEF ShaTrue, Whole
  <2> QED BY <1>1, <2>1, <2>3, <2>4, OwnStep
<1>5. CASE RecordMeasured(w)
  <2>1. /\ worker[w].at = "measure" /\ Begun(w) /\ Whole(worker[w].read)
        /\ UNCHANGED <<copy, progress, inode, temp, dest, pass, torn>>
        /\ sha' = IF sha = None THEN worker[w].read ELSE sha
    BY <1>5 DEF RecordMeasured, files, world, Begun
  <2>2. RowTrue(c)'
    BY <2>1, WorkingRow DEF Working
  <2>3. ShaTrue'
    BY <1>2, <2>1 DEF ShaTrue, Whole
  <2> QED BY <1>1, <2>1, <2>2, <2>3, OwnStep
<1>6. CASE Leave(w)
  <2>1. /\ Begun(w) /\ UNCHANGED <<copy, sha, inode, temp, dest, pass, torn>>
        /\ progress \in [Copies -> Progress \cup {None}] /\ None \notin Progress
        /\ \/ UNCHANGED progress
           \/ /\ progress[c] # None
              /\ progress' = [progress EXCEPT ![c].live = FALSE, ![c].handed = FALSE]
    BY <1>6, NoneAssumption DEF Leave, files, world, Begun, TypeOK, RowsOK
  <2>2. \A b \in Copies \ {c} : progress'[b] = progress[b]
    BY <2>1
  <2>3. progress'[c] # None => progress[c] # None /\ (progress'[c].handed => SameSave(c))
    <3>1. CASE UNCHANGED progress
      BY <3>1 DEF SameSave
    <3>2. CASE progress[c] # None /\ progress' = [progress EXCEPT ![c].live = FALSE, ![c].handed = FALSE]
      <4>1. progress[c] \in Progress /\ progress'[c] = [progress[c] EXCEPT !.live = FALSE, !.handed = FALSE]
        BY <2>1, <3>2
      <4>2. ~progress'[c].handed
        BY <4>1 DEF Progress
      <4> QED BY <3>2, <4>2
    <3> QED BY <2>1, <3>1, <3>2
  <2>4. RowTrue(c)'
    BY <1>2, <2>1, <2>3, RowKeeps
  <2>5. ShaTrue'
    BY <1>2, <2>1 DEF ShaTrue, Whole
  <2> QED BY <1>1, <2>1, <2>2, <2>4, <2>5, OwnStep
<1> QED BY <1>3, <1>4, <1>5, <1>6

-----------------------------------------------------------------------------
(* Delete passes. *)

(* What a pass may do to a row and its files without a job at work noticing. *)
Unnoticed(c) ==
    /\ progress'[c] = None \/ SameSave(c)
    /\ copy'[c].state \in {copy[c].state, "deleted"} \/ copy[c].state \in {"active", "deleting"}
    /\ copy'[c].state = "pending" => copy[c].state = "pending" /\ SameSave(c)
    /\ dest[c] = None => dest'[c] = None
    /\ copy'[c].state = "pending" /\ c \notin torn' =>
          inode'[c] = inode[c] /\ dest'[c] = dest[c] /\ temp[c] \subseteq temp'[c]

LEMMA PassStep ==
  ASSUME TypeOK, Inv, NEW s \in Stores, NEW c \in Copies,
         UNCHANGED <<worker, sha>>, torn \subseteq torn',
         \A t \in Stores \ {s} : pass'[t] = pass[t],
         \A b \in Copies \ {c} :
            /\ copy'[b] = copy[b] /\ progress'[b] = progress[b]
            /\ inode'[b] = inode[b] /\ temp'[b] = temp[b] /\ dest'[b] = dest[b],
         copy[c].state = "deleting" => copy[c].store = s,
         Unnoticed(c), PassTrue(s)', RowTrue(c)'
  PROVE  Inv'
<1>1. ASSUME NEW v \in Workers PROVE JobTrue(v)'
  <2> DEFINE b == worker[v].copy
             j == worker[v]
  <2>1. JobTrue(v) /\ SameJob(v)
    BY DEF Inv, SameJob
  <2>2. j.at \in Working \cup {"tidy"} => b \in Copies
    BY DEF TypeOK, JobsOK, Working
  <2>3. CASE j.at \in Working \cup {"tidy"} /\ b # c
    <3>1. /\ copy'[b] = copy[b] /\ SameSave(b)
          /\ inode'[b] = inode[b] /\ temp'[b] = temp[b] /\ dest'[b] = dest[b]
      BY <2>2, <2>3 DEF SameSave
    <3> QED BY <2>1, <3>1, JobKeeps
  <2>4. CASE j.at \in Working \cup {"tidy"} /\ b = c
    <3>1. \/ copy'[c].state = copy[c].state \/ copy'[c].state = "deleted" \/ j.at = "tidy"
      BY <2>1, <2>4 DEF Unnoticed, JobTrue
    <3>2. copy'[c].state = "pending" /\ c \notin torn' =>
             /\ inode'[c] = inode[c] /\ dest'[c] = dest[c]
             /\ j.generation \in temp[c] => j.generation \in temp'[c]
      BY DEF Unnoticed
    <3>3. /\ progress'[c] = None \/ SameSave(c)
          /\ copy'[c].state = "pending" => SameSave(c)
          /\ dest[c] = None => dest'[c] = None
      BY DEF Unnoticed
    <3> QED BY <2>1, <2>4, <3>1, <3>2, <3>3, JobKeeps
  <2>5. CASE j.at \notin Working \cup {"tidy"}
    BY <2>1, <2>5 DEF JobTrue, SameJob, Whole, Working
  <2> QED BY <2>3, <2>4, <2>5
<1>2. ASSUME NEW b \in Copies \ {c} PROVE RowTrue(b)'
  BY RowKeeps DEF Inv, SameSave
<1>3. ASSUME NEW t \in Stores \ {s} PROVE PassTrue(t)'
  <2> DEFINE b == pass[t].copy
  <2>1. pass[t].step \in {"unlink", "unlinked", "revert"} => b \in Copies
    BY DEF TypeOK, PassesOK
  <2>2. PassTrue(t)
    BY DEF Inv
  <2>3. pass[t].step \in {"unlink", "unlinked", "revert"} => b # c
    BY <2>1, <2>2 DEF PassTrue
  <2>4. pass[t].step \in {"unlink", "unlinked", "revert"} =>
           copy'[b] = copy[b] /\ dest'[b] = dest[b]
    BY <2>1, <2>3
  <2> QED BY <2>2, <2>4 DEF PassTrue
<1>4. ShaTrue'
  BY DEF Inv, ShaTrue, Whole
<1>5. /\ \A b \in Copies : RowTrue(b)'
      /\ \A t \in Stores : PassTrue(t)'
  BY <1>2, <1>3
<1> QED BY <1>1, <1>4, <1>5 DEF Inv

(* Only the pass itself moves. *)
LEMMA PassMoves ==
  ASSUME TypeOK, Inv, NEW s \in Stores, UNCHANGED <<rows, files, worker, torn>>,
         \A t \in Stores \ {s} : pass'[t] = pass[t], PassTrue(s)'
  PROVE  Inv'
<1>1. UNCHANGED <<copy, sha, progress, inode, temp, dest, worker, torn>>
  BY DEF rows, files
<1>2. \A v \in Workers : JobTrue(v)'
  BY <1>1 DEF Inv, JobTrue, FileTrue, Whole
<1>3. \A c \in Copies : RowTrue(c)'
  BY <1>1 DEF Inv, RowTrue, Intact, Handover, Whole
<1>4. \A t \in Stores \ {s} : PassTrue(t)'
  BY <1>1, PassKeeps DEF Inv
<1>5. ShaTrue'
  BY <1>1 DEF Inv, ShaTrue, Whole
<1> QED BY <1>2, <1>3, <1>4, <1>5 DEF Inv

LEMMA PassIs ==
  ASSUME TypeOK, NEW s \in Stores, NEW q, pass' = [pass EXCEPT ![s] = q]
  PROVE  pass'[s] = q /\ \A t \in Stores \ {s} : pass'[t] = pass[t]
BY DEF TypeOK, PassesOK

LEMMA ListingKeeps ==
  ASSUME TypeOK, Inv, NEW s \in Stores, NEW want \in Stores,
         ListPending(s, want) \/ StatDeleting(s, want) \/ ListObsolete(s, want) \/ PassDies(s)
  PROVE  Inv'
<1>1. UNCHANGED <<rows, files, worker, torn>>
  BY DEF ListPending, StatDeleting, ListObsolete, PassDies, world
<1>2. UNCHANGED <<copy, dest, torn>>
  BY <1>1 DEF rows, files
<1>3. CASE ListPending(s, want)
  <2>1. PICK c \in In(s, {"deleting"}) :
          pass' = [pass EXCEPT ![s] = [NoPass EXCEPT !.step = "unlink", !.copy = c]]
    BY <1>3 DEF ListPending
  <2>a. /\ pass'[s] = [NoPass EXCEPT !.step = "unlink", !.copy = c]
        /\ \A t \in Stores \ {s} : pass'[t] = pass[t]
    BY <2>1, PassIs
  <2>2. /\ pass'[s].step = "unlink" /\ pass'[s].copy = c
        /\ \A t \in Stores \ {s} : pass'[t] = pass[t]
    BY <2>a DEF NoPass
  <2>3. PassTrue(s)'
    BY <1>2, <2>2 DEF PassTrue, In
  <2> QED BY <1>1, <2>2, <2>3, PassMoves
<1>4. CASE StatDeleting(s, want)
  <2>1. PICK c \in In(s, {"deleting"}) :
          pass' = [pass EXCEPT ![s] = [NoPass EXCEPT !.copy = c, !.want = want,
                     !.step = IF dest[c] = None THEN "unlinked" ELSE "revert"]]
    BY <1>4 DEF StatDeleting
  <2>a. /\ pass'[s] = [NoPass EXCEPT !.copy = c, !.want = want,
                        !.step = IF dest[c] = None THEN "unlinked" ELSE "revert"]
        /\ \A t \in Stores \ {s} : pass'[t] = pass[t]
    BY <2>1, PassIs
  <2>2. /\ pass'[s].step = (IF dest[c] = None THEN "unlinked" ELSE "revert") /\ pass'[s].copy = c
        /\ \A t \in Stores \ {s} : pass'[t] = pass[t]
    BY <2>a DEF NoPass
  <2>3. PassTrue(s)'
    BY <1>2, <2>2 DEF PassTrue, In
  <2> QED BY <1>1, <2>2, <2>3, PassMoves
<1>5. CASE ListObsolete(s, want) \/ PassDies(s)
  <2>1. /\ pass'[s].step \in {"idle", "reclaim"}
        /\ \A t \in Stores \ {s} : pass'[t] = pass[t]
    BY <1>5, PassIs DEF ListObsolete, PassDies, NoPass
  <2>2. PassTrue(s)'
    BY <2>1 DEF PassTrue
  <2> QED BY <1>1, <2>1, <2>2, PassMoves
<1> QED BY <1>3, <1>4, <1>5

LEMMA MarkCopyDeletingKeeps ==
  ASSUME TypeOK, Inv, NEW s \in Stores, NEW want \in Stores, MarkCopyDeleting(s, want)
  PROVE  Inv'
<1>1. PICK c \in In(s, {"active"}) :
         /\ copy' = [copy EXCEPT ![c].state = "deleting"]
         /\ pass' = [pass EXCEPT ![s] = [NoPass EXCEPT !.step = "unlink", !.copy = c]]
  BY DEF MarkCopyDeleting
<1>2. /\ c \in Copies /\ copy[c].state = "active" /\ copy[c].store = s
      /\ copy \in [Copies -> [store : Stores \cup {None},
                           state : {"none", "pending", "active", "deleting", "deleted"}]]
      /\ UNCHANGED <<sha, progress, inode, temp, dest, worker, torn>> /\ RowTrue(c)
  BY DEF In, TypeOK, RowsOK, MarkCopyDeleting, files, world, Inv
<1>a. /\ pass'[s] = [NoPass EXCEPT !.step = "unlink", !.copy = c]
      /\ \A t \in Stores \ {s} : pass'[t] = pass[t]
  BY <1>1, PassIs
<1>3. /\ pass'[s].step = "unlink" /\ pass'[s].copy = c
      /\ \A t \in Stores \ {s} : pass'[t] = pass[t]
  BY <1>a DEF NoPass
<1>4. /\ copy'[c].state = "deleting" /\ copy'[c].store = s
      /\ \A b \in Copies \ {c} : copy'[b] = copy[b]
  BY <1>1, <1>2
<1>5. PassTrue(s)'
  BY <1>3, <1>4 DEF PassTrue
<1>6. RowTrue(c)'
  BY <1>2, <1>4 DEF RowTrue, Intact, Handover, Whole
<1>7. Unnoticed(c)
  BY <1>2, <1>4 DEF Unnoticed, SameSave
<1> QED BY <1>2, <1>3, <1>4, <1>5, <1>6, <1>7, PassStep

LEMMA UnlinkKeeps ==
  ASSUME TypeOK, Inv, NEW s \in Stores, Unlink(s), NEW c, c = pass[s].copy
  PROVE  Inv'
<1>1. /\ c \in Copies /\ copy[c].state = "deleting" /\ copy[c].store = s
      /\ UNCHANGED <<copy, sha, progress, inode, temp, worker, torn>> /\ RowTrue(c)
      /\ dest \in [Copies -> Generations \cup {None}]
      /\ pass \in [Stores -> Pass]
  BY DEF TypeOK, PassesOK, FilesOK, Unlink, rows, world, Inv, PassTrue
<1>2. /\ dest'[c] = None /\ \A b \in Copies \ {c} : dest'[b] = dest[b]
  BY <1>1 DEF Unlink
<1>3. /\ pass'[s].step = "unlinked" /\ pass'[s].copy = c
      /\ \A t \in Stores \ {s} : pass'[t] = pass[t]
  BY <1>1 DEF Unlink, Pass
<1>4. PassTrue(s)'
  BY <1>1, <1>3 DEF PassTrue
<1>5. RowTrue(c)'
  BY <1>1, <1>2 DEF RowTrue, Handover
<1>6. Unnoticed(c)
  BY <1>1, <1>2 DEF Unnoticed, SameSave
<1> QED BY <1>1, <1>2, <1>3, <1>4, <1>5, <1>6, PassStep

(* The pass ends with the row. *)
LEMMA RowEnds ==
  ASSUME TypeOK, Inv, NEW s \in Stores, MarkDeleted(s) \/ RevertToActive(s), NEW c, c = pass[s].copy
  PROVE  Inv'
<1>1. /\ c \in Copies /\ copy[c].state = "deleting" /\ copy[c].store = s
      /\ pass[s].step = "revert" /\ c \notin torn => dest[c] # None
      /\ UNCHANGED <<sha, progress, inode, temp, dest, worker, torn>> /\ RowTrue(c)
      /\ copy \in [Copies -> [store : Stores \cup {None},
                           state : {"none", "pending", "active", "deleting", "deleted"}]]
  BY DEF TypeOK, PassesOK, RowsOK, MarkDeleted, RevertToActive, files, world, Inv, PassTrue
<1>2. PassTrue(s)' /\ \A t \in Stores \ {s} : pass'[t] = pass[t]
  BY PassIs DEF MarkDeleted, RevertToActive, NoPass, PassTrue
<1>3. /\ \/ copy'[c].state = "deleted"
         \/ copy'[c].state = "deleting"
         \/ copy'[c].state = "active" /\ pass[s].step = "revert"
      /\ \A b \in Copies \ {c} : copy'[b] = copy[b]
  BY <1>1 DEF MarkDeleted, RevertToActive
<1>4. RowTrue(c)'
  BY <1>1, <1>3 DEF RowTrue, Intact, Handover, Whole
<1>5. Unnoticed(c)
  BY <1>1, <1>3 DEF Unnoticed, SameSave
<1> QED BY <1>1, <1>2, <1>3, <1>4, <1>5, PassStep

(* A reservation is taken back, or its files are and its row is not. *)
LEMMA ReclaimKeeps ==
  ASSUME TypeOK, Inv, NEW s \in Stores, ReclaimObsolete(s) \/ ReclaimLost(s), NEW c, c = pass[s].copy
  PROVE  Inv'
<1>1. /\ c \in Copies /\ RowTrue(c)
      /\ UNCHANGED <<sha, inode, worker>>
      /\ copy \in [Copies -> [store : Stores \cup {None},
                           state : {"none", "pending", "active", "deleting", "deleted"}]]
      /\ progress \in [Copies -> Progress \cup {None}]
      /\ temp \in [Copies -> SUBSET Generations] /\ dest \in [Copies -> Generations \cup {None}]
  BY DEF TypeOK, PassesOK, RowsOK, FilesOK, ReclaimObsolete, ReclaimLost, rows, Inv
<1>2. PassTrue(s)' /\ \A t \in Stores \ {s} : pass'[t] = pass[t]
  BY PassIs DEF ReclaimObsolete, ReclaimLost, NoPass, PassTrue
<1>3. ASSUME NEW g, RemoveOwned(c, g)
      PROVE  /\ dest'[c] \in {dest[c], None}
             /\ \A b \in Copies \ {c} : temp'[b] = temp[b] /\ dest'[b] = dest[b]
  BY <1>1, <1>3 DEF RemoveOwned
<1>4. CASE ReclaimLost(s)
  <2>1. /\ copy[c].state = "pending" /\ RemoveOwned(c, pass[s].generation) /\ torn' = torn \cup {c}
        /\ UNCHANGED <<copy, progress>>
    BY <1>4 DEF ReclaimLost, Obsolete, rows
  <2>2. RowTrue(c)'
    BY <1>1, <2>1 DEF RowTrue
  <2>3. Unnoticed(c)
    BY <1>3, <2>1 DEF Unnoticed, SameSave
  <2> QED BY <1>1, <1>2, <1>3, <2>1, <2>2, <2>3, PassStep
<1>5. CASE ReclaimObsolete(s) /\ Obsolete(c, pass[s].want)
  <2>1. /\ copy[c].state = "pending" /\ RemoveOwned(c, pass[s].generation) /\ torn' = torn
        /\ copy' = [copy EXCEPT ![c].state = "deleted"] /\ progress' = [progress EXCEPT ![c] = None]
    BY <1>5 DEF ReclaimObsolete, Obsolete, world
  <2>2. /\ copy'[c].state = "deleted" /\ progress'[c] = None
        /\ \A b \in Copies \ {c} : copy'[b] = copy[b] /\ progress'[b] = progress[b]
    BY <1>1, <2>1
  <2>3. RowTrue(c)'
    BY <1>1, <2>2, WaitingRow
  <2>4. Unnoticed(c)
    BY <1>3, <2>1, <2>2 DEF Unnoticed
  <2> QED BY <1>1, <1>2, <1>3, <2>1, <2>2, <2>3, <2>4, PassStep
<1>6. CASE ReclaimObsolete(s) /\ ~Obsolete(c, pass[s].want)
  <2>1. UNCHANGED <<rows, files, worker, torn>>
    BY <1>6 DEF ReclaimObsolete, rows, files, world
  <2> QED BY <1>2, <2>1, PassMoves
<1> QED BY <1>4, <1>5, <1>6

LEMMA SweepTempKeeps ==
  ASSUME TypeOK, Inv, NEW c \in Copies, SweepTemp(c)
  PROVE  Inv'
<1>1. PICK g \in temp[c] :
         /\ IF progress[c] # None THEN g < progress[c].generation
                                  ELSE \A w \in Workers : worker[w].copy # c
         /\ temp' = [temp EXCEPT ![c] = @ \ {g}]
  BY DEF SweepTemp
<1>2. /\ UNCHANGED <<copy, sha, progress, inode, dest, worker, pass, torn>>
      /\ temp \in [Copies -> SUBSET Generations] /\ progress[c] \in Progress \cup {None}
  BY DEF SweepTemp, rows, world, TypeOK, FilesOK, RowsOK
<1>3. progress[c] # None => g # progress[c].generation
  BY <1>1, <1>2 DEF Progress
<1>4. /\ temp'[c] = temp[c] \ {g}
      /\ \A b \in Copies \ {c} : temp'[b] = temp[b]
  BY <1>1, <1>2
<1>5. \A b \in Copies : SameSave(b)
  BY <1>2 DEF SameSave
<1>6. ASSUME NEW v \in Workers PROVE JobTrue(v)'
  <2> DEFINE b == worker[v].copy
             j == worker[v]
  <2>1. JobTrue(v) /\ SameJob(v)
    BY <1>2 DEF Inv, SameJob
  <2>2. j.at \in Working \cup {"tidy"} => b \in Copies
    BY DEF TypeOK, JobsOK, Working
  <2>3. j.at \in Working /\ copy[b].state = "pending" /\ j.generation \in temp[b] => j.generation \in temp'[b]
    BY <1>1, <1>3, <1>4, <2>1, <2>2 DEF JobTrue
  <2>4. CASE j.at \in Working
    BY <1>2, <1>5, <2>1, <2>2, <2>3, <2>4, JobKeeps
  <2>5. CASE j.at \notin Working
    BY <1>2, <2>1, <2>5 DEF JobTrue, Whole, Working
  <2> QED BY <2>4, <2>5
<1>7. ASSUME NEW b \in Copies PROVE RowTrue(b)'
  BY <1>2, <1>3, <1>4, <1>5, RowKeeps DEF Inv
<1>8. ASSUME NEW s \in Stores PROVE PassTrue(s)'
  BY <1>2, PassKeeps DEF Inv
<1> QED BY <1>2, <1>6, <1>7, <1>8 DEF Inv, ShaTrue, Whole

LEMMA DataWhole == ASSUME NEW kind PROVE Whole(Data(kind))
BY TransferAssumption DEF Whole, Data

(* What ingest wrote keeps its length when it goes bad. *)
LEMMA RotKeeps ==
  ASSUME TypeOK, Inv, Rot
  PROVE  Inv'
<1>1. 1 \in Copies /\ 0 \in Generations /\ 0 # None
  BY TransferAssumption, NoneAssumption DEF Copies, Generations
<1>2. /\ UNCHANGED <<copy, sha, progress, temp, dest, worker, pass, torn>>
      /\ inode \in [Copies -> [Generations -> Blocks]] /\ dest[1] = 0
      /\ inode' = [inode EXCEPT ![1][0] = Data("rotten")]
  BY DEF Rot, rows, world, TypeOK, FilesOK
<1>3. /\ inode'[1][0] = Data("rotten")
      /\ \A b \in Copies \ {1} : inode'[b] = inode[b]
  BY <1>1, <1>2
<1>4. RowTrue(1) /\ copy[1].state # "pending"
  BY <1>1 DEF Inv, RowTrue
<1>5. ASSUME NEW v \in Workers PROVE JobTrue(v)'
  <2> DEFINE b == worker[v].copy
  <2>1. JobTrue(v) /\ SameJob(v)
    BY <1>2 DEF Inv, SameJob
  <2>2. worker[v].at \in Working \cup {"tidy"} => b \in Copies
    BY DEF TypeOK, JobsOK, Working
  <2>3. worker[v].at \in Working \cup {"tidy"} /\ copy[b].state = "pending" => inode'[b] = inode[b]
    BY <1>3, <1>4, <2>2
  <2>4. SameSave(b)
    BY <1>2 DEF SameSave
  <2> QED BY <1>2, <2>1, <2>3, <2>4, JobKeeps
<1>6. RowTrue(1)'
  <2>1. Intact(1)'
    BY <1>1, <1>2, <1>3, DataWhole DEF Intact, Whole
  <2>2. progress'[1] = None
    BY <1>2, <1>4 DEF RowTrue
  <2> QED BY <1>2, <1>4, <2>1, <2>2 DEF RowTrue, Handover
<1>7. ASSUME NEW b \in Copies \ {1} PROVE RowTrue(b)'
  BY <1>2, <1>3, RowKeeps DEF Inv, SameSave
<1>8. ASSUME NEW s \in Stores PROVE PassTrue(s)'
  BY <1>2, PassKeeps DEF Inv
<1>9. \A b \in Copies : RowTrue(b)'
  BY <1>6, <1>7
<1> QED BY <1>2, <1>5, <1>8, <1>9 DEF Inv, ShaTrue, Whole

LEMMA InitInv == Init => Inv
<1> SUFFICES ASSUME Init PROVE Inv
  OBVIOUS
<1>1. /\ 1 \in Copies /\ 0 \in Generations /\ 0 # None
  BY TransferAssumption, NoneAssumption DEF Copies, Generations
<1>2. Whole(Data("good"))
  BY DataWhole
<1>3. \A w \in Workers : JobTrue(w)
  BY DEF Init, Idle, JobTrue, Working
<1>4. ASSUME NEW c \in Copies PROVE RowTrue(c)
  <2>1. progress[c] = None
    BY DEF Init
  <2>2. CASE c = 1
    <3>1. /\ copy[1].state = "active" /\ dest[1] = 0 /\ inode[1][0] = Data("good")
      BY <1>1, <2>2 DEF Init
    <3> QED BY <1>1, <1>2, <2>1, <2>2, <3>1 DEF RowTrue, Intact, Handover
  <2>3. CASE c # 1
    <3>1. copy[c].state = "none"
      BY <2>3 DEF Init
    <3> QED BY <2>1, <2>3, <3>1 DEF RowTrue, Handover
  <2> QED BY <2>2, <2>3
<1>5. \A s \in Stores : PassTrue(s)
  BY DEF Init, NoPass, PassTrue
<1>6. ShaTrue
  BY <1>2 DEF Init, ShaTrue
<1> QED BY <1>3, <1>4, <1>5, <1>6 DEF Inv

LEMMA InvOfWork ==
  ASSUME TypeOK, Held, Inv, NEW w \in Workers, Work(w)
  PROVE  Inv'
<1>1. CASE \E want \in Stores : Prepare(w, want)
  BY <1>1, PrepareKeeps
<1>2. CASE AcquireBandwidth(w)
  BY <1>2, AcquireBandwidthKeeps
<1>3. CASE ~(AcquireBandwidth(w) \/ \E want \in Stores : Prepare(w, want))
  <2>1. worker[w].copy \in Copies
    <3>1. Begun(w)
      BY <1>3, WorkGoesOn DEF Work, Leave, Begun
    <3> QED BY <3>1, OwnFacts
  <2>2. PICK c \in Copies : c = worker[w].copy
    BY <2>1
  <2> QED BY <1>3, <2>2, AcquireProgressKeeps, AdoptKeeps, OpenSliceKeeps, CopyBlockKeeps,
             ReadBlockKeeps, EndSliceKeeps, PublishKeeps, CompleteKeeps, RemoveRefusedKeeps,
             DiscardPendingKeeps, VerificationKeeps, EndsKeep DEF Work
<1> QED BY <1>1, <1>2, <1>3

LEMMA InvOfPass ==
  ASSUME TypeOK, Inv, NEW s \in Stores, DeletePass(s) \/ PassDies(s) \/ ReclaimLost(s)
  PROVE  Inv'
<1>1. PICK c : c = pass[s].copy
  OBVIOUS
<1>2. CASE \E want \in Stores : \/ MarkCopyDeleting(s, want) \/ ListPending(s, want)
                                \/ StatDeleting(s, want) \/ ListObsolete(s, want)
  BY <1>2, MarkCopyDeletingKeeps, ListingKeeps
<1>3. CASE PassDies(s)
  BY <1>3, ListingKeeps
<1>4. CASE Unlink(s)
  BY <1>1, <1>4, UnlinkKeeps
<1>5. CASE MarkDeleted(s) \/ RevertToActive(s)
  BY <1>1, <1>5, RowEnds
<1>6. CASE ReclaimObsolete(s) \/ ReclaimLost(s)
  BY <1>1, <1>6, ReclaimKeeps
<1> QED BY <1>2, <1>3, <1>4, <1>5, <1>6 DEF DeletePass

LEMMA InvStep ==
  ASSUME TypeOK, Held, Inv, [Next]_vars, [\A s \in Stores : ~LoseLock(s)]_vars
  PROVE  Inv'
<1>1. ASSUME NEW w \in Workers, Work(w) PROVE Inv'
  BY <1>1, InvOfWork
<1>2. ASSUME NEW s \in Stores, DeletePass(s) \/ PassDies(s) \/ ReclaimLost(s) PROVE Inv'
  BY <1>2, InvOfPass
<1>3. CASE UNCHANGED vars
  BY <1>3, AroundKeeps
<1>4. ASSUME NEW c \in Copies, LeaseExpires(c) \/ SweepTemp(c) PROVE Inv'
  BY <1>4, AroundKeeps, SweepTempKeeps
<1>5. CASE SwitchPolicy \/ RetirePolicy \/ Trash \/ Restore \/ Rot
  BY <1>5, AroundKeeps, RotKeeps
<1>6. ASSUME NEW s \in Stores, ClearObsoleteAttempts(s) PROVE Inv'
  BY <1>6, AroundKeeps
<1>7. ASSUME NEW w \in Workers, Stall(w) \/ Crash(w) PROVE Inv'
  BY <1>7, AroundKeeps
<1> QED BY <1>1, <1>2, <1>3, <1>4, <1>5, <1>6, <1>7 DEF Next

LEMMA InvHolds == Spec /\ LockKept => []Inv
<1>1. Init => Inv
  BY InitInv
<1>2. TypeOK /\ Held /\ Inv /\ [Next]_vars /\ [\A s \in Stores : ~LoseLock(s)]_vars => Inv'
  BY InvStep
<1> QED BY <1>1, <1>2, TypeCorrect, LocksAreHeld, PTL DEF Spec, LockKept

(* As long as no job loses the lock of its source store to a broken connection,
   an active copy has its file, and a file that a transfer has made is what the
   asset's SHA-256 speaks of, whatever crashes, stalls, lost replies, switches
   and trashings there are (completeTransfer, resolveUnqualifiedDeletingAsset). *)
THEOREM ActiveStaysIntact == Spec /\ LockKept => []ActiveIsIntact
<1>1. Inv => ActiveIsIntact
  BY DEF Inv, RowTrue, Intact, ActiveIsIntact
<1> QED BY <1>1, InvHolds, PTL

(* As long as no such lock is lost, what a slice has saved is in its temporary
   file for the one who goes on (saveOriginalSlice, openTransferSlice,
   deleteOrphanTransferTemp). *)
THEOREM HandoverStaysIntact == Spec /\ LockKept => []HandoverIntact
<1>1. Inv => HandoverIntact
  BY DEF Inv, RowTrue, Handover, HandoverIntact
<1> QED BY <1>1, InvHolds, PTL

=============================================================================
