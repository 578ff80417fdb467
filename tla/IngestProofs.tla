------------------------------ MODULE IngestProofs ------------------------------
(***************************************************************************)
(* What holds of ingest for any number of workers, chunks, generations and *)
(* faults: what a handoff leaves and a viewer reads is there, a temporary  *)
(* file has one writer, what is committed has mirakc's hash, and the       *)
(* original comes into the library as the contract says.                   *)
(***************************************************************************)
EXTENDS Ingest, FiniteSetTheorems, TLAPS

-----------------------------------------------------------------------------
(* Contents of files. *)

Chunks == 0..Length

LEMMA ContentsAreSequences ==
  ASSUME NEW c \in Contents
  PROVE  c \in Seq(Chunks) /\ Len(c) \in 0..Length
<1>1. PICK n \in 0..Length : c \in [1..n -> Chunks]
  BY DEF Contents, Chunks
<1> QED BY <1>1, IngestAssumption DEF Chunks

LEMMA SequencesAreContents ==
  ASSUME NEW c \in Seq(Chunks), Len(c) <= Length
  PROVE  c \in Contents
<1>1. Len(c) \in 0..Length /\ c \in [1..Len(c) -> Chunks]
  BY IngestAssumption
<1> QED BY <1>1 DEF Contents, Chunks

LEMMA EmptyContents == <<>> \in Contents /\ Len(<<>>) = 0
<1>1. <<>> \in Seq(Chunks) /\ Len(<<>>) = 0 /\ 0 <= Length
  BY IngestAssumption
<1> QED BY <1>1, SequencesAreContents

LEMMA AppendContents ==
  ASSUME NEW c \in Contents, Len(c) < Length, NEW chunk \in Chunks
  PROVE  Append(c, chunk) \in Contents /\ Len(Append(c, chunk)) = Len(c) + 1
<1>1. c \in Seq(Chunks) /\ Len(c) \in 0..Length
  BY ContentsAreSequences
<1>2. Append(c, chunk) \in Seq(Chunks) /\ Len(Append(c, chunk)) = Len(c) + 1
  BY <1>1
<1>3. Len(Append(c, chunk)) <= Length
  BY <1>1, <1>2, IngestAssumption
<1> QED BY <1>2, <1>3, SequencesAreContents

LEMMA WholeIsWhole == Whole \in Contents /\ Len(Whole) = Length
<1>1. Whole \in Seq(Chunks) /\ Len(Whole) = Length
  BY IngestAssumption DEF Whole, Chunks
<1> QED BY <1>1, SequencesAreContents, IngestAssumption

-----------------------------------------------------------------------------
(* The inductive invariant, beside the types.

   A file is complete when mirakc has ended the record, the file has all of
   it, and mirakc's hash if there is one. *)

Done(h) ==
    /\ record \in {"finished", "purged"} /\ grown = Length
    /\ Len(h) = Length /\ (sha256 => h = Whole)

Before == {"prepare", "inspect", "open"}
Writing == {"start", "transfer", "final"}
Publishing == {"publish", "link", "commit"}
Active(w) == at[w].step \in Before \cup Writing \cup Publishing

Current == <<checkpoint.path, checkpoint.generation>>

(* The lease and the row's lock are those of an attempt that is at the
   checkpoint's path and generation; its open file is there. *)
LeaseInv(w) ==
    /\ Owns(w) => /\ Active(w) /\ at[w].path = checkpoint.path
                  /\ at[w].generation = checkpoint.generation
                  /\ at[w].step \in Writing => WriterTemp(w) \in temps
    /\ lock = w => Owns(w) /\ at[w].step \in {"link", "commit"} /\ asset = None

(* An attempt is at a path that was made, never ahead of the checkpoint. *)
PlaceInv(w) ==
    /\ at[w].path <= reserved
    /\ Active(w) => /\ at[w].generation # 0
                    /\ at[w].path = 0 => at[w].step = "prepare"
                    /\ checkpoint # None /\ at[w].path # 0 /\ at[w].path = checkpoint.path
                         => at[w].generation <= checkpoint.generation

(* Its name is still free, or the name of a file with the bytes it knows of;
   from the last chunk on they are the whole record. *)
FileInv(w) ==
    /\ at[w].step \in Before =>
          IF at[w].resumed THEN at[w].path # 0 /\ file[WriterTemp(w)] = at[w].hash
                           ELSE /\ at[w].hash = <<>>
                                /\ at[w].path # 0 => file[WriterTemp(w)] = None
    /\ at[w].step \in Writing \cup Publishing =>
          at[w].temp \in Names /\ at[w].temp[1] = at[w].path /\ file[at[w].temp] = at[w].hash
    /\ at[w].step \in Writing => at[w].temp = WriterTemp(w)
    /\ at[w].step \in {"final"} \cup Publishing => Done(at[w].hash)
    /\ at[w].step = "commit" =>
          /\ canonical[at[w].path] # None
          /\ file[canonical[at[w].path]] = at[w].hash

AfterInv(w) ==
    /\ at[w].step \in {"committed", "clean", "purge"} => asset # None
    /\ at[w].step = "clean" =>
          at[w].path = asset.path /\ at[w].temp \in Names /\ at[w].temp[1] = at[w].path

WorkerInv(w) == LeaseInv(w) /\ PlaceInv(w) /\ FileInv(w) /\ AfterInv(w)

(* Two attempts have one name only if what it names is complete: the lease of
   the first has run out after its last handoff. *)
Apart(v, w) ==
    v # w /\ Active(v) /\ Active(w) /\ at[v].path # 0 /\ WriterTemp(v) = WriterTemp(w)
      => file[WriterTemp(v)] # None /\ Done(file[WriterTemp(v)])

(* The second path is made by a checkpoint that follows the commit. *)
PathsInv ==
    /\ checkpoint # None => checkpoint.path <= reserved
    /\ asset = None /\ reserved # 0 => reserved = 1 /\ checkpoint # None /\ checkpoint.path = 1
    /\ asset # None => /\ asset.path = 1 /\ reserved # 0
                       /\ reserved = 2 => checkpoint # None /\ checkpoint.path = 2
                       /\ checkpoint # None => checkpoint.path # 1

(* No file is ahead of the paths and the checkpoint. *)
NamesInv ==
    \A n \in Names : file[n] # None =>
        /\ n[1] <= reserved
        /\ checkpoint # None /\ n[1] = checkpoint.path => n[2] <= checkpoint.generation

CanonicalInv ==
    \A p \in Paths : canonical[p] # None =>
        canonical[p][1] = p /\ file[canonical[p]] # None /\ Done(file[canonical[p]])

HandoffInv ==
    checkpoint # None /\ checkpoint.handedOff =>
        /\ checkpoint.path # 0 /\ file[Current] = checkpoint.hash
        /\ Current \in temps \cup lost
        /\ \A w \in Workers : Active(w) /\ WriterTemp(w) = Current => Done(checkpoint.hash)

(* What is about to be collected is old and is not shown. *)
DoomedInv ==
    \A n \in doomed :
        /\ file[n] # None
        /\ checkpoint # None /\ n[1] = checkpoint.path => n[2] < checkpoint.generation
        /\ progress # None => n # progress.temp

ShownInv ==
    progress # None =>
        /\ checkpoint # None /\ progress.temp[1] = checkpoint.path
        /\ progress.temp[2] <= checkpoint.generation
        /\ file[progress.temp] # None /\ Len(file[progress.temp]) >= progress.written
        /\ progress.temp \in temps \cup lost

OriginalInv ==
    /\ asset # None => /\ canonical[asset.path] # None
                       /\ file[canonical[asset.path]] = asset.sha256
                       /\ Done(asset.sha256)
    /\ record = "purged" => asset # None

EndedInv == record \in {"finished", "purged"} => grown = Length

GlobalInv ==
    /\ PathsInv /\ NamesInv /\ CanonicalInv /\ HandoffInv /\ DoomedInv
    /\ ShownInv /\ OriginalInv /\ EndedInv

Inv ==
    /\ TypeOK /\ GlobalInv
    /\ \A w \in Workers : WorkerInv(w)
    /\ \A v, w \in Workers : Apart(v, w)

-----------------------------------------------------------------------------
(* What a step may do that leaves worker v's attempt alone. *)
Steady(v) ==
    /\ at'[v] = at[v]
    /\ (checkpoint' # None /\ checkpoint'.owner = v) =>
          /\ Owns(v) /\ checkpoint'.path = checkpoint.path
          /\ checkpoint'.generation = checkpoint.generation
          /\ WriterTemp(v) \in temps => WriterTemp(v) \in temps'
    /\ lock' = v => lock = v /\ asset' = None /\ checkpoint' # None /\ checkpoint'.owner = v
    /\ (checkpoint' # None /\ at[v].path # 0 /\ checkpoint'.path = at[v].path) =>
          /\ checkpoint # None /\ checkpoint.path = checkpoint'.path
          /\ checkpoint.generation <= checkpoint'.generation
    /\ reserved <= reserved'
    /\ at[v].step \in Before /\ at[v].path # 0 => file'[WriterTemp(v)] = file[WriterTemp(v)]
    /\ at[v].step \in Writing \cup Publishing => file'[at[v].temp] = file[at[v].temp]
    /\ at[v].step = "commit" =>
          /\ canonical'[at[v].path] = canonical[at[v].path]
          /\ file'[canonical[at[v].path]] = file[canonical[at[v].path]]
    /\ \A h \in Contents : Done(h) => Done(h)'
    /\ asset # None => asset' # None /\ asset'.path = asset.path

LEMMA SteadyKeeps ==
  ASSUME TypeOK, TypeOK', NEW v \in Workers, WorkerInv(v), Steady(v)
  PROVE  WorkerInv(v)'
<1>t. /\ at[v] \in Attempts /\ at[v].hash \in Contents /\ at[v].path \in 0..2
      /\ reserved \in 0..2 /\ reserved' \in 0..2
      /\ at[v].generation \in Nat
      /\ checkpoint # None => checkpoint.generation \in Nat
      /\ checkpoint' # None => checkpoint'.generation \in Nat
  BY IngestAssumption DEF TypeOK, WorkersOK, RowsOK, Attempts, Paths, Checkpoints, Generations
<1>1. LeaseInv(v)'
  BY <1>t DEF WorkerInv, LeaseInv, Steady, Owns, Active, WriterTemp
<1>2. PlaceInv(v)'
  BY <1>t DEF WorkerInv, PlaceInv, Steady, Active
<1>3. FileInv(v)'
  <2>1. \A h \in Contents : Done(h) => Done(h)'
    BY DEF Steady
  <2>2. WriterTemp(v)' = WriterTemp(v) /\ at'[v] = at[v]
    BY DEF Steady, WriterTemp
  <2> QED BY <1>t, <2>1, <2>2 DEF WorkerInv, FileInv, Steady, Before, Writing, Publishing
<1>4. AfterInv(v)'
  BY DEF WorkerInv, AfterInv, Steady
<1> QED BY <1>1, <1>2, <1>3, <1>4 DEF WorkerInv

(* An attempt that is over, or that has not begun. *)
Quiet(w) ==
    /\ at[w].path <= reserved
    /\ at[w].step \in {"idle", "acquire", "committed", "purge"}
    /\ at[w].step \in {"committed", "purge"} => asset # None
    /\ ~Owns(w) /\ lock # w

LEMMA QuietIsFine ==
  ASSUME NEW w \in Workers, Quiet(w)'
  PROVE  WorkerInv(w)'
BY DEF Quiet, WorkerInv, LeaseInv, PlaceInv, FileInv, AfterInv, Active, Before, Writing, Publishing

(* The checkpoint loses at most its holder, and no attempt comes to a name. *)
SamePlace ==
    /\ (checkpoint' = None) <=> (checkpoint = None)
    /\ checkpoint # None => /\ checkpoint'.path = checkpoint.path
                            /\ checkpoint'.generation = checkpoint.generation

SameHandoff ==
    /\ SamePlace
    /\ checkpoint # None => /\ checkpoint'.handedOff = checkpoint.handedOff
                            /\ checkpoint'.hash = checkpoint.hash

SameNames ==
    \A v \in Workers : Active(v)' /\ at'[v].path # 0 =>
        Active(v) /\ at'[v].path = at[v].path /\ at'[v].generation = at[v].generation

DoneStays ==
    /\ \A h \in Contents : Done(h) => Done(h)'
    /\ record' = "purged" => record = "purged" \/ asset # None
    /\ EndedInv'

FilesStay == \A n \in Names : file[n] # None /\ Done(file[n]) => file'[n] = file[n]

LEMMA NamesAreNames ==
  ASSUME TypeOK, NEW w \in Workers, PlaceInv(w), Active(w), at[w].path # 0
  PROVE  WriterTemp(w) \in Names
BY DEF TypeOK, WorkersOK, Attempts, PlaceInv, WriterTemp, Names

LEMMA ApartStays ==
  ASSUME Inv, SameNames, DoneStays, FilesStay
  PROVE  \A v, w \in Workers : Apart(v, w)'
<1> SUFFICES ASSUME NEW v \in Workers, NEW w \in Workers, v # w, Active(v)', Active(w)',
                    at'[v].path # 0, WriterTemp(v)' = WriterTemp(w)'
             PROVE  file'[WriterTemp(v)'] # None /\ Done(file[WriterTemp(v)])'
  BY DEF Apart
<1>1. /\ WriterTemp(v)' = WriterTemp(v) /\ WriterTemp(w)' = WriterTemp(w)
      /\ Active(v) /\ Active(w) /\ at[v].path # 0
  BY DEF SameNames, WriterTemp
<1>2. file[WriterTemp(v)] # None /\ Done(file[WriterTemp(v)]) /\ WriterTemp(v) \in Names
  BY <1>1, NamesAreNames DEF Apart, Inv, WorkerInv
<1>3. file'[WriterTemp(v)] = file[WriterTemp(v)] /\ file[WriterTemp(v)] \in Contents
  BY <1>2 DEF FilesStay, Inv, TypeOK, FilesOK
<1>4. Done(file[WriterTemp(v)])'
  BY <1>1, <1>2, <1>3 DEF DoneStays
<1> QED BY <1>1, <1>2, <1>3, <1>4

LEMMA RowsStay ==
  ASSUME Inv, TypeOK', SamePlace, DoneStays, UNCHANGED <<asset, reserved, files>>,
         HandoffInv', ShownInv', DoomedInv'
  PROVE  GlobalInv'
<1> USE DEF files
<1>t. /\ TypeOK /\ (\A h \in Contents : Done(h) => Done(h)')
      /\ \A n \in Names : file[n] # None => file[n] \in Contents
  BY DEF Inv, DoneStays, TypeOK, FilesOK
<1>1. PathsInv'
  BY DEF Inv, GlobalInv, PathsInv, SamePlace
<1>2. NamesInv'
  BY DEF Inv, GlobalInv, NamesInv, SamePlace
<1>3. CanonicalInv'
  <2>1. \A p \in Paths : canonical[p] # None => canonical[p] \in Names
    BY <1>t DEF TypeOK, FilesOK
  <2> QED BY <1>t, <2>1 DEF Inv, GlobalInv, CanonicalInv
<1>4. OriginalInv'
  <2>1. asset # None => asset.sha256 \in Contents
    BY <1>t DEF TypeOK, RowsOK, Originals
  <2> QED BY <1>t, <2>1 DEF Inv, GlobalInv, OriginalInv, DoneStays
<1>5. EndedInv'
  BY DEF DoneStays
<1> QED BY <1>1, <1>2, <1>3, <1>4, <1>5 DEF GlobalInv

LEMMA HandoffStays ==
  ASSUME Inv, SameHandoff, SameNames, DoneStays, UNCHANGED files
  PROVE  HandoffInv'
<1> USE DEF files
<1>t. \A h \in Contents : Done(h) => Done(h)'
  BY DEF DoneStays
<1> SUFFICES ASSUME checkpoint' # None, checkpoint'.handedOff
             PROVE  /\ checkpoint'.path # 0 /\ file'[Current'] = checkpoint'.hash
                    /\ Current' \in temps' \cup lost'
                    /\ \A w \in Workers : Active(w)' /\ WriterTemp(w)' = Current' => Done(checkpoint.hash)'
  BY DEF HandoffInv
<1>1. Current' = Current /\ checkpoint # None /\ checkpoint.handedOff /\ checkpoint' # None
      /\ checkpoint'.hash = checkpoint.hash /\ checkpoint'.path = checkpoint.path
  BY DEF SameHandoff, SamePlace, Current
<1>2. checkpoint.path # 0 /\ file[Current] = checkpoint.hash /\ Current \in temps \cup lost
  BY <1>1 DEF Inv, GlobalInv, HandoffInv
<1>3. ASSUME NEW w \in Workers, Active(w)', WriterTemp(w)' = Current'
      PROVE  Done(checkpoint.hash)'
  <2>1. at'[w].path # 0
    BY <1>1, <1>2, <1>3 DEF WriterTemp, Current
  <2>2. Active(w) /\ WriterTemp(w) = Current
    BY <1>1, <1>3, <2>1 DEF SameNames, WriterTemp
  <2>3. Done(checkpoint.hash) /\ checkpoint.hash \in Contents
    BY <1>1, <2>2 DEF Inv, GlobalInv, HandoffInv, TypeOK, RowsOK, Checkpoints
  <2> QED BY <1>1, <2>3, <1>t DEF Done
<1> QED BY <1>1, <1>2, <1>3

LEMMA ShownStays ==
  ASSUME Inv, SamePlace, UNCHANGED <<progress, files, doomed>>
  PROVE  ShownInv' /\ DoomedInv'
BY DEF Inv, GlobalInv, ShownInv, DoomedInv, SamePlace, files

(* A step that ends attempts, starts them, or only takes time. *)
Stays(v) ==
    /\ at'[v] = at[v]
    /\ Owns(v)' => Owns(v)
    /\ lock' = v => lock = v /\ Owns(v)'

LEMMA OthersStay ==
  ASSUME Inv, TypeOK', SamePlace, DoneStays,
         UNCHANGED <<asset, reserved, files>>,
         NEW v \in Workers, Stays(v)
  PROVE  WorkerInv(v)'
<1>1. checkpoint' # None /\ checkpoint'.owner = v =>
        Owns(v) /\ checkpoint'.path = checkpoint.path /\ checkpoint'.generation = checkpoint.generation
  BY DEF Stays, Owns, SamePlace
<1>2. lock' = v => lock = v /\ asset' = None /\ checkpoint' # None /\ checkpoint'.owner = v
  BY DEF Stays, Owns, Inv, WorkerInv, LeaseInv
<1>3. checkpoint # None => checkpoint.generation \in Nat
  BY IngestAssumption DEF Inv, TypeOK, RowsOK, Checkpoints, Generations
<1>4. reserved <= reserved'
  BY DEF Inv, TypeOK, RowsOK, Paths
<1>5. Steady(v)
  BY <1>1, <1>2, <1>3, <1>4 DEF Stays, Steady, SamePlace, DoneStays, files
<1> QED BY <1>5, SteadyKeeps DEF Inv

LEMMA Bookkeeping ==
  ASSUME Inv, TypeOK', SameHandoff, DoneStays,
         UNCHANGED <<progress, asset, reserved, files, doomed>>,
         \A v \in Workers : Quiet(v)' \/ Stays(v)
  PROVE  Inv'
<1>1. SameNames
  BY DEF SameNames, Quiet, Stays, Active, Before, Writing, Publishing
<1>2. GlobalInv'
  BY <1>1, RowsStay, HandoffStays, ShownStays DEF SameHandoff
<1>3. ASSUME NEW v \in Workers
      PROVE  WorkerInv(v)'
  <2>1. CASE Quiet(v)'
    BY <2>1, QuietIsFine
  <2>2. CASE Stays(v)
    BY <2>2, OthersStay DEF SameHandoff
  <2> QED BY <1>3, <2>1, <2>2
<1>4. FilesStay
  BY DEF FilesStay, files
<1>5. \A v, w \in Workers : Apart(v, w)'
  BY <1>1, <1>4, ApartStays
<1> QED BY <1>2, <1>3, <1>5 DEF Inv

-----------------------------------------------------------------------------
(* How attempts change. *)

LEMMA GotoIs ==
  ASSUME WorkersOK, NEW w \in Workers, NEW step \in Steps, Goto(w, step)
  PROVE  /\ at' \in [Workers -> Attempts]
         /\ at'[w].step = step /\ at'[w].path = at[w].path /\ at'[w].generation = at[w].generation
         /\ at'[w].resumed = at[w].resumed /\ at'[w].hash = at[w].hash /\ at'[w].temp = at[w].temp
         /\ \A v \in Workers : v # w => at'[v] = at[v]
BY DEF WorkersOK, Goto, Attempts

LEMMA AtIs ==
  ASSUME WorkersOK, NEW w \in Workers, NEW a \in Attempts, at' = [at EXCEPT ![w] = a]
  PROVE  /\ at' \in [Workers -> Attempts] /\ at'[w] = a
         /\ \A v \in Workers : v # w => at'[v] = at[v]
BY DEF WorkersOK

LEMMA IdleIs == Idle \in Attempts /\ Idle.step = "idle" /\ Idle.path = 0
BY EmptyContents DEF Idle, Attempts, Steps

LEMMA ReleasedIs ==
  ASSUME RowsOK, NEW w \in Workers
  PROVE  /\ Released(w) \in {None} \cup Checkpoints
         /\ Released(w) = None <=> checkpoint = None
         /\ checkpoint # None =>
               /\ Released(w).owner \in {checkpoint.owner, NoOne} /\ Released(w).owner # w
               /\ Released(w).path = checkpoint.path /\ Released(w).hash = checkpoint.hash
               /\ Released(w).generation = checkpoint.generation
               /\ Released(w).handedOff = checkpoint.handedOff
<1>1. CASE Owns(w)
  <2>1. Released(w) = [checkpoint EXCEPT !.owner = NoOne, !.live = FALSE] /\ checkpoint \in Checkpoints
    BY <1>1 DEF Released, Owns, RowsOK
  <2>2. Released(w) \in Checkpoints
    BY <2>1 DEF Checkpoints
  <2> QED BY <2>1, <2>2, NoneAssumption, IngestAssumption DEF Checkpoints
<1>2. CASE ~Owns(w)
  BY <1>2 DEF Released, Owns, RowsOK
<1> QED BY <1>1, <1>2

-----------------------------------------------------------------------------
(* Each action keeps the invariant: first those that only end or begin
   attempts. *)

LEMMA DoneUnchanged ==
  ASSUME Inv, UNCHANGED mirakc
  PROVE  DoneStays
BY DEF DoneStays, Done, mirakc, Inv, GlobalInv, EndedInv

LEMMA RecordKeeps ==
  ASSUME Inv, Grow \/ EndRecord \/ Requeue
  PROVE  Inv'
<1>1. /\ UNCHANGED <<rows, files, lock, at, doomed, faults, sha256>>
      /\ record = "recording" \/ UNCHANGED <<record, grown>>
  BY DEF Grow, EndRecord, Requeue, mirakc
<1>2. TypeOK'
  <2> USE DEF Inv, TypeOK, RecordOK, mirakc
  <2>a. ASSUME Grow PROVE RecordOK'
    BY <2>a, IngestAssumption DEF Grow
  <2>b. ASSUME EndRecord PROVE RecordOK'
    BY <2>b DEF EndRecord
  <2>c. ASSUME Requeue PROVE RecordOK'
    BY <2>c DEF Requeue
  <2>1. RecordOK'
    BY <2>a, <2>b, <2>c
  <2> QED BY <1>1, <2>1 DEF Inv, TypeOK, RowsOK, FilesOK, WorkersOK, rows, files
<1>3. DoneStays
  <2>1. EndedInv'
    BY DEF Grow, EndRecord, Requeue, Inv, GlobalInv, EndedInv, mirakc
  <2>2. record' = "purged" => record = "purged"
    BY DEF Grow, EndRecord, Requeue, mirakc
  <2> QED BY <1>1, <2>1, <2>2 DEF DoneStays, Done
<1>4. ASSUME NEW v \in Workers PROVE Stays(v)
  BY <1>1 DEF Stays, Owns, rows, Inv, WorkerInv, LeaseInv
<1>5. SameHandoff
  BY <1>1 DEF SameHandoff, SamePlace, rows
<1> QED BY <1>1, <1>2, <1>3, <1>4, <1>5, Bookkeeping DEF rows

LEMMA LeaseKeeps ==
  ASSUME Inv, LeaseOfDead \/ LeaseOfLiving
  PROVE  Inv'
<1>1. /\ UNCHANGED <<mirakc, job, progress, asset, reserved, files, lock, at, doomed>>
      /\ checkpoint # None /\ checkpoint' = [checkpoint EXCEPT !.live = FALSE]
  BY DEF LeaseOfDead, LeaseOfLiving, ExpireLease
<1>2. checkpoint \in Checkpoints
  BY <1>1 DEF Inv, TypeOK, RowsOK
<1>3. checkpoint' \in Checkpoints /\ checkpoint'.owner = checkpoint.owner /\ SameHandoff
  <2>1. checkpoint' \in Checkpoints
    BY <1>1, <1>2 DEF Checkpoints
  <2> QED BY <1>1, <1>2, <2>1, NoneAssumption DEF Checkpoints, SameHandoff, SamePlace
<1>4. faults' \in 0..MaxFaults
  BY IngestAssumption DEF LeaseOfDead, LeaseOfLiving, Fault, Inv, TypeOK, WorkersOK
<1>5. TypeOK'
  BY <1>1, <1>3, <1>4 DEF Inv, TypeOK, RecordOK, RowsOK, FilesOK, WorkersOK, mirakc, files
<1>6. ASSUME NEW v \in Workers PROVE Stays(v)
  BY <1>1, <1>3 DEF Stays, Owns, Inv, WorkerInv, LeaseInv, SameHandoff, SamePlace
<1> QED BY <1>1, <1>3, <1>5, <1>6, DoneUnchanged, Bookkeeping

LEMMA LookupKeeps ==
  ASSUME Inv, NEW w \in Workers, Lookup(w)
  PROVE  Inv'
<1> DEFINE step == IF asset = None THEN "acquire" ELSE "committed"
<1>1. /\ UNCHANGED <<mirakc, job, rows, files, lock, doomed, faults>>
      /\ at[w] = Idle /\ step \in Steps /\ Goto(w, step)
  BY DEF Lookup, Steps
<1>2. /\ at' \in [Workers -> Attempts] /\ at'[w].step = step /\ at'[w].path = 0
      /\ \A v \in Workers : v # w => at'[v] = at[v]
  BY <1>1, GotoIs, IdleIs DEF Inv, TypeOK
<1>3. TypeOK'
  BY <1>1, <1>2 DEF Inv, TypeOK, RecordOK, RowsOK, FilesOK, WorkersOK, mirakc, rows, files
<1>4. ~Owns(w) /\ lock # w
  BY <1>1, IdleIs DEF Inv, WorkerInv, LeaseInv, Active, Before, Writing, Publishing
<1>5. Quiet(w)'
  <2>1. reserved' \in Nat
    BY <1>1 DEF rows, Inv, TypeOK, RowsOK, Paths
  <2> QED BY <1>1, <1>2, <1>4, <2>1 DEF Quiet, Owns, rows
<1>6. ASSUME NEW v \in Workers, v # w PROVE Stays(v)
  BY <1>1, <1>2, <1>6 DEF Stays, Owns, rows, Inv, WorkerInv, LeaseInv
<1>7. SameHandoff
  BY <1>1 DEF SameHandoff, SamePlace, rows
<1> QED BY <1>1, <1>3, <1>5, <1>6, <1>7, DoneUnchanged, Bookkeeping DEF rows

LEMMA LoseTransactionKeeps ==
  ASSUME Inv, NEW w \in Workers, LoseTransaction(w)
  PROVE  Inv'
<1>1. /\ UNCHANGED <<mirakc, job, rows, files, at, doomed>> /\ lock' = NoOne
      /\ faults' \in 0..MaxFaults
  BY IngestAssumption DEF LoseTransaction, Fault, Inv, TypeOK, WorkersOK
<1>2. TypeOK'
  BY <1>1 DEF Inv, TypeOK, RecordOK, RowsOK, FilesOK, WorkersOK, mirakc, rows, files
<1>3. ASSUME NEW v \in Workers PROVE Stays(v)
  BY <1>1, IngestAssumption DEF Stays, Owns, rows
<1>4. SameHandoff
  BY <1>1 DEF SameHandoff, SamePlace, rows
<1> QED BY <1>1, <1>2, <1>3, <1>4, DoneUnchanged, Bookkeeping DEF rows

(* The attempt of w is over and it holds nothing any more. *)
LEMMA AttemptEnds ==
  ASSUME Inv, NEW w \in Workers, at' = [at EXCEPT ![w] = Idle], lock' \in {lock, NoOne}, lock' # w,
         checkpoint' \in {None} \cup Checkpoints, SameHandoff, DoneStays,
         checkpoint # None => checkpoint'.owner \in {checkpoint.owner, NoOne} /\ checkpoint'.owner # w,
         lock' # NoOne /\ checkpoint # None => checkpoint'.owner = checkpoint.owner,
         RecordOK', faults' \in 0..MaxFaults,
         UNCHANGED <<progress, asset, reserved, files, doomed>>
  PROVE  Inv'
<1>1. at' \in [Workers -> Attempts] /\ at'[w] = Idle /\ \A v \in Workers : v # w => at'[v] = at[v]
  BY AtIs, IdleIs DEF Inv, TypeOK
<1>2. TypeOK'
  BY <1>1 DEF Inv, TypeOK, RecordOK, RowsOK, FilesOK, WorkersOK, files
<1>3. Quiet(w)'
  <2>1. reserved' \in Nat
    BY DEF Inv, TypeOK, RowsOK, Paths
  <2> QED BY <1>1, <2>1, IdleIs DEF Quiet, Owns, SameHandoff, SamePlace
<1>4. ASSUME NEW v \in Workers, v # w PROVE Stays(v)
  <2>1. Owns(v)' => Owns(v)
    BY <1>4, IngestAssumption DEF Owns, SameHandoff, SamePlace
  <2>2. lock' = v => lock = v /\ Owns(v)'
    BY <1>4, IngestAssumption DEF Owns, SameHandoff, SamePlace, Inv, WorkerInv, LeaseInv
  <2> QED BY <1>1, <1>4, <2>1, <2>2 DEF Stays
<1> QED BY <1>2, <1>3, <1>4, Bookkeeping

LEMMA ReleaseKeeps ==
  ASSUME Inv, NEW w \in Workers, GiveUp(w) \/ Fails(w)
  PROVE  Inv'
<1>1. /\ UNCHANGED <<mirakc, job, progress, asset, reserved, files, doomed>>
      /\ checkpoint' = Released(w) /\ at' = [at EXCEPT ![w] = Idle] /\ lock' = NoOne
  BY DEF GiveUp, Fails, Release
<1>2. faults' \in 0..MaxFaults
  BY IngestAssumption DEF GiveUp, Fails, Fault, Inv, TypeOK, WorkersOK
<1>3. RowsOK
  BY DEF Inv, TypeOK
<1>4. SameHandoff
  BY <1>1, <1>3, ReleasedIs DEF SameHandoff, SamePlace
<1>5. RecordOK'
  BY <1>1 DEF Inv, TypeOK, RecordOK, mirakc
<1> QED BY <1>1, <1>2, <1>3, <1>4, <1>5, ReleasedIs, AttemptEnds, DoneUnchanged, IngestAssumption

LEMMA CrashKeeps ==
  ASSUME Inv, NEW w \in Workers, Crash(w)
  PROVE  Inv'
<1>1. /\ UNCHANGED <<mirakc, job, progress, asset, reserved, files, doomed>>
      /\ checkpoint' = IF Owns(w) THEN [checkpoint EXCEPT !.owner = NoOne] ELSE checkpoint
      /\ at' = [at EXCEPT ![w] = Idle] /\ lock' = IF lock = w THEN NoOne ELSE lock
      /\ checkpoint \in {None} \cup Checkpoints
  BY DEF Crash, Inv, TypeOK, RowsOK
<1>2. faults' \in 0..MaxFaults
  BY IngestAssumption DEF Crash, Fault, Inv, TypeOK, WorkersOK
<1>3. /\ checkpoint' \in {None} \cup Checkpoints /\ SameHandoff
      /\ checkpoint # None => checkpoint'.owner = IF Owns(w) THEN NoOne ELSE checkpoint.owner
  <2>1. CASE Owns(w)
    <3>1. checkpoint \in Checkpoints /\ checkpoint' = [checkpoint EXCEPT !.owner = NoOne]
      BY <1>1, <2>1 DEF Owns
    <3>2. checkpoint' \in Checkpoints
      BY <3>1 DEF Checkpoints
    <3> QED BY <2>1, <3>1, <3>2, NoneAssumption DEF Checkpoints, SameHandoff, SamePlace
  <2>2. CASE ~Owns(w)
    BY <1>1, <2>2 DEF SameHandoff, SamePlace
  <2> QED BY <2>1, <2>2
<1>4. lock' # NoOne /\ checkpoint # None => checkpoint'.owner = checkpoint.owner
  <2>1. lock # NoOne => Owns(lock)
    BY DEF Inv, TypeOK, WorkersOK, WorkerInv, LeaseInv
  <2> QED BY <1>1, <1>3, <2>1, IngestAssumption DEF Owns
<1>5. RecordOK'
  BY <1>1 DEF Inv, TypeOK, RecordOK, mirakc
<1>6. checkpoint # None => checkpoint'.owner # w
  BY <1>3, IngestAssumption DEF Owns
<1>7. lock' # w /\ lock' \in {lock, NoOne}
  BY <1>1, IngestAssumption
<1> QED BY <1>1, <1>2, <1>3, <1>4, <1>5, <1>6, <1>7, AttemptEnds, DoneUnchanged

(* What mirakc deletes has been committed. *)
LEMMA DeleteEdgeRecordKeeps ==
  ASSUME Inv, NEW w \in Workers, DeleteEdgeRecord(w)
  PROVE  Inv'
<1>1. /\ UNCHANGED <<grown, sha256, rows, files, lock, doomed>> /\ at[w].step = "purge"
      /\ record' \in {record, "purged"} /\ job' = FALSE /\ at' = [at EXCEPT ![w] = Idle]
  BY DEF DeleteEdgeRecord
<1>2. faults' \in 0..MaxFaults
  BY IngestAssumption DEF DeleteEdgeRecord, Fault, Inv, TypeOK, WorkersOK
<1>3. RecordOK'
  BY <1>1 DEF Inv, TypeOK, RecordOK
<1>4. asset # None /\ grown = Length
  BY <1>1 DEF Inv, WorkerInv, AfterInv, GlobalInv, OriginalInv, Done
<1>5. DoneStays
  BY <1>1, <1>4 DEF DoneStays, Done, EndedInv
<1>6. ~Owns(w) /\ lock # w
  BY <1>1 DEF Inv, WorkerInv, LeaseInv, Active, Before, Writing, Publishing
<1>7. SameHandoff /\ checkpoint' \in {None} \cup Checkpoints
  BY <1>1 DEF SameHandoff, SamePlace, rows, Inv, TypeOK, RowsOK
<1> QED BY <1>1, <1>2, <1>3, <1>5, <1>6, <1>7, AttemptEnds DEF rows, Owns

-----------------------------------------------------------------------------
(* An attempt goes on, and no row and no file changes. *)

LEMMA OneGoesOn ==
  ASSUME Inv, TypeOK', SamePlace, SameNames, DoneStays, UNCHANGED <<asset, reserved, files>>,
         HandoffInv', ShownInv', DoomedInv',
         NEW w \in Workers, WorkerInv(w)', \A v \in Workers : v # w => Stays(v)
  PROVE  Inv'
<1>1. GlobalInv'
  BY RowsStay
<1>2. \A v \in Workers : WorkerInv(v)'
  BY OthersStay
<1>3. FilesStay
  BY DEF FilesStay, files
<1> QED BY <1>1, <1>2, <1>3, ApartStays DEF Inv

LEMMA BeginPublicationKeeps ==
  ASSUME Inv, NEW w \in Workers, BeginPublication(w)
  PROVE  Inv'
<1>1. /\ UNCHANGED <<mirakc, job, rows, files, doomed, faults>> /\ lock' = w
      /\ at[w].step = "publish" /\ Owns(w) /\ asset = None /\ "link" \in Steps /\ Goto(w, "link")
  BY DEF BeginPublication, Leased, OwnsWriter, Steps
<1>2. /\ at' \in [Workers -> Attempts]
      /\ at'[w].step = "link" /\ at'[w].path = at[w].path /\ at'[w].generation = at[w].generation
      /\ at'[w].resumed = at[w].resumed /\ at'[w].hash = at[w].hash /\ at'[w].temp = at[w].temp
      /\ \A v \in Workers : v # w => at'[v] = at[v]
  BY <1>1, GotoIs DEF Inv, TypeOK
<1>3. TypeOK'
  BY <1>1, <1>2 DEF Inv, TypeOK, RecordOK, RowsOK, FilesOK, WorkersOK, mirakc, rows, files
<1>4. WorkerInv(w)'
  <2>1. LeaseInv(w)' /\ AfterInv(w)' /\ PlaceInv(w)'
    BY <1>1, <1>2 DEF Inv, WorkerInv, LeaseInv, AfterInv, PlaceInv, Owns, Active, rows,
                      Before, Writing, Publishing
  <2>2. FileInv(w)'
    BY <1>1, <1>2 DEF Inv, WorkerInv, FileInv, Done, files, mirakc, Before, Writing, Publishing
  <2> QED BY <2>1, <2>2 DEF WorkerInv
<1>5. \A v \in Workers : v # w => Stays(v)
  BY <1>1, <1>2 DEF Stays, Owns, rows
<1>6. SameHandoff /\ SameNames
  BY <1>1, <1>2 DEF SameHandoff, SamePlace, SameNames, rows, Active, Publishing
<1> QED BY <1>1, <1>3, <1>4, <1>5, <1>6, DoneUnchanged,
       HandoffStays, ShownStays, OneGoesOn DEF rows, SameHandoff

LEMMA InspectKeeps ==
  ASSUME Inv, NEW w \in Workers, Inspect(w)
  PROVE  Inv'
<1> DEFINE a == IF LinkedHandoff(w) THEN [at[w] EXCEPT !.step = "final", !.temp = WriterTemp(w)]
                ELSE IF LinkedProgress(w)
                THEN [at[w] EXCEPT !.step = "publish", !.temp = progress.temp,
                                   !.hash = file[progress.temp]]
                ELSE [at[w] EXCEPT !.step = "open"]
<1>1. /\ UNCHANGED <<mirakc, job, rows, files, lock, doomed, faults>>
      /\ at[w].step = "inspect" /\ at' = [at EXCEPT ![w] = a]
  BY DEF Inspect
<1>t. /\ at[w] \in Attempts /\ at[w].path \in Paths /\ Active(w) /\ WriterTemp(w) \in Names
      /\ at[w].resumed => file[WriterTemp(w)] = at[w].hash
      /\ ~at[w].resumed => at[w].hash = <<>> /\ file[WriterTemp(w)] = None
  BY <1>1, NamesAreNames
     DEF Inv, TypeOK, WorkersOK, WorkerInv, PlaceInv, FileInv, Attempts, Active, Before
<1>2. /\ a \in Attempts
      /\ a.path = at[w].path /\ a.generation = at[w].generation /\ a.resumed = at[w].resumed
      /\ \/ /\ a.step = "final" /\ a.temp = WriterTemp(w) /\ a.temp \in temps
            /\ a.hash = at[w].hash
         \/ a.step = "publish"
         \/ a.step = "open" /\ a.hash = at[w].hash
      /\ a.step # "open" => /\ a.temp \in Names /\ a.temp[1] = a.path /\ file[a.temp] = a.hash
                            /\ Done(a.hash)
  <2>1. CASE LinkedHandoff(w)
    <3>1. a = [at[w] EXCEPT !.step = "final", !.temp = WriterTemp(w)] /\ at[w].resumed
          /\ canonical[at[w].path] = WriterTemp(w) /\ WriterTemp(w) \in temps
      BY <2>1 DEF LinkedHandoff, SameFile
    <3>2. WriterTemp(w) # None
      BY <1>t, NoneAssumption
    <3>3. Done(file[WriterTemp(w)]) /\ WriterTemp(w)[1] = at[w].path
      BY <1>t, <3>1, <3>2 DEF Inv, GlobalInv, CanonicalInv
    <3>4. a \in Attempts /\ a.step = "final" /\ a.temp = WriterTemp(w) /\ a.hash = at[w].hash
          /\ a.path = at[w].path /\ a.generation = at[w].generation /\ a.resumed = at[w].resumed
      BY <1>t, <3>1 DEF Attempts, Steps
    <3> QED BY <1>t, <3>1, <3>3, <3>4
  <2>2. CASE ~LinkedHandoff(w) /\ LinkedProgress(w)
    <3>1. a = [at[w] EXCEPT !.step = "publish", !.temp = progress.temp, !.hash = file[progress.temp]]
          /\ progress # None /\ canonical[at[w].path] = progress.temp
      BY <2>2 DEF LinkedProgress, SameFile
    <3>2. progress.temp \in Names
      BY <3>1 DEF Inv, TypeOK, RowsOK, Progress
    <3>3. /\ progress.temp[1] = at[w].path /\ file[progress.temp] # None
          /\ Done(file[progress.temp]) /\ file[progress.temp] \in Contents
      BY <1>t, <3>1, <3>2, NoneAssumption DEF Inv, GlobalInv, CanonicalInv, TypeOK, FilesOK
    <3>4. a \in Attempts /\ a.step = "publish" /\ a.temp = progress.temp
          /\ a.hash = file[progress.temp]
          /\ a.path = at[w].path /\ a.generation = at[w].generation /\ a.resumed = at[w].resumed
      BY <1>t, <3>1, <3>2, <3>3 DEF Attempts, Steps
    <3> QED BY <3>2, <3>3, <3>4
  <2>3. CASE ~LinkedHandoff(w) /\ ~LinkedProgress(w)
    <3>1. a = [at[w] EXCEPT !.step = "open"]
      BY <2>3
    <3> QED BY <1>t, <3>1 DEF Attempts, Steps
  <2> QED BY <2>1, <2>2, <2>3
<1> HIDE DEF a
<1>3. /\ at' \in [Workers -> Attempts] /\ at'[w] = a /\ \A v \in Workers : v # w => at'[v] = at[v]
  BY <1>1, <1>2, AtIs DEF Inv, TypeOK
<1>4. TypeOK'
  BY <1>1, <1>3 DEF Inv, TypeOK, RecordOK, RowsOK, FilesOK, WorkersOK, mirakc, rows, files
<1>5. WorkerInv(w)'
  <2>1. LeaseInv(w)'
    BY <1>1, <1>2, <1>3 DEF Inv, WorkerInv, LeaseInv, Owns, Active, WriterTemp, rows, files,
                            Before, Writing, Publishing
  <2>2. AfterInv(w)' /\ PlaceInv(w)'
    BY <1>1, <1>2, <1>3, <1>t DEF Inv, WorkerInv, AfterInv, PlaceInv, Active, rows, Paths
  <2>3. FileInv(w)'
    BY <1>1, <1>2, <1>3, <1>t
    DEF FileInv, WriterTemp, Done, mirakc, files, Before, Writing, Publishing, Paths
  <2> QED BY <2>1, <2>2, <2>3 DEF WorkerInv
<1>6. \A v \in Workers : v # w => Stays(v)
  BY <1>1, <1>3 DEF Stays, Owns, rows, Inv, WorkerInv, LeaseInv
<1>7. SameHandoff /\ SameNames
  BY <1>1, <1>2, <1>3, <1>t DEF SameHandoff, SamePlace, SameNames, rows, Active
<1> QED BY <1>1, <1>4, <1>5, <1>6, <1>7, DoneUnchanged,
       HandoffStays, ShownStays, OneGoesOn DEF rows, SameHandoff

-----------------------------------------------------------------------------
(* The checkpoint is taken, and gets its path. *)

LEMMA LinkedStays ==
  ASSUME Inv, UNCHANGED <<mirakc, asset, canonical>>, FilesStay
  PROVE  CanonicalInv' /\ OriginalInv' /\ EndedInv'
<1>1. \A p \in Paths : canonical[p] # None =>
        canonical[p] \in Names /\ file'[canonical[p]] = file[canonical[p]]
  BY DEF Inv, TypeOK, FilesOK, GlobalInv, CanonicalInv, FilesStay
<1>2. CanonicalInv' /\ EndedInv'
  BY <1>1 DEF Inv, GlobalInv, CanonicalInv, EndedInv, Done, mirakc
<1>3. asset # None => asset.path \in Paths
  BY DEF Inv, TypeOK, RowsOK, Originals
<1>4. OriginalInv'
  BY <1>1, <1>3 DEF Inv, GlobalInv, OriginalInv, Done, mirakc
<1> QED BY <1>2, <1>4

LEMMA PrepareKeeps ==
  ASSUME Inv, NEW w \in Workers, Prepare(w)
  PROVE  Inv'
<1>1. /\ UNCHANGED <<mirakc, job, progress, asset, files, lock, doomed, faults>>
      /\ at[w].step = "prepare" /\ "inspect" \in Steps /\ Active(w)
  BY DEF Prepare, Steps, Active, Before
<1>t. /\ at[w] \in Attempts /\ reserved \in 0..2 /\ lock # w
      /\ \A v \in Workers : at[v].path \in 0..2 /\ at[v].path <= reserved
  BY <1>1 DEF Inv, TypeOK, WorkersOK, RowsOK, Paths, Attempts, WorkerInv, LeaseInv, PlaceInv
<1>2. CASE at[w].path # 0
  <2>1. Goto(w, "inspect") /\ UNCHANGED rows
    BY <1>1, <1>2 DEF Prepare, rows
  <2>2. /\ at' \in [Workers -> Attempts]
        /\ at'[w].step = "inspect" /\ at'[w].path = at[w].path /\ at'[w].generation = at[w].generation
        /\ at'[w].resumed = at[w].resumed /\ at'[w].hash = at[w].hash /\ at'[w].temp = at[w].temp
        /\ \A v \in Workers : v # w => at'[v] = at[v]
    BY <1>1, <2>1, GotoIs DEF Inv, TypeOK
  <2>3. TypeOK'
    BY <1>1, <2>1, <2>2 DEF Inv, TypeOK, RecordOK, RowsOK, FilesOK, WorkersOK, mirakc, rows, files
  <2>4. WorkerInv(w)'
    <3>1. LeaseInv(w)' /\ AfterInv(w)' /\ PlaceInv(w)'
      BY <1>1, <1>2, <1>t, <2>1, <2>2 DEF Inv, WorkerInv, LeaseInv, AfterInv, PlaceInv, Owns, Active, rows,
                        Before, Writing, Publishing
    <3>2. FileInv(w)'
      BY <1>1, <2>2 DEF Inv, WorkerInv, FileInv, files, Before, Writing, Publishing, WriterTemp
    <3> QED BY <3>1, <3>2 DEF WorkerInv
  <2>5. \A v \in Workers : v # w => Stays(v)
    BY <1>1, <2>1, <2>2 DEF Stays, Owns, rows, Inv, WorkerInv, LeaseInv
  <2>6. SameHandoff /\ SameNames
    BY <1>1, <2>1, <2>2 DEF SameHandoff, SamePlace, SameNames, rows, Active
  <2> QED BY <1>1, <2>1, <2>3, <2>4, <2>5, <2>6, DoneUnchanged,
       HandoffStays, ShownStays, OneGoesOn DEF rows, SameHandoff
<1>3. CASE at[w].path = 0
  <2> DEFINE a == [at[w] EXCEPT !.step = "inspect", !.path = reserved + 1]
  <2>1. checkpoint \in Checkpoints /\ checkpoint # None /\ checkpoint.owner = w /\ checkpoint.path = 0
    BY <1>1, <1>3, NoneAssumption DEF Prepare, Owns, Inv, TypeOK, RowsOK, WorkerInv, LeaseInv
  <2>2. /\ checkpoint' = [checkpoint EXCEPT !.path = reserved + 1] /\ reserved' = reserved + 1
        /\ at' = [at EXCEPT ![w].step = "inspect", ![w].path = reserved + 1]
    BY <1>1, <1>3, <2>1 DEF Prepare
  <2>3. IF asset = None THEN reserved = 0 ELSE reserved = 1 /\ asset.path = 1
    BY <1>t, <2>1 DEF Inv, GlobalInv, PathsInv
  <2>4. /\ checkpoint' \in Checkpoints /\ checkpoint' # None /\ checkpoint'.owner = w
        /\ checkpoint'.path = reserved + 1 /\ checkpoint'.handedOff = checkpoint.handedOff
        /\ checkpoint'.generation = checkpoint.generation /\ reserved' \in Paths
    <3>1. checkpoint' \in Checkpoints
      BY <2>1, <2>2, <2>3 DEF Checkpoints, Paths
    <3> QED BY <2>1, <2>2, <2>3, <3>1, NoneAssumption DEF Checkpoints, Paths
  <2>5. /\ a \in Attempts /\ a.step = "inspect" /\ a.path = reserved + 1
        /\ a.generation = at[w].generation /\ a.resumed = at[w].resumed /\ a.hash = at[w].hash
        /\ at' = [at EXCEPT ![w] = a]
    BY <1>t, <2>2, <2>3 DEF Attempts, Steps, Paths, Inv, TypeOK, WorkersOK
  <2> HIDE DEF a
  <2>6. at' \in [Workers -> Attempts] /\ at'[w] = a /\ \A v \in Workers : v # w => at'[v] = at[v]
    BY <2>5, AtIs DEF Inv, TypeOK
  <2>7. TypeOK'
    BY <1>1, <2>4, <2>6 DEF Inv, TypeOK, RecordOK, RowsOK, FilesOK, WorkersOK, mirakc, files
  <2>8. /\ ~at[w].resumed /\ at[w].hash = <<>> /\ at[w].generation = checkpoint.generation
        /\ at[w].generation # 0
    BY <1>1, <1>3, <2>1 DEF Inv, WorkerInv, FileInv, LeaseInv, PlaceInv, Owns, Before
  <2>9. \A n \in Names : file[n] # None => n[1] # reserved + 1
    BY <1>t DEF Inv, GlobalInv, NamesInv, Names, Paths
  <2>10. WorkerInv(w)'
    <3>1. LeaseInv(w)' /\ AfterInv(w)' /\ PlaceInv(w)'
      BY <1>1, <1>t, <2>2, <2>4, <2>5, <2>6, <2>8, IngestAssumption
      DEF WorkerInv, LeaseInv, AfterInv, PlaceInv, Owns, Active, Before, Writing, Publishing,
          Checkpoints, Generations
    <3>2. file'[WriterTemp(w)'] = None
      <4>1. WriterTemp(w)' = <<reserved + 1, at[w].generation>>
        BY <2>5, <2>6 DEF WriterTemp
      <4>2. WriterTemp(w)' \in Names
        BY <2>3, <2>1, <2>8, <4>1 DEF Names, Paths, Checkpoints
      <4> QED BY <1>1, <2>9, <4>1, <4>2 DEF files
    <3>3. FileInv(w)'
      BY <2>5, <2>6, <2>8, <3>2 DEF FileInv, Before, Writing, Publishing
    <3> QED BY <3>1, <3>3 DEF WorkerInv
  <2>11. ASSUME NEW v \in Workers, v # w PROVE WorkerInv(v)'
    <3>1. Steady(v)
      BY <1>1, <1>t, <2>1, <2>2, <2>3, <2>4, <2>6, <2>11, DoneUnchanged
      DEF Steady, Owns, files, DoneStays, Inv, WorkerInv, LeaseInv
    <3> QED BY <2>7, <3>1, SteadyKeeps DEF Inv
  <2>12. GlobalInv'
    <3>1. PathsInv'
      BY <1>1, <1>t, <2>2, <2>3, <2>4 DEF PathsInv
    <3>2. NamesInv'
      BY <1>1, <1>t, <2>2, <2>4, <2>9 DEF Inv, GlobalInv, NamesInv, Names, Paths, files
    <3>3. HandoffInv'
      BY <2>1, <2>4 DEF Inv, GlobalInv, HandoffInv
    <3>4. DoomedInv'
      BY <1>1, <2>4, <2>9 DEF Inv, GlobalInv, DoomedInv, TypeOK, FilesOK, files
    <3>5. progress = None
      BY <2>1 DEF Inv, GlobalInv, ShownInv, TypeOK, RowsOK, Progress, Names, Paths
    <3>6. ShownInv'
      BY <1>1, <3>5 DEF ShownInv
    <3>7. FilesStay
      BY <1>1 DEF FilesStay, files
    <3> QED BY <1>1, <3>1, <3>2, <3>3, <3>4, <3>6, <3>7, LinkedStays DEF GlobalInv, files
  <2>13. \A u, v \in Workers : Apart(u, v)'
    <3>1. \A v \in Workers : v # w => Active(v)' = Active(v) /\ WriterTemp(v)' = WriterTemp(v)
                                       /\ at'[v].path # reserved + 1
      BY <1>t, <2>6 DEF Active, WriterTemp
    <3>2. WriterTemp(w)' = <<reserved + 1, at[w].generation>> /\ at'[w].path = reserved + 1
      BY <2>5, <2>6 DEF WriterTemp
    <3>3. ASSUME NEW u \in Workers, NEW v \in Workers PROVE Apart(u, v)'
      <4>1. CASE u # w /\ v # w
        BY <1>1, <2>6, <3>1, <4>1 DEF Inv, Apart, files, Done, mirakc
      <4>2. CASE u = w \/ v = w
        BY <2>6, <3>1, <3>2, <4>2 DEF Apart, WriterTemp
      <4> QED BY <4>1, <4>2
    <3> QED BY <3>3
  <2> QED BY <2>7, <2>10, <2>11, <2>12, <2>13 DEF Inv
<1> QED BY <1>2, <1>3

(* A writer begins: the row is its own, and its name is new or was handed off. *)
LEMMA WriterBegins ==
  ASSUME Inv, NEW w \in Workers, NEW c \in Checkpoints, NEW a \in Attempts,
         c.owner = w, ~c.handedOff, c.path # 1 \/ asset = None,
         c.path # 0 => checkpoint # None /\ c.path = checkpoint.path,
         checkpoint # None => c.path = checkpoint.path /\ checkpoint.generation <= c.generation,
         a.step \in Before, a.path = c.path, a.generation = c.generation,
         a.path = 0 => a.step = "prepare",
         checkpoint # None => checkpoint.generation < c.generation \/ checkpoint.handedOff,
         IF a.resumed
         THEN checkpoint # None /\ checkpoint.handedOff /\ c.generation = checkpoint.generation
              /\ a.hash = checkpoint.hash
         ELSE a.hash = <<>> /\ (checkpoint # None => checkpoint.generation < c.generation),
         checkpoint' = c, at' = [at EXCEPT ![w] = a],
         checkpoint = None \/ checkpoint.owner \in {w, NoOne} \/ ~checkpoint.live,
         lock \in {w, NoOne}, at[w].step \notin {"link", "commit"},
         UNCHANGED <<mirakc, job, progress, asset, reserved, files, lock, doomed, faults>>
  PROVE  Inv'
<1>t. /\ c # None /\ c.path \in 0..2 /\ c.generation \in Nat \ {0} /\ reserved \in 0..2
      /\ checkpoint # None => checkpoint.generation \in Nat
      /\ (\A v \in Workers : at[v].path <= reserved /\ at[v].path \in 0..2)
      /\ lock = NoOne
  BY NoneAssumption, IngestAssumption
  DEF Checkpoints, Generations, Paths, Inv, TypeOK, RowsOK, WorkersOK, Attempts,
      WorkerInv, PlaceInv, LeaseInv
<1>p. c.path <= reserved
  BY <1>t DEF Inv, GlobalInv, PathsInv
<1>1. at' \in [Workers -> Attempts] /\ at'[w] = a /\ \A v \in Workers : v # w => at'[v] = at[v]
  BY AtIs DEF Inv, TypeOK
<1>2. TypeOK'
  BY <1>1 DEF Inv, TypeOK, RecordOK, RowsOK, FilesOK, WorkersOK, mirakc, files
<1>3. a.path # 0 => /\ WriterTemp(w)' = <<c.path, c.generation>> /\ WriterTemp(w)' \in Names
                    /\ IF a.resumed THEN file[WriterTemp(w)'] = a.hash
                                    ELSE file[WriterTemp(w)'] = None
  <2> SUFFICES ASSUME a.path # 0
               PROVE  /\ WriterTemp(w)' = <<c.path, c.generation>> /\ WriterTemp(w)' \in Names
                      /\ IF a.resumed THEN file[WriterTemp(w)'] = a.hash
                                      ELSE file[WriterTemp(w)'] = None
    OBVIOUS
  <2>1. WriterTemp(w)' = <<c.path, c.generation>>
    BY <1>1 DEF WriterTemp
  <2>2. WriterTemp(w)' \in Names
    BY <2>1 DEF Names, Checkpoints
  <2>3. CASE a.resumed
    <3>1. WriterTemp(w)' = Current
      BY <2>1, <2>3 DEF Current
    <3>2. file[Current] = checkpoint.hash
      BY <2>3 DEF Inv, GlobalInv, HandoffInv
    <3> QED BY <2>1, <2>2, <2>3, <3>1, <3>2
  <2>4. CASE ~a.resumed
    BY <1>t, <2>1, <2>2, <2>4 DEF Inv, GlobalInv, NamesInv, Names, Generations
  <2> QED BY <2>1, <2>2, <2>3, <2>4
<1>4. WorkerInv(w)'
  <2>1. LeaseInv(w)' /\ AfterInv(w)' /\ PlaceInv(w)'
    BY <1>t, <1>p, <1>1, IngestAssumption
    DEF LeaseInv, AfterInv, PlaceInv, Owns, Active, Before, Writing, Publishing
  <2>2. a.resumed => a.path # 0
    BY DEF Inv, GlobalInv, HandoffInv
  <2>3. FileInv(w)'
    BY <1>1, <1>3, <2>2 DEF FileInv, files, Before, Writing, Publishing
  <2> QED BY <2>1, <2>3 DEF WorkerInv
<1>5. ASSUME NEW v \in Workers, v # w PROVE WorkerInv(v)'
  <2>1. Steady(v)
    BY <1>t, <1>1, <1>5, DoneUnchanged, IngestAssumption
    DEF Steady, DoneStays, files
  <2> QED BY <1>2, <2>1, SteadyKeeps DEF Inv
<1>6. GlobalInv'
  <2>1. PathsInv'
    BY <1>t, <1>p DEF Inv, GlobalInv, PathsInv
  <2>2. NamesInv'
    BY <1>t DEF Inv, GlobalInv, NamesInv, Names, Generations, Paths, files
  <2>3. HandoffInv'
    BY DEF HandoffInv
  <2>4. DoomedInv'
    BY <1>t DEF Inv, GlobalInv, DoomedInv, TypeOK, FilesOK, Names, Generations, Paths, files
  <2>5. ShownInv'
    BY <1>t, IngestAssumption
    DEF Inv, GlobalInv, ShownInv, TypeOK, RowsOK, Progress, Names, Generations, Paths, files
  <2>6. FilesStay
    BY DEF FilesStay, files
  <2> QED BY <2>1, <2>2, <2>3, <2>4, <2>5, <2>6, LinkedStays DEF GlobalInv, files
<1>7. \A u, v \in Workers : Apart(u, v)'
  <2>1. ASSUME NEW v \in Workers, v # w, Active(v), a.path # 0, WriterTemp(v) = <<c.path, c.generation>>
        PROVE  file[WriterTemp(v)] # None /\ Done(file[WriterTemp(v)])
    <3>1. at[v].path = c.path /\ at[v].generation = c.generation /\ checkpoint # None
          /\ at[v].generation <= checkpoint.generation
      BY <2>1 DEF WriterTemp, Inv, WorkerInv, PlaceInv
    <3>2. checkpoint.handedOff /\ c.generation = checkpoint.generation
      BY <1>t, <3>1
    <3>3. WriterTemp(v) = Current /\ checkpoint.hash \in Contents
      BY <2>1, <3>1, <3>2 DEF Current, Inv, TypeOK, RowsOK, Checkpoints
    <3> QED BY <2>1, <3>1, <3>2, <3>3, NoneAssumption DEF Inv, GlobalInv, HandoffInv
  <2>2. WriterTemp(w)' = <<c.path, c.generation>> /\ at'[w].path = c.path
    BY <1>1 DEF WriterTemp
  <2>3. \A v \in Workers : v # w => Active(v)' = Active(v) /\ WriterTemp(v)' = WriterTemp(v)
                                     /\ at'[v].path = at[v].path
    BY <1>1 DEF Active, WriterTemp
  <2>4. ASSUME NEW u \in Workers, NEW v \in Workers PROVE Apart(u, v)'
    <3>1. CASE u # w /\ v # w
      BY <2>3, <3>1 DEF Inv, Apart, files, Done, mirakc
    <3>2. CASE u = w
      BY <2>1, <2>2, <2>3, <3>2 DEF Apart, files, Done, mirakc
    <3>3. CASE v = w /\ u # w
      <4> SUFFICES ASSUME Active(u), at[u].path # 0, WriterTemp(u) = <<c.path, c.generation>>
                   PROVE  file[WriterTemp(u)] # None /\ Done(file[WriterTemp(u)])
        BY <2>2, <2>3, <3>3 DEF Apart, files, Done, mirakc
      <4> QED BY <2>1, <3>3 DEF WriterTemp
    <3> QED BY <3>1, <3>2, <3>3
  <2> QED BY <2>4
<1> QED BY <1>2, <1>4, <1>5, <1>6, <1>7 DEF Inv

LEMMA AcquireKeeps ==
  ASSUME Inv, NEW w \in Workers, Acquire(w)
  PROVE  Inv'
<1>1. /\ UNCHANGED <<mirakc, job, progress, asset, reserved, files, lock, doomed, faults>>
      /\ at[w].step = "acquire" /\ lock \in {NoOne, w}
  BY DEF Acquire, Free
<1>t. /\ Idle \in Attempts /\ Idle.hash = <<>> /\ <<>> \in Contents
      /\ at \in [Workers -> Attempts] /\ lock # w /\ ~Owns(w)
  BY <1>1, IdleIs, EmptyContents
  DEF Inv, TypeOK, WorkersOK, WorkerInv, LeaseInv, Idle, Active, Before, Writing, Publishing
<1>2. CASE checkpoint # None /\ checkpoint.live
  <2>1. at' = [at EXCEPT ![w] = Idle] /\ UNCHANGED checkpoint
    BY <1>2 DEF Acquire
  <2>2. SameHandoff /\ RecordOK' /\ checkpoint \in {None} \cup Checkpoints /\ faults' \in 0..MaxFaults
    BY <1>1, <2>1 DEF SameHandoff, SamePlace, Inv, TypeOK, RecordOK, RowsOK, WorkersOK, mirakc
  <2> QED BY <1>1, <1>t, <2>1, <2>2, DoneUnchanged, AttemptEnds DEF Owns
<1>3. CASE ~(checkpoint # None /\ checkpoint.live)
  <2> DEFINE c == IF checkpoint = None THEN FirstCheckpoint(w) ELSE Claim(w)
             a == [Idle EXCEPT !.step = "prepare", !.path = checkpoint'.path,
                               !.generation = checkpoint'.generation,
                               !.resumed = checkpoint # None /\ Resumes,
                               !.hash = checkpoint'.hash]
  <2>1. checkpoint' = c /\ at' = [at EXCEPT ![w] = a] /\ (checkpoint # None => MayClaim)
    BY <1>3 DEF Acquire
  <2>2. /\ c \in Checkpoints /\ c.owner = w /\ ~c.handedOff
        /\ checkpoint = None => c.path = 0 /\ c.generation = 1 /\ c.hash = <<>>
        /\ checkpoint # None =>
              /\ c.path = checkpoint.path
              /\ IF checkpoint.handedOff
                 THEN c.generation = checkpoint.generation /\ c.hash = checkpoint.hash
                 ELSE c.generation = checkpoint.generation + 1 /\ c.hash = <<>>
    <3>1. CASE checkpoint = None
      <4>1. c = FirstCheckpoint(w)
        BY <3>1
      <4> QED BY <1>t, <3>1, <4>1, IngestAssumption DEF FirstCheckpoint, Checkpoints, Generations
    <3>2. CASE checkpoint # None
      <4>1. checkpoint \in Checkpoints /\ c = Claim(w)
        BY <3>2 DEF Inv, TypeOK, RowsOK
      <4>2. checkpoint.handedOff \/ checkpoint.generation + 1 \in Generations
        BY <2>1, <3>2, <4>1, IngestAssumption DEF MayClaim, Resumes, Checkpoints, Generations
      <4> QED BY <1>t, <3>2, <4>1, <4>2 DEF Claim, Resumes, Checkpoints
    <3> QED BY <3>1, <3>2
  <2> HIDE DEF c
  <2>3. /\ a \in Attempts /\ a.step = "prepare" /\ a.path = c.path /\ a.generation = c.generation
        /\ a.hash = c.hash /\ a.resumed = (checkpoint # None /\ checkpoint.handedOff)
    <3>1. a = [Idle EXCEPT !.step = "prepare", !.path = c.path, !.generation = c.generation,
                           !.resumed = checkpoint # None /\ checkpoint.handedOff, !.hash = c.hash]
      BY <2>1 DEF Resumes
    <3>2. (checkpoint # None /\ checkpoint.handedOff) \in BOOLEAN
      BY DEF Inv, TypeOK, RowsOK, Checkpoints
    <3> HIDE DEF a
    <3> QED BY <1>t, <2>2, <3>1, <3>2 DEF Attempts, Checkpoints, Steps
  <2> HIDE DEF a
  <2>4. c.path # 1 \/ asset = None
    BY <2>2 DEF Inv, GlobalInv, PathsInv
  <2>5. checkpoint # None => checkpoint.generation \in Nat
    BY IngestAssumption DEF Inv, TypeOK, RowsOK, Checkpoints, Generations
  <2>6. checkpoint = None \/ ~checkpoint.live
    BY <1>3
  <2>7. /\ c.path # 0 => checkpoint # None /\ c.path = checkpoint.path
        /\ checkpoint # None => c.path = checkpoint.path /\ checkpoint.generation <= c.generation
        /\ checkpoint # None => checkpoint.generation < c.generation \/ checkpoint.handedOff
        /\ IF a.resumed
           THEN checkpoint # None /\ checkpoint.handedOff /\ c.generation = checkpoint.generation
                /\ a.hash = checkpoint.hash
           ELSE a.hash = <<>> /\ (checkpoint # None => checkpoint.generation < c.generation)
    <3>1. CASE checkpoint = None
      <4>1. ~a.resumed /\ a.hash = <<>>
        BY <2>2, <2>3, <3>1
      <4> QED BY <2>2, <3>1, <4>1
    <3>2. CASE checkpoint # None /\ checkpoint.handedOff
      <4>1. a.resumed /\ a.hash = checkpoint.hash
        BY <2>2, <2>3, <3>2
      <4> QED BY <2>2, <2>5, <3>2, <4>1
    <3>3. CASE checkpoint # None /\ ~checkpoint.handedOff
      <4>1. ~a.resumed /\ a.hash = <<>>
        BY <2>2, <2>3, <3>3
      <4> QED BY <2>2, <2>5, <3>3, <4>1
    <3> QED BY <3>1, <3>2, <3>3
  <2>8. a.step \in Before /\ (a.path = 0 => a.step = "prepare")
        /\ at[w].step \notin {"link", "commit"}
    BY <1>1, <2>3 DEF Before
  <2> QED BY <1>1, <2>1, <2>2, <2>3, <2>4, <2>6, <2>7, <2>8, WriterBegins
<1> QED BY <1>2, <1>3

-----------------------------------------------------------------------------
(* The file of a generation is created, or the generation is left. *)

LEMMA NextGenerationKeeps ==
  ASSUME Inv, NEW w \in Workers, OpenWriterFile(w), ~Usable(w, WriterTemp(w))
  PROVE  Inv'
<1> DEFINE c == [checkpoint EXCEPT !.generation = @ + 1, !.handedOff = FALSE, !.hash = <<>>]
           a == [at[w] EXCEPT !.generation = @ + 1, !.resumed = FALSE, !.hash = <<>>]
<1>1. /\ UNCHANGED <<mirakc, job, progress, asset, reserved, files, lock, doomed, faults>>
      /\ at[w].step = "open" /\ lock \in {NoOne, w} /\ checkpoint # None
      /\ checkpoint.owner = w /\ checkpoint.generation = at[w].generation
      /\ checkpoint.generation < MaxGeneration
      /\ checkpoint' = c
      /\ at' = [at EXCEPT ![w].generation = @ + 1, ![w].resumed = FALSE, ![w].hash = <<>>]
  BY DEF OpenWriterFile, Free, Leased, OwnsWriter, Owns, files
<1>2. /\ checkpoint \in Checkpoints /\ at[w] \in Attempts /\ at \in [Workers -> Attempts]
      /\ at[w].path = checkpoint.path /\ at[w].path # 0
      /\ checkpoint.generation \in Generations /\ checkpoint.generation \in Nat
  BY <1>1, IngestAssumption
  DEF Inv, TypeOK, RowsOK, WorkersOK, Checkpoints, Generations, WorkerInv, LeaseInv, PlaceInv,
      Owns, Active, Before
<1>3. checkpoint.generation + 1 \in Generations
  BY <1>1, <1>2, IngestAssumption DEF Generations
<1>4. /\ c \in Checkpoints /\ c.owner = w /\ ~c.handedOff /\ c.path = checkpoint.path
      /\ c.generation = checkpoint.generation + 1
  BY <1>1, <1>2, <1>3, EmptyContents DEF Checkpoints
<1>5. /\ a \in Attempts /\ a.step = "open" /\ a.path = at[w].path /\ ~a.resumed /\ a.hash = <<>>
      /\ a.generation = checkpoint.generation + 1
  BY <1>1, <1>2, <1>3, EmptyContents DEF Attempts
<1>6. at' = [at EXCEPT ![w] = a]
  BY <1>1, <1>2
<1> HIDE DEF a, c
<1>7. c.path # 1 \/ asset = None
  BY <1>1, <1>4 DEF Inv, GlobalInv, PathsInv
<1>8. checkpoint.generation < c.generation /\ checkpoint.generation <= c.generation
  BY <1>2, <1>4
<1>9. a.step \in Before /\ (a.path = 0 => a.step = "prepare") /\ at[w].step \notin {"link", "commit"}
  BY <1>1, <1>2, <1>5 DEF Before
<1>10. /\ a.path = c.path /\ a.generation = c.generation
       /\ IF a.resumed
          THEN checkpoint # None /\ checkpoint.handedOff /\ c.generation = checkpoint.generation
               /\ a.hash = checkpoint.hash
          ELSE a.hash = <<>> /\ (checkpoint # None => checkpoint.generation < c.generation)
  BY <1>2, <1>4, <1>5, <1>8
<1> QED BY <1>1, <1>4, <1>5, <1>6, <1>7, <1>8, <1>9, <1>10, WriterBegins

(* No attempt that knows a file has the name of one that is written. *)
LEMMA NobodyElseWrites ==
  ASSUME Inv, NEW w \in Workers, at[w].step \in {"open", "start", "transfer"},
         NEW n \in Names, n = WriterTemp(w),
         file[n] # None => Len(file[n]) < Length,
         NEW v \in Workers, v # w
  PROVE  /\ at[v].step \in Before /\ at[v].path # 0 => WriterTemp(v) # n
         /\ at[v].step \in Writing \cup Publishing => at[v].temp # n
<1>1. at[w].path # 0 /\ Active(w) /\ at[w].path \in Paths
  BY DEF Inv, WorkerInv, PlaceInv, Active, Before, Writing, WriterTemp, Names
<1>2. ~(file[n] # None /\ Done(file[n]))
  BY IngestAssumption, ContentsAreSequences DEF Done, Inv, TypeOK, FilesOK
<1>3. ~(Active(v) /\ WriterTemp(v) = n)
  <2> SUFFICES ASSUME Active(v), WriterTemp(v) = n PROVE FALSE
    OBVIOUS
  <2>1. Apart(w, v)
    BY DEF Inv
  <2> QED BY <1>1, <1>2, <2>1 DEF Apart
<1>4. ASSUME at[v].step \in {"final"} \cup Publishing PROVE at[v].temp # n
  <2>1. at[v].temp \in Names /\ file[at[v].temp] = at[v].hash /\ Done(at[v].hash)
    BY <1>4 DEF Inv, WorkerInv, FileInv, Writing, Publishing
  <2>2. at[v].hash \in Contents
    BY DEF Inv, TypeOK, WorkersOK, Attempts
  <2> QED BY <1>2, <2>1, <2>2, NoneAssumption
<1>5. at[v].step \in Writing => at[v].temp = WriterTemp(v)
  BY DEF Inv, WorkerInv, FileInv
<1> QED BY <1>3, <1>4, <1>5 DEF Active, Before, Writing, Publishing

LEMMA OpenWriterFileKeeps ==
  ASSUME Inv, NEW w \in Workers, OpenWriterFile(w), Usable(w, WriterTemp(w))
  PROVE  Inv'
<1> DEFINE n == WriterTemp(w)
           a == [at[w] EXCEPT !.step = "start", !.temp = n]
<1>1. /\ UNCHANGED <<mirakc, job, rows, canonical, lost, lock, doomed, faults>>
      /\ at[w].step = "open" /\ lock \in {NoOne, w}
      /\ file' = IF at[w].resumed THEN file ELSE [file EXCEPT ![n] = <<>>]
      /\ temps' = temps \cup {n}
      /\ at' = [at EXCEPT ![w].step = "start", ![w].temp = n]
  BY DEF OpenWriterFile, Free, rows
<1>2. /\ at[w] \in Attempts /\ at \in [Workers -> Attempts] /\ Active(w) /\ at[w].path # 0
      /\ n \in Names /\ n[1] = at[w].path /\ n[2] = at[w].generation
      /\ IF at[w].resumed THEN file[n] = at[w].hash /\ n \in temps
                          ELSE at[w].hash = <<>> /\ file[n] = None
      /\ at[w].hash \in Contents
  BY <1>1, NamesAreNames
  DEF Inv, TypeOK, WorkersOK, Attempts, WorkerInv, PlaceInv, FileInv, Active, Before, Usable, WriterTemp
<1>3. a \in Attempts /\ a.step = "start" /\ a.path = at[w].path /\ a.temp = n /\ a.hash = at[w].hash
      /\ a.generation = at[w].generation /\ a.resumed = at[w].resumed /\ at' = [at EXCEPT ![w] = a]
  BY <1>1, <1>2 DEF Attempts, Steps
<1> HIDE DEF a
<1>4. at' \in [Workers -> Attempts] /\ at'[w] = a /\ \A v \in Workers : v # w => at'[v] = at[v]
  BY <1>3, AtIs DEF Inv, TypeOK
<1>5. /\ file' \in [Names -> {None} \cup Contents] /\ file'[n] = at[w].hash /\ file'[n] # None
      /\ \A m \in Names : m # n \/ file[n] # None => file'[m] = file[m]
  BY <1>1, <1>2, EmptyContents, NoneAssumption DEF Inv, TypeOK, FilesOK
<1>t. /\ reserved \in 0..2 /\ (\A v \in Workers : at[v].path \in 0..2 /\ at[v].path <= reserved)
      /\ n[1] <= reserved
      /\ checkpoint # None /\ n[1] = checkpoint.path => n[2] <= checkpoint.generation
      /\ \A m \in Names : file[m] # None => file'[m] = file[m]
  BY <1>2, <1>5 DEF Inv, TypeOK, RowsOK, WorkersOK, Attempts, Paths, WorkerInv, PlaceInv
<1>6. TypeOK'
  BY <1>1, <1>2, <1>4, <1>5 DEF Inv, TypeOK, RecordOK, RowsOK, FilesOK, WorkersOK, mirakc, rows
<1>7. WorkerInv(w)'
  <2>1. LeaseInv(w)' /\ AfterInv(w)' /\ PlaceInv(w)'
    BY <1>1, <1>2, <1>3, <1>4
    DEF Inv, WorkerInv, LeaseInv, AfterInv, PlaceInv, Owns, Active, WriterTemp, rows,
        Before, Writing, Publishing
  <2>2. FileInv(w)'
    BY <1>2, <1>3, <1>4, <1>5 DEF FileInv, WriterTemp, Before, Writing, Publishing
  <2> QED BY <2>1, <2>2 DEF WorkerInv
<1>8. ASSUME NEW v \in Workers, v # w PROVE WorkerInv(v)'
  <2>1. CASE at[w].resumed
    <3>1. file' = file
      BY <1>1, <2>1
    <3>2. Steady(v)
      BY <1>1, <1>4, <1>8, <1>t, <3>1, DoneUnchanged, IngestAssumption
      DEF Steady, DoneStays, Owns, rows, Inv, TypeOK, RowsOK, Checkpoints, Generations, WorkerInv, LeaseInv
    <3> QED BY <1>6, <3>2, SteadyKeeps DEF Inv
  <2>2. CASE ~at[w].resumed
    <3>1. /\ at[v].step \in Before /\ at[v].path # 0 => WriterTemp(v) # n
          /\ at[v].step \in Writing \cup Publishing => at[v].temp # n
      BY <1>1, <1>2, <1>8, <2>2, NobodyElseWrites
    <3>2. at[v].step \in Before /\ at[v].path # 0 => file'[WriterTemp(v)] = file[WriterTemp(v)]
      BY <1>5, <3>1, NamesAreNames DEF Inv, WorkerInv, Active
    <3>3. at[v].step \in Writing \cup Publishing => file'[at[v].temp] = file[at[v].temp]
      BY <1>5, <3>1 DEF Inv, WorkerInv, FileInv
    <3>4. at[v].step = "commit" => file'[canonical[at[v].path]] = file[canonical[at[v].path]]
      <4> SUFFICES ASSUME at[v].step = "commit"
                   PROVE  file'[canonical[at[v].path]] = file[canonical[at[v].path]]
        OBVIOUS
      <4>1. at[v].path \in Paths /\ canonical[at[v].path] # None
        BY DEF Inv, TypeOK, WorkersOK, Attempts, WorkerInv, FileInv, PlaceInv, Active, Publishing
      <4> QED BY <1>t, <4>1 DEF Inv, GlobalInv, CanonicalInv, TypeOK, FilesOK
    <3>5. Steady(v)
      BY <1>1, <1>4, <1>8, <1>t, <3>2, <3>3, <3>4, DoneUnchanged, IngestAssumption
      DEF Steady, DoneStays, Owns, rows, Inv, TypeOK, RowsOK, Checkpoints, Generations, WorkerInv, LeaseInv
    <3> QED BY <1>6, <3>5, SteadyKeeps DEF Inv
  <2> QED BY <2>1, <2>2
<1>9. FilesStay
  BY <1>t DEF FilesStay
<1>10. GlobalInv'
  <2>1. PathsInv'
    BY <1>1 DEF Inv, GlobalInv, PathsInv, rows
  <2>2. NamesInv'
    BY <1>1, <1>5, <1>t DEF Inv, GlobalInv, NamesInv, rows
  <2>3. HandoffInv'
    <3> SUFFICES ASSUME checkpoint # None, checkpoint.handedOff
                 PROVE  HandoffInv'
      BY <1>1 DEF HandoffInv, rows
    <3>1. /\ Current' = Current /\ checkpoint' = checkpoint /\ checkpoint.hash \in Contents
          /\ checkpoint.path # 0 /\ file[Current] = checkpoint.hash /\ Current \in temps \cup lost
          /\ Current \in Names
      BY <1>1 DEF Inv, GlobalInv, HandoffInv, Current, rows, TypeOK, RowsOK, Checkpoints, Names
    <3>2. file'[Current] = file[Current]
      BY <1>t, <3>1, NoneAssumption
    <3>3. ASSUME NEW v \in Workers, Active(v)', WriterTemp(v)' = Current
          PROVE  Done(checkpoint.hash)
      BY <1>2, <1>3, <1>4, <3>3 DEF Inv, GlobalInv, HandoffInv, Active, WriterTemp
    <3> QED BY <1>1, <3>1, <3>2, <3>3 DEF HandoffInv, Done, mirakc
  <2>4. DoomedInv'
    BY <1>1, <1>5, <1>t DEF Inv, GlobalInv, DoomedInv, TypeOK, FilesOK, rows
  <2>5. ShownInv'
    BY <1>1, <1>t DEF Inv, GlobalInv, ShownInv, TypeOK, RowsOK, Progress, rows
  <2> QED BY <1>1, <1>9, <2>1, <2>2, <2>3, <2>4, <2>5, LinkedStays DEF GlobalInv, rows
<1>11. SameNames
  BY <1>2, <1>3, <1>4 DEF SameNames, Active
<1>12. \A u, v \in Workers : Apart(u, v)'
  BY <1>1, <1>9, <1>11, ApartStays, DoneUnchanged
<1> QED BY <1>6, <1>7, <1>8, <1>10, <1>12 DEF Inv

-----------------------------------------------------------------------------
(* Progress is reported, the file is handed off. *)

(* Only the writer that holds the lease reports, and what is there. *)
Reports(w, n) ==
    /\ OwnsWriter(w) /\ at[w].step \in Writing /\ n \in 0..Length
    /\ Len(file'[at[w].temp]) >= n
    /\ progress' = Reported(w, n)

LEMMA ReportsWhatIsThere ==
  ASSUME Inv, SamePlace, UNCHANGED <<temps, lost, doomed>>, NEW w \in Workers, NEW n \in 0..Length,
         progress' = progress \/ Reports(w, n),
         file' \in [Names -> {None} \cup Contents],
         \A m \in Names : file[m] # None => file'[m] # None /\ Len(file'[m]) >= Len(file[m])
  PROVE  ShownInv' /\ DoomedInv' /\ progress' \in {None} \cup Progress
<1>t. /\ \A m \in Names : file[m] # None => Len(file[m]) \in Nat /\ Len(file'[m]) \in Nat
      /\ progress # None => progress.temp \in Names /\ progress.written \in 0..Length
  BY IngestAssumption, ContentsAreSequences
  DEF Inv, TypeOK, FilesOK, RowsOK, Progress
<1>l. Length \in Nat
  BY IngestAssumption
<1>1. CASE progress' = progress
  <2>1. ShownInv'
    BY <1>1, <1>t, <1>l DEF Inv, GlobalInv, ShownInv, SamePlace
  <2>2. DoomedInv'
    BY <1>1 DEF Inv, GlobalInv, DoomedInv, SamePlace, TypeOK, FilesOK
  <2> QED BY <1>1, <2>1, <2>2 DEF Inv, TypeOK, RowsOK
<1>2. CASE progress' # progress /\ Reports(w, n)
  <2>1. /\ checkpoint # None /\ checkpoint.generation = at[w].generation /\ checkpoint.path = at[w].path
        /\ at[w].temp = WriterTemp(w) /\ at[w].temp \in temps /\ at[w].temp \in Names
        /\ file[at[w].temp] # None
    BY <1>2 DEF Reports, OwnsWriter, Owns, Inv, WorkerInv, LeaseInv, FileInv, TypeOK, FilesOK
  <2>2. progress' = [temp |-> at[w].temp, written |-> n]
    BY <1>2 DEF Reports, Reported
  <2>3. progress' \in Progress /\ progress'.temp = at[w].temp /\ progress'.written = n
    BY <2>1, <2>2 DEF Progress
  <2>4. at[w].temp[1] = checkpoint.path /\ at[w].temp[2] = checkpoint.generation
        /\ checkpoint.generation \in Nat
    BY <2>1, IngestAssumption DEF WriterTemp, Inv, TypeOK, RowsOK, Checkpoints, Generations
  <2>5. ShownInv'
    BY <1>2, <2>1, <2>3, <2>4 DEF ShownInv, SamePlace, Reports
  <2>6. DoomedInv'
    BY <2>1, <2>3, <2>4 DEF Inv, GlobalInv, DoomedInv, SamePlace, TypeOK, FilesOK
  <2> QED BY <2>3, <2>5, <2>6
<1> QED BY <1>1, <1>2

LEMMA StartOrCompleteKeeps ==
  ASSUME Inv, NEW w \in Workers, StartProgress(w) \/ Complete(w)
  PROVE  Inv'
<1> DEFINE step == IF at[w].step = "start" THEN "transfer" ELSE "final"
           n == Len(at[w].hash)
<1>1. /\ UNCHANGED <<mirakc, job, checkpoint, asset, reserved, files, lock, doomed>>
      /\ at[w].step \in {"start", "transfer"} /\ step \in Steps /\ Goto(w, step)
      /\ progress' = progress \/ (OwnsWriter(w) /\ progress' = Reported(w, n))
      /\ at[w].step = "transfer" =>
            record = "finished" /\ Len(at[w].hash) = grown /\ (sha256 => at[w].hash = Whole)
  BY DEF StartProgress, Complete, ReportProgress, Leased, Transferred, Steps, rows
<1>2. faults' \in 0..MaxFaults
  BY IngestAssumption DEF StartProgress, Complete, Fault, Inv, TypeOK, WorkersOK
<1>3. /\ at' \in [Workers -> Attempts]
      /\ at'[w].step = step /\ at'[w].path = at[w].path /\ at'[w].generation = at[w].generation
      /\ at'[w].resumed = at[w].resumed /\ at'[w].hash = at[w].hash /\ at'[w].temp = at[w].temp
      /\ \A v \in Workers : v # w => at'[v] = at[v]
  BY <1>1, GotoIs DEF Inv, TypeOK
<1>t. /\ at[w].hash \in Contents /\ n \in 0..Length /\ file[at[w].temp] = at[w].hash
      /\ n \in Nat /\ at[w].temp \in Names
  BY <1>1, ContentsAreSequences, IngestAssumption
  DEF Inv, TypeOK, WorkersOK, Attempts, WorkerInv, FileInv, Writing
<1>4. SamePlace /\ SameHandoff /\ SameNames
  BY <1>1, <1>3 DEF SamePlace, SameHandoff, SameNames, Active, Writing
<1>5. ShownInv' /\ DoomedInv' /\ progress' \in {None} \cup Progress
  <2>1. progress' = progress \/ Reports(w, n)
    BY <1>1, <1>t DEF Reports, Writing, files
  <2>2. \A m \in Names : file[m] # None => Len(file[m]) \in Nat
    BY IngestAssumption, ContentsAreSequences DEF Inv, TypeOK, FilesOK
  <2>3. /\ file' \in [Names -> {None} \cup Contents] /\ UNCHANGED <<temps, lost, doomed>>
        /\ \A m \in Names : file[m] # None => file'[m] # None /\ Len(file'[m]) >= Len(file[m])
    BY <1>1, <2>2 DEF files, Inv, TypeOK, FilesOK
  <2> HIDE DEF n
  <2> QED BY <1>4, <1>t, <2>1, <2>3, ReportsWhatIsThere
<1>6. TypeOK'
  BY <1>1, <1>2, <1>3, <1>5 DEF Inv, TypeOK, RecordOK, RowsOK, FilesOK, WorkersOK, mirakc, files
<1>7. WorkerInv(w)'
  <2>1. LeaseInv(w)' /\ AfterInv(w)' /\ PlaceInv(w)'
    BY <1>1, <1>3
    DEF Inv, WorkerInv, LeaseInv, AfterInv, PlaceInv, Owns, Active, WriterTemp, files,
        Before, Writing, Publishing
  <2>2. step = "final" => Done(at[w].hash)
    BY <1>1 DEF Done, Inv, GlobalInv, EndedInv
  <2>3. FileInv(w)'
    BY <1>1, <1>3, <2>2
    DEF Inv, WorkerInv, FileInv, WriterTemp, Done, mirakc, files, Before, Writing, Publishing
  <2> QED BY <2>1, <2>3 DEF WorkerInv
<1>8. \A v \in Workers : v # w => Stays(v)
  BY <1>1, <1>3 DEF Stays, Owns, Inv, WorkerInv, LeaseInv
<1> QED BY <1>1, <1>4, <1>5, <1>6, <1>7, <1>8, DoneUnchanged, HandoffStays, OneGoesOn

(* What is handed off is what the writer has written. *)
LEMMA HandsOffItsFile ==
  ASSUME Inv, TypeOK', NEW w \in Workers, OwnsWriter(w), at[w].step \in {"transfer", "final"},
         SamePlace, SameNames, checkpoint'.handedOff, checkpoint'.hash = at[w].hash,
         at[w].step = "final" \/ ~Active(w)', \A v \in Workers : v # w => at'[v] = at[v],
         UNCHANGED <<mirakc, files>>
  PROVE  HandoffInv'
<1>1. /\ checkpoint # None /\ at[w].path = checkpoint.path /\ at[w].generation = checkpoint.generation
      /\ WriterTemp(w) \in temps /\ at[w].path # 0 /\ at[w].temp = WriterTemp(w)
      /\ file[WriterTemp(w)] = at[w].hash /\ Active(w) /\ at[w].hash \in Contents
  BY DEF Inv, WorkerInv, LeaseInv, PlaceInv, FileInv, OwnsWriter, Owns, Active, Writing,
         TypeOK, WorkersOK, Attempts
<1>2. Current' = WriterTemp(w) /\ checkpoint' # None /\ checkpoint'.path # 0
  BY <1>1 DEF Current, WriterTemp, SamePlace
<1>3. ASSUME NEW v \in Workers, Active(v)', WriterTemp(v)' = Current'
      PROVE  Done(at[w].hash)
  <2>1. CASE v = w
    BY <1>3, <2>1 DEF Inv, WorkerInv, FileInv
  <2>2. CASE v # w
    <3>1. Active(v) /\ WriterTemp(v) = WriterTemp(w)
      BY <1>2, <1>3, <2>2 DEF Active, WriterTemp
    <3>2. Apart(w, v)
      BY DEF Inv
    <3> QED BY <1>1, <2>2, <3>1, <3>2 DEF Apart
  <2> QED BY <2>1, <2>2
<1>4. /\ checkpoint'.path # 0 /\ file'[Current'] = checkpoint'.hash /\ Current' \in temps' \cup lost'
  BY <1>1, <1>2 DEF files
<1> QED BY <1>2, <1>3, <1>4 DEF HandoffInv, Done, mirakc

LEMMA SaveFinalHandoffKeeps ==
  ASSUME Inv, NEW w \in Workers, SaveFinalHandoff(w)
  PROVE  Inv'
<1>1. /\ UNCHANGED <<mirakc, job, progress, asset, reserved, files, lock, doomed, faults>>
      /\ at[w].step = "final" /\ OwnsWriter(w) /\ "publish" \in Steps /\ Goto(w, "publish")
      /\ checkpoint' = [checkpoint EXCEPT !.handedOff = TRUE, !.hash = at[w].hash]
  BY DEF SaveFinalHandoff, Leased, Steps
<1>2. /\ at' \in [Workers -> Attempts]
      /\ at'[w].step = "publish" /\ at'[w].path = at[w].path /\ at'[w].generation = at[w].generation
      /\ at'[w].resumed = at[w].resumed /\ at'[w].hash = at[w].hash /\ at'[w].temp = at[w].temp
      /\ \A v \in Workers : v # w => at'[v] = at[v]
  BY <1>1, GotoIs DEF Inv, TypeOK
<1>3. /\ checkpoint' \in Checkpoints /\ checkpoint' # None /\ checkpoint # None
      /\ checkpoint'.owner = checkpoint.owner /\ checkpoint'.handedOff
      /\ checkpoint'.hash = at[w].hash /\ SamePlace
  <2>1. checkpoint \in Checkpoints /\ at[w].hash \in Contents /\ checkpoint # None
    BY <1>1 DEF Inv, TypeOK, RowsOK, WorkersOK, Attempts, OwnsWriter, Owns
  <2>2. checkpoint' \in Checkpoints
    BY <1>1, <2>1 DEF Checkpoints
  <2> QED BY <1>1, <2>1, <2>2, NoneAssumption DEF Checkpoints, SamePlace
<1>4. TypeOK'
  BY <1>1, <1>2, <1>3 DEF Inv, TypeOK, RecordOK, RowsOK, FilesOK, WorkersOK, mirakc, files
<1>5. WorkerInv(w)'
  <2>1. LeaseInv(w)' /\ AfterInv(w)' /\ PlaceInv(w)'
    BY <1>1, <1>2, <1>3
    DEF Inv, WorkerInv, LeaseInv, AfterInv, PlaceInv, Owns, Active, SamePlace,
        Before, Writing, Publishing
  <2>2. FileInv(w)'
    BY <1>1, <1>2
    DEF Inv, WorkerInv, FileInv, Done, mirakc, files, Before, Writing, Publishing
  <2> QED BY <2>1, <2>2 DEF WorkerInv
<1>6. \A v \in Workers : v # w => Stays(v)
  BY <1>1, <1>2, <1>3 DEF Stays, Owns, Inv, WorkerInv, LeaseInv
<1>7. SameNames
  BY <1>1, <1>2 DEF SameNames, Active, Writing
<1>8. HandoffInv'
  BY <1>1, <1>2, <1>3, <1>4, <1>7, HandsOffItsFile
<1> QED BY <1>1, <1>3, <1>4, <1>5, <1>6, <1>7, <1>8, DoneUnchanged, ShownStays, OneGoesOn

LEMMA HandOffKeeps ==
  ASSUME Inv, NEW w \in Workers, HandOff(w)
  PROVE  Inv'
<1> DEFINE n == Len(at[w].hash)
<1>1. /\ UNCHANGED <<mirakc, job, asset, reserved, files, lock, doomed>>
      /\ at[w].step = "transfer" /\ OwnsWriter(w) /\ at' = [at EXCEPT ![w] = Idle]
      /\ checkpoint' = [checkpoint EXCEPT !.owner = NoOne, !.live = FALSE,
                                          !.handedOff = TRUE, !.hash = at[w].hash]
      /\ progress' = progress \/ progress' = Reported(w, n)
  BY DEF HandOff, Leased
<1>2. at' \in [Workers -> Attempts] /\ at'[w] = Idle /\ \A v \in Workers : v # w => at'[v] = at[v]
  BY <1>1, IdleIs, AtIs DEF Inv, TypeOK
<1>t. /\ at[w].hash \in Contents /\ n \in 0..Length /\ file[at[w].temp] = at[w].hash
      /\ n \in Nat /\ at[w].temp \in Names /\ faults' \in 0..MaxFaults
  BY <1>1, ContentsAreSequences, IngestAssumption
  DEF Inv, TypeOK, WorkersOK, Attempts, WorkerInv, FileInv, Writing, HandOff, Fault
<1>3. /\ checkpoint' \in Checkpoints /\ checkpoint' # None /\ checkpoint # None
      /\ checkpoint'.owner = NoOne /\ checkpoint'.handedOff
      /\ checkpoint'.hash = at[w].hash /\ SamePlace
  <2>1. checkpoint \in Checkpoints /\ checkpoint # None
    BY <1>1 DEF Inv, TypeOK, RowsOK, OwnsWriter, Owns
  <2>2. checkpoint' \in Checkpoints
    BY <1>1, <1>t, <2>1 DEF Checkpoints
  <2> QED BY <1>1, <2>1, <2>2, NoneAssumption DEF Checkpoints, SamePlace
<1>4. SameNames /\ ~Active(w)'
  BY <1>2, IdleIs DEF SameNames, Active, Before, Writing, Publishing
<1>5. ShownInv' /\ DoomedInv' /\ progress' \in {None} \cup Progress
  <2>1. progress' = progress \/ Reports(w, n)
    BY <1>1, <1>t DEF Reports, Writing, files
  <2>2. \A m \in Names : file[m] # None => Len(file[m]) \in Nat
    BY IngestAssumption, ContentsAreSequences DEF Inv, TypeOK, FilesOK
  <2>3. /\ file' \in [Names -> {None} \cup Contents] /\ UNCHANGED <<temps, lost, doomed>>
        /\ \A m \in Names : file[m] # None => file'[m] # None /\ Len(file'[m]) >= Len(file[m])
    BY <1>1, <2>2 DEF files, Inv, TypeOK, FilesOK
  <2> HIDE DEF n
  <2> QED BY <1>3, <1>t, <2>1, <2>3, ReportsWhatIsThere
<1>6. TypeOK'
  BY <1>1, <1>t, <1>2, <1>3, <1>5 DEF Inv, TypeOK, RecordOK, RowsOK, FilesOK, WorkersOK, mirakc, files
<1>7. Quiet(w)'
  <2>1. lock # w /\ reserved \in Nat
    BY <1>1 DEF Inv, WorkerInv, LeaseInv, TypeOK, RowsOK, Paths
  <2> QED BY <1>1, <1>2, <1>3, <2>1, IdleIs, IngestAssumption DEF Quiet, Owns
<1>8. \A v \in Workers : v # w => Stays(v)
  <2>1. \A v \in Workers : v # w => lock # v
    BY <1>1 DEF OwnsWriter, Owns, Inv, WorkerInv, LeaseInv
  <2> QED BY <1>1, <1>2, <1>3, <2>1, IngestAssumption DEF Stays, Owns
<1>9. HandoffInv'
  BY <1>1, <1>2, <1>3, <1>4, <1>6, HandsOffItsFile
<1> QED BY <1>1, <1>3, <1>4, <1>5, <1>6, <1>7, <1>8, <1>9, QuietIsFine, DoneUnchanged, OneGoesOn

-----------------------------------------------------------------------------
(* Temporary files go: not the current one, and the shown one only with its
   row, unless the volume loses them. *)

LEMMA FilesGo ==
  ASSUME Inv, TypeOK', UNCHANGED <<mirakc, checkpoint, asset, reserved, file, canonical>>,
         temps' \subseteq temps, lost \subseteq lost', doomed' \subseteq doomed,
         checkpoint # None /\ Current \in temps =>
            Current \in temps' \/ (Current \in lost' /\ \A v \in Workers : ~Active(v)),
         \/ progress' = None
         \/ /\ progress' = progress
            /\ progress # None /\ progress.temp \in temps => progress.temp \in temps' \cup lost',
         \A v \in Workers : Quiet(v)' \/ Stays(v)
  PROVE  Inv'
<1>1. SamePlace /\ SameNames /\ FilesStay /\ DoneStays
  BY DoneUnchanged
  DEF SamePlace, SameNames, FilesStay, Quiet, Stays, Active, Before, Writing, Publishing
<1>2. ASSUME NEW v \in Workers PROVE WorkerInv(v)'
  <2>1. CASE Quiet(v)'
    BY <2>1, QuietIsFine
  <2>2. CASE Stays(v)
    <3>1. Owns(v) /\ WriterTemp(v) \in temps => WriterTemp(v) \in temps'
      BY <2>2 DEF Inv, WorkerInv, LeaseInv, WriterTemp, Current, Owns
    <3>2. Steady(v)
      BY <1>1, <2>2, <3>1, IngestAssumption
      DEF Stays, Steady, Owns, DoneStays, Inv, TypeOK, RowsOK, Checkpoints, Generations, Paths,
          WorkerInv, LeaseInv
    <3> QED BY <3>2, SteadyKeeps DEF Inv
  <2> QED BY <1>2, <2>1, <2>2
<1>3. GlobalInv'
  <2>1. PathsInv' /\ NamesInv'
    BY DEF Inv, GlobalInv, PathsInv, NamesInv
  <2>2. HandoffInv'
    <3> SUFFICES ASSUME checkpoint # None, checkpoint.handedOff PROVE HandoffInv'
      BY DEF HandoffInv
    <3>1. /\ Current' = Current /\ checkpoint.path # 0 /\ file[Current] = checkpoint.hash
          /\ Current \in temps \cup lost
          /\ \A w \in Workers : Active(w) /\ WriterTemp(w) = Current => Done(checkpoint.hash)
      BY DEF Inv, GlobalInv, HandoffInv, Current
    <3>2. ASSUME NEW v \in Workers, Active(v)', WriterTemp(v)' = Current
          PROVE  Active(v) /\ WriterTemp(v) = Current
      BY <1>1, <3>1, <3>2 DEF SameNames, WriterTemp, Current
    <3> QED BY <3>1, <3>2 DEF HandoffInv, Done, mirakc
  <2>3. DoomedInv'
    BY DEF Inv, GlobalInv, DoomedInv
  <2>4. ShownInv'
    BY DEF Inv, GlobalInv, ShownInv
  <2> QED BY <1>1, <2>1, <2>2, <2>3, <2>4, LinkedStays DEF GlobalInv
<1>4. \A u, v \in Workers : Apart(u, v)'
  BY <1>1, ApartStays
<1> QED BY <1>2, <1>3, <1>4 DEF Inv

LEMMA CheckOrphanKeeps ==
  ASSUME Inv, NEW n \in Names, CheckOrphan(n)
  PROVE  Inv'
<1>1. /\ UNCHANGED <<mirakc, job, rows, files, lock, at, faults>>
      /\ n \in temps /\ Collectable(n) /\ doomed' = doomed \cup {n}
  BY DEF CheckOrphan
<1>2. TypeOK'
  BY <1>1 DEF Inv, TypeOK, RecordOK, RowsOK, FilesOK, WorkersOK, mirakc, rows, files
<1>3. ShownInv'
  BY <1>1 DEF Inv, GlobalInv, ShownInv, rows, files
<1>4. DoomedInv'
  <2>1. file[n] # None
    BY <1>1 DEF Inv, TypeOK, FilesOK
  <2>2. checkpoint # None => n[2] < checkpoint.generation
    BY <1>1 DEF Collectable
  <2>3. progress # None => n # progress.temp
    BY <1>1 DEF Collectable, Shown, Inv, GlobalInv, ShownInv
  <2> QED BY <1>1, <2>1, <2>2, <2>3 DEF Inv, GlobalInv, DoomedInv, rows, files
<1>5. SamePlace /\ SameHandoff /\ SameNames /\ FilesStay
  BY <1>1 DEF SamePlace, SameHandoff, SameNames, FilesStay, Active, rows, files
<1>6. GlobalInv'
  BY <1>1, <1>2, <1>3, <1>4, <1>5, DoneUnchanged, HandoffStays, RowsStay DEF rows
<1>7. \A v \in Workers : WorkerInv(v)'
  <2>1. \A v \in Workers : Stays(v)
    BY <1>1 DEF Stays, Owns, rows, Inv, WorkerInv, LeaseInv
  <2> QED BY <1>1, <1>2, <1>5, <2>1, DoneUnchanged, OthersStay DEF rows
<1> QED BY <1>1, <1>2, <1>5, <1>6, <1>7, DoneUnchanged, ApartStays DEF Inv

LEMMA UnlinkOrphanKeeps ==
  ASSUME Inv, NEW n \in Names, UnlinkOrphan(n)
  PROVE  Inv'
<1>1. /\ UNCHANGED <<mirakc, job, rows, file, canonical, lost, lock, at, faults>>
      /\ n \in doomed /\ temps' = temps \ {n} /\ doomed' = doomed \ {n}
  BY DEF UnlinkOrphan
<1>2. TypeOK'
  BY <1>1 DEF Inv, TypeOK, RecordOK, RowsOK, FilesOK, WorkersOK, mirakc, rows
<1>3. checkpoint # None => Current # n
  <2>1. checkpoint # None => checkpoint.generation \in Nat
    BY IngestAssumption DEF Inv, TypeOK, RowsOK, Checkpoints, Generations
  <2> QED BY <1>1, <2>1 DEF Inv, GlobalInv, DoomedInv, Current
<1>4. progress # None => progress.temp # n
  BY <1>1 DEF Inv, GlobalInv, DoomedInv
<1>5. \A v \in Workers : Stays(v)
  BY <1>1 DEF Stays, Owns, rows, Inv, WorkerInv, LeaseInv
<1> QED BY <1>1, <1>2, <1>3, <1>4, <1>5, FilesGo DEF rows

LEMMA LoseTempKeeps ==
  ASSUME Inv, NEW n \in Names, LoseTemp(n)
  PROVE  Inv'
<1>1. /\ UNCHANGED <<mirakc, job, rows, file, canonical, lock, at, doomed>>
      /\ temps' = temps \ {n} /\ lost' = lost \cup {n} /\ \A w \in Workers : at[w].step = "idle"
  BY DEF LoseTemp, Working
<1>2. faults' \in 0..MaxFaults
  BY IngestAssumption DEF LoseTemp, Fault, Inv, TypeOK, WorkersOK
<1>3. TypeOK'
  BY <1>1, <1>2 DEF Inv, TypeOK, RecordOK, RowsOK, FilesOK, WorkersOK, mirakc, rows
<1>4. \A v \in Workers : ~Active(v)
  BY <1>1 DEF Active, Before, Writing, Publishing
<1>5. \A v \in Workers : Stays(v)
  BY <1>1 DEF Stays, Owns, rows, Inv, WorkerInv, LeaseInv
<1>6. Current \in temps => Current \in temps' \/ Current \in lost'
  BY <1>1
<1> QED BY <1>1, <1>3, <1>4, <1>5, <1>6, FilesGo DEF rows

(* What a commit leaves behind is of the original's path, and the checkpoint
   has another. *)
LEMMA CleanUpKeeps ==
  ASSUME Inv, NEW w \in Workers, CleanUp(w)
  PROVE  Inv'
<1> DEFINE older == {n \in Names : n[1] = at[w].path /\ n[2] < at[w].generation}
<1>1. /\ UNCHANGED <<mirakc, job, rows, file, canonical, lost, lock, doomed, faults>>
      /\ at[w].step = "clean" /\ temps' = temps \ (older \cup {at[w].temp})
      /\ "purge" \in Steps /\ Goto(w, "purge")
  BY DEF CleanUp, Steps
<1>2. /\ at' \in [Workers -> Attempts]
      /\ at'[w].step = "purge" /\ at'[w].path = at[w].path
      /\ \A v \in Workers : v # w => at'[v] = at[v]
  BY <1>1, GotoIs DEF Inv, TypeOK
<1>t. /\ asset # None /\ at[w].path = asset.path /\ at[w].temp[1] = at[w].path
      /\ checkpoint # None => checkpoint.path # at[w].path
  BY <1>1 DEF Inv, WorkerInv, AfterInv, GlobalInv, PathsInv
<1>3. TypeOK'
  BY <1>1, <1>2 DEF Inv, TypeOK, RecordOK, RowsOK, FilesOK, WorkersOK, mirakc, rows
<1>4. \A n \in older \cup {at[w].temp} : checkpoint # None => n[1] # checkpoint.path
  BY <1>t
<1> HIDE DEF older
<1>5. checkpoint # None /\ Current \in temps => Current \in temps'
  BY <1>1, <1>4 DEF Current
<1>6. progress # None /\ progress.temp \in temps => progress.temp \in temps'
  BY <1>1, <1>4 DEF Inv, GlobalInv, ShownInv
<1>7. Quiet(w)'
  <2>1. ~Owns(w) /\ lock # w /\ at[w].path <= reserved
    BY <1>1 DEF Inv, WorkerInv, LeaseInv, PlaceInv, Active, Before, Writing, Publishing
  <2> QED BY <1>1, <1>2, <1>t, <2>1 DEF Quiet, Owns, rows
<1>8. \A v \in Workers : v # w => Stays(v)
  BY <1>1, <1>2 DEF Stays, Owns, rows, Inv, WorkerInv, LeaseInv
<1> QED BY <1>1, <1>3, <1>5, <1>6, <1>7, <1>8, FilesGo DEF rows

LEMMA AlreadyCommittedKeeps ==
  ASSUME Inv, NEW w \in Workers, AlreadyCommitted(w)
  PROVE  Inv'
<1>1. /\ UNCHANGED <<mirakc, job, checkpoint, asset, reserved, file, canonical, lost, lock, doomed, faults>>
      /\ at[w].step = "committed" /\ temps' = {n \in temps : ~SameFile(n, asset.path)}
      /\ progress' = None /\ "purge" \in Steps /\ Goto(w, "purge")
  BY DEF AlreadyCommitted, Steps
<1>2. /\ at' \in [Workers -> Attempts]
      /\ at'[w].step = "purge" /\ at'[w].path = at[w].path
      /\ \A v \in Workers : v # w => at'[v] = at[v]
  BY <1>1, GotoIs DEF Inv, TypeOK
<1>t. asset # None /\ asset.path \in Paths /\ (checkpoint # None => checkpoint.path # asset.path)
  BY <1>1 DEF Inv, WorkerInv, AfterInv, GlobalInv, PathsInv, TypeOK, RowsOK, Originals
<1>3. TypeOK'
  BY <1>1, <1>2 DEF Inv, TypeOK, RecordOK, RowsOK, FilesOK, WorkersOK, mirakc
<1>4. checkpoint # None /\ Current \in temps => Current \in temps'
  <2>1. canonical[asset.path] # None => canonical[asset.path][1] = asset.path
    BY <1>t DEF Inv, GlobalInv, CanonicalInv
  <2>2. checkpoint # None => canonical[asset.path] # Current
    <3>1. CASE canonical[asset.path] = None /\ checkpoint # None
      BY <1>t, <3>1 DEF Inv, GlobalInv, OriginalInv
    <3>2. CASE canonical[asset.path] # None /\ checkpoint # None
      BY <1>t, <2>1, <3>2 DEF Current
    <3> QED BY <3>1, <3>2
  <2> QED BY <1>1, <2>2 DEF SameFile
<1>5. Quiet(w)'
  <2>1. ~Owns(w) /\ lock # w /\ at[w].path <= reserved
    BY <1>1 DEF Inv, WorkerInv, LeaseInv, PlaceInv, Active, Before, Writing, Publishing
  <2> QED BY <1>1, <1>2, <1>t, <2>1 DEF Quiet, Owns
<1>6. \A v \in Workers : v # w => Stays(v)
  BY <1>1, <1>2 DEF Stays, Owns, Inv, WorkerInv, LeaseInv
<1> QED BY <1>1, <1>3, <1>4, <1>5, <1>6, FilesGo

LEMMA DiscardKeeps ==
  ASSUME Inv, NEW w \in Workers, DiscardCanceled(w) \/ DiscardMismatch(w)
  PROVE  Inv'
<1>1. /\ UNCHANGED <<mirakc, asset, reserved, file, canonical, lost, lock, doomed, faults>>
      /\ at[w].step = "transfer" /\ at' = [at EXCEPT ![w] = Idle] /\ lock \in {NoOne, w}
      /\ IF OwnsWriter(w)
         THEN /\ checkpoint.generation < MaxGeneration
              /\ checkpoint' = [Released(w) EXCEPT !.generation = @ + 1,
                                                   !.handedOff = FALSE, !.hash = <<>>]
              /\ progress' = None /\ temps' = temps \ {at[w].temp}
         ELSE checkpoint' = Released(w) /\ UNCHANGED <<progress, temps>>
      /\ job' \in {FALSE, job}
  BY DEF DiscardCanceled, DiscardMismatch, Discard, Free, Transferred
<1>t. /\ lock = NoOne /\ RowsOK /\ at' \in [Workers -> Attempts] /\ at'[w] = Idle
      /\ \A v \in Workers : v # w => at'[v] = at[v]
  BY <1>1, IdleIs, AtIs DEF Inv, TypeOK, WorkerInv, LeaseInv
<1>r. RecordOK' /\ faults' \in 0..MaxFaults
  BY <1>1 DEF Inv, TypeOK, RecordOK, WorkersOK, mirakc
<1>2. CASE ~OwnsWriter(w)
  <2>1. checkpoint' = Released(w) /\ UNCHANGED <<progress, temps>>
    BY <1>1, <1>2
  <2>2. SameHandoff
    BY <1>t, <2>1, ReleasedIs DEF SameHandoff, SamePlace
  <2>3. /\ checkpoint' \in {None} \cup Checkpoints
        /\ checkpoint # None =>
              checkpoint'.owner \in {checkpoint.owner, NoOne} /\ checkpoint'.owner # w
    BY <1>t, <2>1, ReleasedIs
  <2> QED BY <1>1, <1>t, <1>r, <2>1, <2>2, <2>3, DoneUnchanged, AttemptEnds, IngestAssumption DEF files
<1>3. CASE OwnsWriter(w)
  <2> DEFINE r == Released(w)
  <2>1. /\ checkpoint \in Checkpoints /\ checkpoint # None /\ checkpoint.generation \in Nat
        /\ checkpoint.generation \in Generations
    BY <1>3, <1>t, IngestAssumption DEF OwnsWriter, Owns, RowsOK, Checkpoints, Generations
  <2>2. r \in Checkpoints /\ r.owner = NoOne /\ r.path = checkpoint.path
        /\ r.generation = checkpoint.generation
    <3>1. r = [checkpoint EXCEPT !.owner = NoOne, !.live = FALSE]
      BY <1>3 DEF OwnsWriter, Released
    <3> QED BY <2>1, <3>1 DEF Checkpoints
  <2>3. checkpoint' = [r EXCEPT !.generation = r.generation + 1, !.handedOff = FALSE, !.hash = <<>>]
    BY <1>1, <1>3, <2>2 DEF Checkpoints
  <2> HIDE DEF r
  <2>4. checkpoint.generation + 1 \in Generations
    BY <1>1, <1>3, <2>1, IngestAssumption DEF Generations
  <2>5. /\ checkpoint' \in Checkpoints /\ checkpoint' # None /\ checkpoint'.owner = NoOne
        /\ checkpoint'.path = checkpoint.path /\ checkpoint'.generation = checkpoint.generation + 1
        /\ ~checkpoint'.handedOff
    <3>1. checkpoint' \in Checkpoints
      BY <2>2, <2>3, <2>4, EmptyContents DEF Checkpoints
    <3> QED BY <2>2, <2>3, <2>4, <3>1, NoneAssumption DEF Checkpoints
  <2>6. TypeOK'
    BY <1>1, <1>t, <1>r, <1>3, <2>5 DEF Inv, TypeOK, RowsOK, FilesOK, WorkersOK
  <2>7. WorkerInv(w)'
    <3>1. Quiet(w)'
      <4>1. reserved \in Nat
        BY <1>t DEF RowsOK, Paths
      <4> QED BY <1>1, <1>t, <2>5, <4>1, IdleIs, IngestAssumption DEF Quiet, Owns
    <3> QED BY <3>1, QuietIsFine
  <2>8. FilesStay
    BY <1>1 DEF FilesStay
  <2>9. ASSUME NEW v \in Workers, v # w PROVE WorkerInv(v)'
    <3>1. Steady(v)
      BY <1>1, <1>t, <2>1, <2>5, <2>9, DoneUnchanged, IngestAssumption
      DEF Steady, DoneStays, Inv, TypeOK, RowsOK, Paths
    <3> QED BY <2>6, <3>1, SteadyKeeps DEF Inv
  <2>10. GlobalInv'
    <3>1. PathsInv'
      BY <1>1, <2>1, <2>5 DEF Inv, GlobalInv, PathsInv
    <3>2. NamesInv'
      BY <1>1, <2>1, <2>5, IngestAssumption DEF Inv, GlobalInv, NamesInv, Names, Generations, Paths
    <3>3. HandoffInv' /\ ShownInv'
      BY <1>1, <1>3, <2>5 DEF HandoffInv, ShownInv
    <3>4. DoomedInv'
      BY <1>1, <1>3, <2>1, <2>5, IngestAssumption
      DEF Inv, GlobalInv, DoomedInv, Names, Generations, Paths, TypeOK, FilesOK
    <3> QED BY <1>1, <2>8, <3>1, <3>2, <3>3, <3>4, LinkedStays DEF GlobalInv
  <2>11. SameNames
    BY <1>t, IdleIs DEF SameNames, Active, Before, Writing, Publishing
  <2> QED BY <1>1, <2>6, <2>7, <2>8, <2>9, <2>10, <2>11, DoneUnchanged, ApartStays DEF Inv
<1> QED BY <1>2, <1>3

-----------------------------------------------------------------------------
(* The canonical link and the commit. *)

LEMMA PublishLinkKeeps ==
  ASSUME Inv, NEW w \in Workers, PublishLink(w)
  PROVE  Inv'
<1> DEFINE p == at[w].path
           n == at[w].temp
<1>1. /\ UNCHANGED <<mirakc, job, rows, file, temps, lost, lock, doomed, faults>>
      /\ at[w].step = "link" /\ "commit" \in Steps /\ Goto(w, "commit")
      /\ \/ canonical[p] = None /\ n \in temps /\ canonical' = [canonical EXCEPT ![p] = n]
         \/ /\ canonical[p] # None /\ (canonical[p] = n \/ file[canonical[p]] = at[w].hash)
            /\ UNCHANGED canonical
  BY DEF PublishLink, Steps
<1>2. /\ at' \in [Workers -> Attempts]
      /\ at'[w].step = "commit" /\ at'[w].path = at[w].path /\ at'[w].generation = at[w].generation
      /\ at'[w].resumed = at[w].resumed /\ at'[w].hash = at[w].hash /\ at'[w].temp = at[w].temp
      /\ \A v \in Workers : v # w => at'[v] = at[v]
  BY <1>1, GotoIs DEF Inv, TypeOK
<1>t. /\ p \in Paths /\ n \in Names /\ n # None /\ n[1] = p /\ file[n] = at[w].hash
      /\ Done(at[w].hash) /\ file[n] # None
  BY <1>1, NoneAssumption
  DEF Inv, TypeOK, WorkersOK, Attempts, WorkerInv, FileInv, PlaceInv, Active, Publishing
<1>3. /\ canonical' \in [Paths -> {None} \cup Names] /\ canonical'[p] # None
      /\ file[canonical'[p]] = at[w].hash
      /\ \A q \in Paths : canonical[q] # None => canonical'[q] = canonical[q]
      /\ \A q \in Paths : canonical'[q] # canonical[q] => q = p /\ canonical'[q] = n
  BY <1>1, <1>t DEF Inv, TypeOK, FilesOK
<1> HIDE DEF p, n
<1>4. TypeOK'
  BY <1>1, <1>2, <1>3 DEF Inv, TypeOK, RecordOK, RowsOK, FilesOK, WorkersOK, mirakc, rows
<1>5. WorkerInv(w)'
  <2>1. LeaseInv(w)' /\ AfterInv(w)' /\ PlaceInv(w)'
    BY <1>1, <1>2
    DEF Inv, WorkerInv, LeaseInv, AfterInv, PlaceInv, Owns, Active, rows, Before, Writing, Publishing
  <2>2. FileInv(w)'
    BY <1>1, <1>2, <1>3
    DEF Inv, WorkerInv, FileInv, Done, mirakc, Before, Writing, Publishing, p
  <2> QED BY <2>1, <2>2 DEF WorkerInv
<1>6. ASSUME NEW v \in Workers, v # w PROVE WorkerInv(v)'
  <2>1. at[v].step = "commit" => at[v].path \in Paths /\ canonical[at[v].path] # None
    BY DEF Inv, TypeOK, WorkersOK, Attempts, WorkerInv, FileInv, PlaceInv, Active, Publishing
  <2>2. Steady(v)
    BY <1>1, <1>2, <1>3, <1>6, <2>1, DoneUnchanged, IngestAssumption
    DEF Steady, DoneStays, Owns, rows, Inv, TypeOK, RowsOK, Checkpoints, Generations, Paths,
        WorkerInv, LeaseInv
  <2> QED BY <1>4, <2>2, SteadyKeeps DEF Inv
<1>7. SamePlace /\ SameHandoff /\ SameNames /\ FilesStay /\ DoneStays
  BY <1>1, <1>2, DoneUnchanged DEF SamePlace, SameHandoff, SameNames, FilesStay, Active, Publishing, rows
<1>8. GlobalInv'
  <2>1. PathsInv' /\ NamesInv' /\ ShownInv' /\ DoomedInv' /\ EndedInv'
    BY <1>1 DEF Inv, GlobalInv, PathsInv, NamesInv, ShownInv, DoomedInv, EndedInv, mirakc, rows
  <2>2. CanonicalInv'
    BY <1>1, <1>3, <1>t DEF Inv, GlobalInv, CanonicalInv, Done, mirakc
  <2>3. OriginalInv'
    BY <1>1, <1>3 DEF Inv, GlobalInv, OriginalInv, Done, mirakc, rows, TypeOK, RowsOK, Originals
  <2>4. HandoffInv'
    <3>1. \A v \in Workers : Active(v)' = Active(v) /\ WriterTemp(v)' = WriterTemp(v)
      BY <1>1, <1>2 DEF Active, WriterTemp, Publishing
    <3> QED BY <1>1, <3>1 DEF Inv, GlobalInv, HandoffInv, Current, Done, mirakc, rows
  <2> QED BY <2>1, <2>2, <2>3, <2>4 DEF GlobalInv
<1>9. \A u, v \in Workers : Apart(u, v)'
  BY <1>7, ApartStays
<1> QED BY <1>4, <1>5, <1>6, <1>8, <1>9 DEF Inv

LEMMA CommitKeeps ==
  ASSUME Inv, NEW w \in Workers, CommitOriginal(w) \/ CommitUnanswered(w)
  PROVE  Inv'
<1>1. /\ UNCHANGED <<mirakc, job, reserved, files, doomed>>
      /\ at[w].step = "commit" /\ lock = w
      /\ asset' = [path |-> at[w].path, sha256 |-> at[w].hash]
      /\ progress' = None /\ checkpoint' = None /\ lock' = NoOne
      /\ \/ "clean" \in Steps /\ Goto(w, "clean")
         \/ at' = [at EXCEPT ![w] = Idle]
  BY DEF CommitOriginal, CommitUnanswered, Commits, Steps
<1>2. faults' \in 0..MaxFaults
  BY IngestAssumption DEF CommitOriginal, CommitUnanswered, Fault, Inv, TypeOK, WorkersOK
<1>3. /\ at' \in [Workers -> Attempts] /\ \A v \in Workers : v # w => at'[v] = at[v]
      /\ \/ at'[w].step = "clean" /\ at'[w].path = at[w].path /\ at'[w].temp = at[w].temp
         \/ at'[w].step = "idle" /\ at'[w].path = 0
  BY <1>1, GotoIs, AtIs, IdleIs DEF Inv, TypeOK
<1>t. /\ Owns(w) /\ asset = None /\ at[w].path = checkpoint.path /\ at[w].path \in Paths
      /\ at[w].path <= reserved /\ reserved \in 0..2 /\ checkpoint # None
      /\ at[w].temp \in Names /\ at[w].temp[1] = at[w].path
      /\ at[w].hash \in Contents /\ Done(at[w].hash)
      /\ canonical[at[w].path] # None /\ file[canonical[at[w].path]] = at[w].hash
  BY <1>1
  DEF Inv, TypeOK, WorkersOK, RowsOK, Paths, Attempts, WorkerInv, LeaseInv, FileInv, PlaceInv, Owns,
      Active, Publishing
<1>4. asset' \in Originals /\ asset' # None /\ asset'.path = at[w].path /\ asset'.sha256 = at[w].hash
  BY <1>1, <1>t, NoneAssumption DEF Originals
<1>5. TypeOK'
  BY <1>1, <1>2, <1>3, <1>4 DEF Inv, TypeOK, RecordOK, RowsOK, FilesOK, WorkersOK, mirakc, files
<1>6. WorkerInv(w)'
  BY <1>1, <1>3, <1>4, <1>t, IngestAssumption
  DEF WorkerInv, LeaseInv, PlaceInv, FileInv, AfterInv, Owns, Active, Before, Writing, Publishing
<1>7. ASSUME NEW v \in Workers, v # w PROVE WorkerInv(v)'
  <2>1. Steady(v)
    BY <1>1, <1>3, <1>t, <1>7, DoneUnchanged, IngestAssumption
    DEF Steady, DoneStays, files
  <2> QED BY <1>5, <2>1, SteadyKeeps DEF Inv
<1>8. GlobalInv'
  <2>1. PathsInv'
    BY <1>1, <1>4, <1>t DEF Inv, GlobalInv, PathsInv, Paths
  <2>2. NamesInv'
    BY <1>1 DEF Inv, GlobalInv, NamesInv, files
  <2>3. DoomedInv'
    BY <1>1 DEF Inv, GlobalInv, DoomedInv, files
  <2>4. HandoffInv' /\ ShownInv'
    BY <1>1 DEF HandoffInv, ShownInv
  <2>5. CanonicalInv' /\ EndedInv'
    BY <1>1 DEF Inv, GlobalInv, CanonicalInv, EndedInv, Done, mirakc, files
  <2>6. OriginalInv'
    BY <1>1, <1>4, <1>t DEF OriginalInv, Done, mirakc, files
  <2> QED BY <2>1, <2>2, <2>3, <2>4, <2>5, <2>6 DEF GlobalInv
<1>9. SameNames /\ FilesStay
  BY <1>1, <1>3 DEF SameNames, FilesStay, Active, Before, Writing, Publishing, files
<1> QED BY <1>1, <1>5, <1>6, <1>7, <1>8, <1>9, DoneUnchanged, ApartStays DEF Inv

-----------------------------------------------------------------------------
(* The next chunk. *)

LEMMA TransferKeeps ==
  ASSUME Inv, NEW w \in Workers, Transfer(w)
  PROVE  Inv'
<1> DEFINE got == Len(at[w].hash) + 1
           n == at[w].temp
<1>1. PICK chunk \in {got, 0} :
         /\ at[w].step = "transfer" /\ got <= grown
         /\ UNCHANGED <<mirakc, job, checkpoint, asset, reserved, temps, canonical, lost, lock, doomed>>
         /\ file' = [file EXCEPT ![n] = Append(@, chunk)]
         /\ at' = [at EXCEPT ![w].hash = Append(@, chunk)]
         /\ progress' = progress \/ (OwnsWriter(w) /\ progress' = Reported(w, got))
  BY DEF Transfer, ReportProgress, Leased, rows
<1>2. faults' \in 0..MaxFaults
  BY IngestAssumption DEF Transfer, Fault, Inv, TypeOK, WorkersOK
<1> DEFINE h == Append(at[w].hash, chunk)
           a == [at[w] EXCEPT !.hash = h]
<1>3. /\ at[w] \in Attempts /\ at[w].hash \in Contents /\ n \in Names /\ n = WriterTemp(w)
      /\ file[n] = at[w].hash /\ file[n] # None /\ grown \in 0..Length /\ Active(w)
      /\ at[w].path # 0 /\ Len(at[w].hash) \in 0..Length
  BY <1>1, NoneAssumption, ContentsAreSequences
  DEF Inv, TypeOK, RecordOK, WorkersOK, Attempts, WorkerInv, FileInv, PlaceInv, Active, Writing
<1>4. Len(at[w].hash) < Length /\ got \in 0..Length /\ chunk \in Chunks
  BY <1>1, <1>3, IngestAssumption DEF Chunks
<1>5. h \in Contents /\ Len(h) = got
  BY <1>3, <1>4, AppendContents
<1>6. /\ a \in Attempts /\ a.step = "transfer" /\ a.path = at[w].path /\ a.generation = at[w].generation
      /\ a.resumed = at[w].resumed /\ a.hash = h /\ a.temp = n
      /\ at' = [at EXCEPT ![w] = a]
  BY <1>1, <1>3, <1>5 DEF Attempts, Inv, TypeOK, WorkersOK
<1>7. /\ file' \in [Names -> {None} \cup Contents] /\ file'[n] = h /\ h # None
      /\ \A m \in Names : m # n => file'[m] = file[m]
  BY <1>1, <1>3, <1>5, NoneAssumption DEF Inv, TypeOK, FilesOK
<1> HIDE DEF a, h, n
<1>8. at' \in [Workers -> Attempts] /\ at'[w] = a /\ \A v \in Workers : v # w => at'[v] = at[v]
  BY <1>6, AtIs DEF Inv, TypeOK
<1>9. SamePlace /\ SameHandoff /\ SameNames
  BY <1>1, <1>3, <1>6, <1>8 DEF SamePlace, SameHandoff, SameNames, Active
<1>10. ShownInv' /\ DoomedInv' /\ progress' \in {None} \cup Progress
  <2>1. progress' = progress \/ Reports(w, got)
    BY <1>1, <1>4, <1>5, <1>7 DEF Reports, Writing, n
  <2>2. \A m \in Names : file[m] # None => file'[m] # None /\ Len(file'[m]) >= Len(file[m])
    <3>1. \A m \in Names : file[m] # None => Len(file[m]) \in Nat
      BY IngestAssumption, ContentsAreSequences DEF Inv, TypeOK, FilesOK
    <3> QED BY <1>3, <1>4, <1>5, <1>7, <3>1
  <2> HIDE DEF got
  <2> QED BY <1>1, <1>4, <1>7, <1>9, <2>1, <2>2, ReportsWhatIsThere
<1>11. TypeOK'
  BY <1>1, <1>2, <1>7, <1>8, <1>10 DEF Inv, TypeOK, RecordOK, RowsOK, FilesOK, WorkersOK, mirakc
<1>12. WorkerInv(w)'
  <2>1. LeaseInv(w)' /\ AfterInv(w)' /\ PlaceInv(w)'
    BY <1>1, <1>6, <1>8
    DEF Inv, WorkerInv, LeaseInv, AfterInv, PlaceInv, Owns, Active, WriterTemp,
        Before, Writing, Publishing
  <2>2. FileInv(w)'
    BY <1>3, <1>6, <1>7, <1>8
    DEF Inv, WorkerInv, FileInv, WriterTemp, Before, Writing, Publishing, n
  <2> QED BY <2>1, <2>2 DEF WorkerInv
<1>13. ASSUME NEW m \in Names, file[m] # None, Done(file[m]) PROVE m # n
  BY <1>3, <1>4, <1>13 DEF Done
<1>14. ASSUME NEW v \in Workers, v # w PROVE WorkerInv(v)'
  <2>1. /\ at[v].step \in Before /\ at[v].path # 0 => WriterTemp(v) # n
        /\ at[v].step \in Writing \cup Publishing => at[v].temp # n
    BY <1>1, <1>3, <1>4, <1>14, NobodyElseWrites
  <2>2. at[v].step \in Before /\ at[v].path # 0 => file'[WriterTemp(v)] = file[WriterTemp(v)]
    BY <1>7, <2>1, NamesAreNames DEF Inv, WorkerInv, Active
  <2>3. at[v].step \in Writing \cup Publishing => file'[at[v].temp] = file[at[v].temp]
    BY <1>7, <2>1 DEF Inv, WorkerInv, FileInv
  <2>4. at[v].step = "commit" => file'[canonical[at[v].path]] = file[canonical[at[v].path]]
    <3> SUFFICES ASSUME at[v].step = "commit"
                 PROVE  file'[canonical[at[v].path]] = file[canonical[at[v].path]]
      OBVIOUS
    <3>1. at[v].path \in Paths /\ canonical[at[v].path] # None
      BY DEF Inv, TypeOK, WorkersOK, Attempts, WorkerInv, FileInv, PlaceInv, Active, Publishing
    <3> QED BY <1>7, <1>13, <3>1 DEF Inv, GlobalInv, CanonicalInv, TypeOK, FilesOK
  <2>5. Steady(v)
    BY <1>1, <1>8, <1>14, <2>2, <2>3, <2>4, DoneUnchanged, IngestAssumption
    DEF Steady, DoneStays, Owns, Inv, TypeOK, RowsOK, Checkpoints, Generations, Paths, WorkerInv, LeaseInv
  <2> QED BY <1>11, <2>5, SteadyKeeps DEF Inv
<1>15. FilesStay
  BY <1>7, <1>13 DEF FilesStay
<1>16. GlobalInv'
  <2>1. PathsInv'
    BY <1>1 DEF Inv, GlobalInv, PathsInv
  <2>2. NamesInv'
    BY <1>1, <1>3, <1>7 DEF Inv, GlobalInv, NamesInv
  <2>3. HandoffInv'
    <3> SUFFICES ASSUME checkpoint # None, checkpoint.handedOff
                 PROVE  HandoffInv'
      BY <1>1 DEF HandoffInv
    <3>1. /\ Current' = Current /\ checkpoint' = checkpoint /\ checkpoint.hash \in Contents
          /\ checkpoint.path # 0 /\ file[Current] = checkpoint.hash /\ Current \in temps \cup lost
          /\ Current \in Names
          /\ \A v \in Workers : Active(v) /\ WriterTemp(v) = Current => Done(checkpoint.hash)
      BY <1>1 DEF Inv, GlobalInv, HandoffInv, Current, TypeOK, RowsOK, Checkpoints, Names
    <3>2. file'[Current] = file[Current]
      BY <1>3, <1>4, <1>7, <1>13, <3>1, NoneAssumption
    <3>3. ASSUME NEW v \in Workers, Active(v)', WriterTemp(v)' = Current
          PROVE  Done(checkpoint.hash)
      BY <1>3, <1>6, <1>8, <3>1, <3>3 DEF Active, WriterTemp
    <3> QED BY <1>1, <3>1, <3>2, <3>3 DEF HandoffInv, Done, mirakc
  <2> QED BY <1>1, <1>10, <1>15, <2>1, <2>2, <2>3, LinkedStays DEF GlobalInv
<1>17. \A u, v \in Workers : Apart(u, v)'
  BY <1>1, <1>9, <1>15, ApartStays, DoneUnchanged
<1> QED BY <1>11, <1>12, <1>14, <1>16, <1>17 DEF Inv

-----------------------------------------------------------------------------
(* The invariant. *)

LEMMA InitInv == Init => Inv
<1> SUFFICES ASSUME Init PROVE Inv
  OBVIOUS
<1>1. Idle \in Attempts /\ Idle.step = "idle" /\ Idle.path = 0
  BY IdleIs
<1>2. TypeOK
  BY <1>1, IngestAssumption DEF Init, TypeOK, RecordOK, RowsOK, FilesOK, WorkersOK
<1>3. \A w \in Workers : at[w] = Idle
  BY DEF Init
<1>4. \A w \in Workers : WorkerInv(w)
  BY <1>1, <1>3, IngestAssumption
  DEF Init, WorkerInv, LeaseInv, PlaceInv, FileInv, AfterInv, Owns, Active, Before, Writing, Publishing
<1>5. \A v, w \in Workers : Apart(v, w)
  BY <1>1, <1>3 DEF Apart, Active, Before, Writing, Publishing
<1>6. GlobalInv
  BY DEF Init, GlobalInv, PathsInv, NamesInv, CanonicalInv, HandoffInv, DoomedInv, ShownInv,
         OriginalInv, EndedInv
<1> QED BY <1>2, <1>4, <1>5, <1>6 DEF Inv

LEMMA NextInv == Inv /\ [Next]_vars => Inv'
<1> SUFFICES ASSUME Inv, [Next]_vars PROVE Inv'
  OBVIOUS
<1>1. CASE Grow \/ EndRecord \/ Requeue
  BY <1>1, RecordKeeps
<1>2. CASE LeaseOfDead \/ LeaseOfLiving
  BY <1>2, LeaseKeeps
<1>3. ASSUME NEW w \in Workers, WorkerStep(w)
      PROVE  Inv'
  <2>1. CASE Lookup(w) \/ Acquire(w) \/ Prepare(w) \/ Inspect(w)
    BY <2>1, LookupKeeps, AcquireKeeps, PrepareKeeps, InspectKeeps
  <2>2. CASE OpenWriterFile(w)
    BY <2>2, OpenWriterFileKeeps, NextGenerationKeeps
  <2>3. CASE StartProgress(w) \/ Complete(w) \/ Transfer(w)
    BY <2>3, StartOrCompleteKeeps, TransferKeeps
  <2>4. CASE DiscardCanceled(w) \/ DiscardMismatch(w) \/ GiveUp(w)
    BY <2>4, DiscardKeeps, ReleaseKeeps
  <2>5. CASE SaveFinalHandoff(w) \/ BeginPublication(w) \/ PublishLink(w) \/ CommitOriginal(w)
    BY <2>5, SaveFinalHandoffKeeps, BeginPublicationKeeps, PublishLinkKeeps, CommitKeeps
  <2>6. CASE CleanUp(w) \/ AlreadyCommitted(w) \/ DeleteEdgeRecord(w)
    BY <2>6, CleanUpKeeps, AlreadyCommittedKeeps, DeleteEdgeRecordKeeps
  <2> QED BY <1>3, <2>1, <2>2, <2>3, <2>4, <2>5, <2>6 DEF WorkerStep
<1>4. ASSUME NEW w \in Workers,
             HandOff(w) \/ CommitUnanswered(w) \/ LoseTransaction(w) \/ Fails(w) \/ Crash(w)
      PROVE  Inv'
  BY <1>4, HandOffKeeps, CommitKeeps, LoseTransactionKeeps, ReleaseKeeps, CrashKeeps
<1>5. ASSUME NEW n \in Names, CheckOrphan(n) \/ UnlinkOrphan(n) \/ LoseTemp(n)
      PROVE  Inv'
  BY <1>5, CheckOrphanKeeps, UnlinkOrphanKeeps, LoseTempKeeps
<1>6. CASE UNCHANGED vars
  <2>1. /\ UNCHANGED <<mirakc, job, rows, files, lock, at, doomed, faults>>
        /\ UNCHANGED <<progress, asset, reserved, doomed>>
    BY <1>6 DEF vars, rows
  <2>2. TypeOK'
    BY <2>1 DEF Inv, TypeOK, RecordOK, RowsOK, FilesOK, WorkersOK, mirakc, rows, files
  <2>3. SameHandoff /\ \A v \in Workers : Stays(v)
    BY <2>1 DEF SameHandoff, SamePlace, Stays, Owns, rows, Inv, WorkerInv, LeaseInv
  <2> QED BY <2>1, <2>2, <2>3, DoneUnchanged, Bookkeeping
<1> QED BY <1>1, <1>2, <1>3, <1>4, <1>5, <1>6 DEF Next

THEOREM InvHolds == Spec => []Inv
<1> QED BY InitInv, NextInv, PTL DEF Spec

-----------------------------------------------------------------------------
(* Rows, files and attempts are of their types throughout: no generation, path
   or file length runs over, and no name that is used is none. *)
THEOREM TypeCorrect == Spec => []TypeOK
<1>1. Inv => TypeOK
  BY DEF Inv
<1> QED BY <1>1, InvHolds, PTL

(* What AcquireIngestCheckpoint resumes is what the saved offset and hash speak
   of, for any number of workers with lost leases beside it. *)
THEOREM HandoffIsIntact == Spec => []HandoffIntact
<1>1. Inv => HandoffIntact
  BY DEF Inv, GlobalInv, HandoffInv, HandoffIntact, Current
<1> QED BY <1>1, InvHolds, PTL

(* The file that UpdateRecordingIngestProgress has announced is there with all
   that its row claims, whatever delete_reconcile collects. *)
THEOREM ShownIsAlwaysThere == Spec => []ShownIsThere
<1>1. Inv => ShownIsThere
  BY DEF Inv, GlobalInv, ShownInv, ShownIsThere
<1> QED BY <1>1, InvHolds, PTL

(* The committed file has mirakc's hash, whoever has linked it. *)
THEOREM CommittedIsVerified == Spec => []Verified
<1>1. Inv => Verified
  BY DEF Inv, GlobalInv, OriginalInv, Verified, Done
<1> QED BY <1>1, InvHolds, PTL

(* Only a transfer changes a file that is there. *)
LEMMA OnlyTransferWrites ==
  ASSUME Inv, [Next]_vars, NEW n \in Names, file[n] # None, file'[n] # file[n]
  PROVE  \E w \in Workers : Transfer(w) /\ at[w].temp = n
<1>1. PICK w \in Workers : OpenWriterFile(w) \/ Transfer(w)
  BY DEF Next, vars, files, WorkerStep, Grow, EndRecord, Requeue, LeaseOfDead, LeaseOfLiving, ExpireLease,
         Lookup, Acquire, Prepare, Inspect, StartProgress, DiscardCanceled, DiscardMismatch, Discard,
         Complete, SaveFinalHandoff, BeginPublication, PublishLink, CommitOriginal, CleanUp,
         AlreadyCommitted, DeleteEdgeRecord, GiveUp, HandOff, CommitUnanswered, LoseTransaction,
         Fails, Crash, CheckOrphan, UnlinkOrphan, LoseTemp
<1>2. CASE OpenWriterFile(w)
  <2>1. file' = [file EXCEPT ![WriterTemp(w)] = <<>>] /\ ~at[w].resumed /\ at[w].step = "open"
    BY <1>2 DEF OpenWriterFile
  <2>2. at[w].path # 0 /\ file[WriterTemp(w)] = None
    BY <2>1 DEF Inv, WorkerInv, PlaceInv, FileInv, Active, Before
  <2> QED BY <2>1, <2>2 DEF Inv, TypeOK, FilesOK
<1>3. CASE Transfer(w)
  <2>1. PICK chunk \in {Len(at[w].hash) + 1, 0} : file' = [file EXCEPT ![at[w].temp] = Append(@, chunk)]
    BY <1>3 DEF Transfer
  <2> QED BY <1>3, <2>1 DEF Inv, TypeOK, FilesOK
<1> QED BY <1>1, <1>2, <1>3

(* A name is given to one file, and one worker writes it: what
   ClaimRecordingIngestCheckpoint and DiscardRecordingIngestCheckpoint count
   generations for. *)
THEOREM OneWriterHolds == Spec => OneWriter
<1> DEFINE A == \A n \in Names : file[n] # None /\ file'[n] # file[n] =>
                  file'[n] # <<>> /\ Cardinality({w \in Workers : Writes(w, n)}) = 1
<1>1. Inv /\ [Next]_vars => A
  <2> SUFFICES ASSUME Inv, [Next]_vars, NEW n \in Names, file[n] # None, file'[n] # file[n]
               PROVE  file'[n] # <<>> /\ Cardinality({w \in Workers : Writes(w, n)}) = 1
    OBVIOUS
  <2>1. PICK w \in Workers : Transfer(w) /\ at[w].temp = n
    BY OnlyTransferWrites
  <2>2. PICK chunk \in {Len(at[w].hash) + 1, 0} :
           /\ at[w].step = "transfer" /\ Len(at[w].hash) + 1 <= grown
           /\ file' = [file EXCEPT ![n] = Append(@, chunk)]
    BY <2>1 DEF Transfer
  <2>3. /\ at[w].hash \in Contents /\ Len(at[w].hash) \in 0..Length /\ file[n] = at[w].hash
        /\ n = WriterTemp(w) /\ grown \in 0..Length
    BY <2>1, <2>2, ContentsAreSequences
    DEF Inv, TypeOK, RecordOK, WorkersOK, Attempts, WorkerInv, FileInv, Writing
  <2>4. Len(at[w].hash) < Length /\ chunk \in Chunks
    BY <2>2, <2>3, IngestAssumption DEF Chunks
  <2>5. file'[n] # <<>>
    <3>1. file'[n] = Append(at[w].hash, chunk)
      BY <2>2, <2>3 DEF Inv, TypeOK, FilesOK
    <3>2. Len(file'[n]) = Len(at[w].hash) + 1
      BY <2>3, <2>4, <3>1, AppendContents
    <3> QED BY <2>3, <3>2, EmptyContents
  <2>6. {v \in Workers : Writes(v, n)} = {w}
    <3>1. Writes(w, n)
      BY <2>1, <2>2 DEF Writes
    <3>2. ASSUME NEW v \in Workers, v # w PROVE ~Writes(v, n)
      BY <2>2, <2>3, <2>4, <3>2, NobodyElseWrites DEF Writes, Writing
    <3> QED BY <3>1, <3>2
  <2>7. Cardinality({w}) = 1
    BY FS_Singleton
  <2> QED BY <2>5, <2>6, <2>7
<1> QED BY <1>1, InvHolds, PTL DEF Spec, OneWriter

-----------------------------------------------------------------------------
(* The contract. *)

(* What any step may do to the record and the original's row. *)
LEMMA RecordAndOriginal ==
  ASSUME [Next]_vars
  PROVE  \/ UNCHANGED <<record, asset>>
         \/ EndRecord
         \/ \E w \in Workers : at[w].step = "commit" /\ lock = w /\ asset' # asset /\ UNCHANGED record
         \/ \E w \in Workers : at[w].step = "purge" /\ record' = "purged" /\ UNCHANGED asset
<1>1. ASSUME NEW w \in Workers, CommitOriginal(w) \/ CommitUnanswered(w)
      PROVE  /\ at[w].step = "commit" /\ lock = w
             /\ UNCHANGED <<record, asset>> \/ (asset' # asset /\ UNCHANGED record)
  BY <1>1 DEF CommitOriginal, CommitUnanswered, Commits, mirakc
<1>2. ASSUME NEW w \in Workers, DeleteEdgeRecord(w)
      PROVE  \/ UNCHANGED <<record, asset>>
             \/ at[w].step = "purge" /\ record' = "purged" /\ UNCHANGED asset
  BY <1>2 DEF DeleteEdgeRecord, rows
<1>3. ASSUME NEW w \in Workers, WorkerStep(w), ~CommitOriginal(w), ~DeleteEdgeRecord(w)
      PROVE  UNCHANGED <<record, asset>>
  <2>1. CASE Lookup(w) \/ Acquire(w) \/ Prepare(w) \/ Inspect(w) \/ OpenWriterFile(w)
    BY <2>1 DEF Lookup, Acquire, Prepare, Inspect, OpenWriterFile, mirakc, rows
  <2>2. CASE StartProgress(w) \/ Complete(w) \/ Transfer(w)
    BY <2>2 DEF StartProgress, Complete, Transfer, ReportProgress, mirakc, rows
  <2>3. CASE DiscardCanceled(w) \/ DiscardMismatch(w) \/ GiveUp(w)
    BY <2>3 DEF DiscardCanceled, DiscardMismatch, Discard, GiveUp, mirakc
  <2>4. CASE SaveFinalHandoff(w) \/ BeginPublication(w) \/ PublishLink(w) \/ CleanUp(w) \/ AlreadyCommitted(w)
    BY <2>4 DEF SaveFinalHandoff, BeginPublication, PublishLink, CleanUp, AlreadyCommitted, mirakc, rows
  <2> QED BY <1>3, <2>1, <2>2, <2>3, <2>4 DEF WorkerStep
<1>4. ASSUME NEW w \in Workers, HandOff(w) \/ LoseTransaction(w) \/ Fails(w) \/ Crash(w)
      PROVE  UNCHANGED <<record, asset>>
  BY <1>4 DEF HandOff, LoseTransaction, Fails, Crash, mirakc, rows
<1>5. ASSUME NEW n \in Names, CheckOrphan(n) \/ UnlinkOrphan(n) \/ LoseTemp(n)
      PROVE  UNCHANGED <<record, asset>>
  BY <1>5 DEF CheckOrphan, UnlinkOrphan, LoseTemp, mirakc, rows
<1>6. CASE Grow \/ Requeue \/ LeaseOfDead \/ LeaseOfLiving
  BY <1>6 DEF Grow, Requeue, LeaseOfDead, LeaseOfLiving, ExpireLease, mirakc, rows
<1>7. CASE UNCHANGED vars
  BY <1>7 DEF vars, mirakc, rows
<1> QED BY <1>1, <1>2, <1>3, <1>4, <1>5, <1>6, <1>7 DEF Next

(* Every step of ingest is one of the contract or none: the original comes whole,
   once, and after the record has finished, and mirakc's record goes after it
   (commitAndFinish, handleAlreadyCommittedIngest). *)
THEOREM StepsOfTheContract == Spec => Contract!Init /\ [][Contract!Next]_(Contract!vars)
<1>1. Init => Contract!Init
  BY DEF Init, Contract!Init, Original
<1>2. Inv /\ Inv' /\ [Next]_vars => [Contract!Next]_(Contract!vars)
  <2> SUFFICES ASSUME Inv, Inv', [Next]_vars PROVE [Contract!Next]_(Contract!vars)
    OBVIOUS
  <2> DEFINE o == IF asset = None THEN "none" ELSE "whole"
  <2>o. Original = o /\ Original' = o'
    BY DEF Inv, GlobalInv, OriginalInv, Original, Done
  <2>1. CASE UNCHANGED <<record, asset>>
    BY <2>1, <2>o DEF Contract!vars
  <2>2. CASE EndRecord
    BY <2>2, <2>o DEF EndRecord, rows, Contract!Next, Contract!End
  <2>3. ASSUME NEW w \in Workers, at[w].step = "commit", lock = w, asset' # asset, UNCHANGED record
        PROVE  Contract!Commit
    <3>1. asset = None /\ record \in {"finished", "purged"}
      BY <2>3 DEF Inv, WorkerInv, LeaseInv, FileInv, Done, Publishing
    <3>2. record = "finished"
      BY <3>1 DEF Inv, GlobalInv, OriginalInv
    <3> QED BY <2>3, <2>o, <3>1, <3>2 DEF Contract!Commit
  <2>4. ASSUME NEW w \in Workers, at[w].step = "purge", record' = "purged", UNCHANGED asset
        PROVE  Contract!Purge \/ UNCHANGED <<record, asset>>
    <3>1. asset # None /\ record \in {"finished", "purged"}
      BY <2>4 DEF Inv, WorkerInv, AfterInv, GlobalInv, OriginalInv, Done
    <3> QED BY <2>4, <2>o, <3>1 DEF Contract!Purge
  <2>5. CASE \E w \in Workers : at[w].step = "purge" /\ record' = "purged" /\ UNCHANGED asset
    BY <2>1, <2>4, <2>5 DEF Contract!Next
  <2>6. CASE \E w \in Workers : at[w].step = "commit" /\ lock = w /\ asset' # asset /\ UNCHANGED record
    BY <2>3, <2>6 DEF Contract!Next
  <2> QED BY <2>1, <2>2, <2>5, <2>6, RecordAndOriginal
<1> QED BY <1>1, <1>2, InvHolds, PTL DEF Spec

=============================================================================
