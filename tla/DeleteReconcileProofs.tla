------------------------- MODULE DeleteReconcileProofs -------------------------
(***************************************************************************)
(* What holds of the deletion for every set of profiles and every limit    *)
(* and bound: the properties that the run checks, from what a pass knows   *)
(* of the copy it works on and a job of the object it has put.             *)
(***************************************************************************)
EXTENDS DeleteReconcile, LibraryProofs

(* The pass goes through its stages in order; a tripped one deletes nothing
   new, and the original is a candidate of the first two arms only. *)
PassOrdered ==
    /\ pass.step \in {"idle", "resolve", "settle", "pending"} => pass.arm = 0
    /\ pass.step \in {"list", "delete", "reclaimed"} => pass.arm # 0
    /\ pass.arm # 0 => pass.todo[0] = {}
    /\ pass.tripped =>
          /\ pass.step \notin {"delete", "reclaimed"}
          /\ pass.step \in {"unlink", "unlinked"} => pass.arm = 0
    /\ breaker => pass.tripped \/ pass.step = "idle"
    /\ pass.todo[2] \subseteq {Original} /\ Original \notin pass.todo[3] \cup pass.todo[4]

InHand == pass.step \in {"settle", "unlink", "unlinked"}

(* The copy in hand, and those that wait in deleting, stay in deleting: no one
   but the pass takes a copy out of it. *)
CurrentDeleting ==
    /\ InHand => pass.current \in Copies
    /\ pass.step = "reclaimed" => pass.current \in EncodedCopies
    /\ InHand => copy[pass.current] = "deleting"
    /\ \A c \in pass.todo[0] :
          copy[c] = "deleting" /\ (InHand => c # pass.current)

(* What the pass has seen of a file still holds. *)
SeenHolds ==
    /\ pass.step = "settle" /\ pass.there => file[pass.current] = "there"
    /\ \/ pass.step = "settle" /\ ~pass.there
       \/ pass.step = "unlinked"
       => (pass.current = Original => file[Original] # "there")

(* What a job can publish has its object, unless a reclaim took it. *)
PutIsThere ==
    job # None /\ job.step = "put" /\ copy[JobCopy] = "pending" =>
        file[JobCopy] \in {"there", "reclaimed"}

OriginalRow ==
    /\ copy[Original] \in {"active", "deleting", "deleted"}
    /\ copy[Original] = "deleted" => file[Original] # "there"

(* No job of a purged recording holds a reservation. *)
NothingReserved ==
    recording.purged /\ job # None /\ job.step # "planned" => copy[JobCopy] # "pending"

PassSound == PassOrdered /\ CurrentDeleting

WorldSound ==
    /\ SeenHolds /\ PutIsThere /\ OriginalRow /\ NothingReserved
    /\ ActiveHasFile /\ PurgedIsGone

DeletionInvariant == Type /\ PassSound /\ WorldSound

-----------------------------------------------------------------------------
(* Types. *)

PassType == [step : {"idle", "resolve", "settle", "pending", "list", "delete",
                     "unlink", "unlinked", "reclaimed"},
             arm : 0..Len(Arms), tripped : BOOLEAN, current : Copies \cup {None},
             there : BOOLEAN, todo : [0..Reclaim -> SUBSET Copies]]

FileType == [Copies -> {"none", "there", "unlinked", "reclaimed"}]

JobType == {None} \cup [plan : Jobs, step : {"planned", "encoding", "put"}]

LEMMA FourArms ==
  /\ Len(Arms) = 4 /\ Reclaim = 5
  /\ Arms[1] = "trash" /\ Arms[2] = "until_encoded"
  /\ Arms[3] = "removed_encoded" /\ Arms[4] = "old_generation"
BY DEF Arms, Reclaim

LEMMA ArmOfCandidate ==
  /\ DeleteArm \in 1..5
  /\ DeleteArm = 5 \/ pass.todo[DeleteArm] # {}
<1>1. \E a \in 1..5 : /\ a = 5 \/ pass.todo[a] # {}
                      /\ \A b \in 1..(a - 1) : pass.todo[b] = {}
  <2>1. CASE pass.todo[1] # {}
    BY <2>1
  <2>2. CASE pass.todo[1] = {} /\ pass.todo[2] # {}
    BY <2>2
  <2>3. CASE pass.todo[1] = {} /\ pass.todo[2] = {} /\ pass.todo[3] # {}
    BY <2>3
  <2>4. CASE pass.todo[1] = {} /\ pass.todo[2] = {} /\ pass.todo[3] = {}
    BY <2>4
  <2> QED BY <2>1, <2>2, <2>3, <2>4
<1> QED BY <1>1, FourArms DEF DeleteArm

LEMMA NoPassType == NoPass \in PassType
BY FourArms DEF NoPass, PassType

LEMMA GotoType ==
  ASSUME pass \in PassType, NEW step \in {"resolve", "pending", "list", "delete"}
  PROVE  Goto(step) \in PassType
BY DEF Goto, PassType

LEMMA OriginalIsCopy ==
  /\ Original \in Copies
  /\ \A c \in EncodedCopies : c \in Copies /\ c # Original
BY LibraryAssumption DEF Copies, EncodedCopies, Generations

LEMMA JobCopyType ==
  ASSUME job \in JobType, job # None
  PROVE  /\ job.plan \in Jobs /\ JobCopy \in EncodedCopies /\ JobCopy \in Copies
         /\ JobCopy # Original
         /\ job.plan.profile \in Profiles /\ job.plan.generation \in Generations
BY OriginalIsCopy DEF JobType, Jobs, JobCopy, EncodedCopies

LEMMA UnchangedLibraryType == ASSUME TypeOK, UNCHANGED library PROVE TypeOK'
BY DEF TypeOK, library, Copies, EncodedCopies, Generations

LEMMA MarkType ==
  ASSUME TypeOK, NEW c \in Copies,
         MarkDeleting(c) \/ MarkUntilEncodedDeleting \/ MarkDeleted(c) \/ RevertToActive(c)
  PROVE  TypeOK'
<1>1. CASE MarkDeleting(c) \/ MarkDeleted(c) \/ RevertToActive(c)
  BY <1>1, SetCopyTypeOK DEF MarkDeleting, MarkDeleted, RevertToActive
<1>2. CASE MarkUntilEncodedDeleting
  BY <1>2, SetCopyTypeOK, OriginalIsCopy DEF MarkUntilEncodedDeleting, MarkDeleting
<1> QED BY <1>1, <1>2

(* What is outside the pass. *)
OutsideStep ==
    \/ UserEdit \/ (\E p \in Profiles : BeginAppend(p)) \/ FinishAppend \/ ResumeBreaker
    \/ DeriveOthers
    \/ (\E p \in Profiles, requested \in BOOLEAN, g \in Generations : PlanJob(p, requested, g))
    \/ ReserveCopy \/ PutObject \/ Publish \/ EndJob

LEMMA OutsideType == ASSUME Type, OutsideStep PROVE Type'
<1> TypeOK /\ file \in FileType /\ job \in JobType
  BY DEF Type, FileType, JobType
<1>e. ASSUME edits < MaxEdits PROVE edits + 1 \in 0..MaxEdits
  BY <1>e, DeleteAssumption DEF Type
<1>1. CASE UserEdit
  <2>1. TypeOK'
    BY <1>1, UserTypeOK DEF UserEdit, Edit
  <2>2. edits < MaxEdits /\ edits' = edits + 1
        /\ UNCHANGED <<file, breaker, pass, job, appending, faults>>
    BY <1>1 DEF UserEdit, Edit
  <2> QED BY <1>e, <2>1, <2>2 DEF Type
<1>2. ASSUME NEW p \in Profiles, BeginAppend(p) PROVE Type'
  BY <1>e, <1>2, UnchangedLibraryType DEF BeginAppend, Type
<1>3. CASE FinishAppend
  <2>1. TypeOK'
    BY <1>3, UserTypeOK DEF FinishAppend, Type
  <2> QED BY <1>3, <2>1 DEF FinishAppend, Type
<1>4. CASE ResumeBreaker
  BY <1>e, <1>4, UnchangedLibraryType DEF ResumeBreaker, Type
<1>5. CASE DeriveOthers
  BY <1>5 DEF DeriveOthers, Type, TypeOK, outside
<1>6. ASSUME NEW p \in Profiles, NEW requested \in BOOLEAN, NEW g \in Generations,
             PlanJob(p, requested, g)
      PROVE  Type'
  <2>1. job' \in JobType
    BY <1>6 DEF PlanJob, JobType, Jobs, TypeOK
  <2> QED BY <1>6, <2>1, UnchangedLibraryType DEF PlanJob, Type, JobType
<1>7. CASE ReserveCopy
  <2>1. TypeOK' /\ job' \in JobType
    BY <1>7, JobCopyType, PreparePendingTypeOK DEF ReserveCopy, JobType
  <2> QED BY <1>7, <2>1 DEF ReserveCopy, Type, JobType
<1>8. CASE PutObject
  <2>1. job' \in JobType /\ file' \in FileType
    BY <1>8, JobCopyType DEF PutObject, JobType, FileType
  <2> QED BY <1>8, <2>1, UnchangedLibraryType DEF PutObject, Type, JobType, FileType
<1>9. CASE Publish
  <2>1. TypeOK'
    BY <1>9, JobCopyType, PublishEncodedTypeOK, UnchangedLibraryType DEF Publish
  <2>2. file' \in FileType
    BY <1>9, JobCopyType DEF Publish, FileType
  <2> QED BY <1>9, <2>1, <2>2 DEF Publish, Type, FileType
<1>10. CASE EndJob
  BY <1>10, UnchangedLibraryType DEF EndJob, Type
<1> QED
  BY <1>1, <1>2, <1>3, <1>4, <1>5, <1>6, <1>7, <1>8, <1>9, <1>10 DEF OutsideStep

LEMMA PassTypeKept ==
  ASSUME Type, CurrentDeleting, PassStep \/ DeleteFails \/ ReclaimFails \/ PassDies
  PROVE  Type'
<1> /\ TypeOK /\ file \in FileType /\ pass \in PassType /\ breaker \in BOOLEAN
    /\ faults \in 0..MaxFaults
  BY DEF Type, FileType, PassType
<1>q. ASSUME TypeOK', file' \in FileType, pass' \in PassType, breaker' \in BOOLEAN,
             faults' \in 0..MaxFaults, UNCHANGED outside
      PROVE  Type'
  BY <1>q DEF Type, FileType, PassType, outside
<1>l. UNCHANGED library => TypeOK'
  BY UnchangedLibraryType
<1>f. Fault => faults' \in 0..MaxFaults
  BY DeleteAssumption DEF Fault
<1>c. ASSUME InHand \/ pass.step = "reclaimed" PROVE pass.current \in Copies
  BY <1>c, OriginalIsCopy DEF CurrentDeleting
<1>1. CASE BeginPasses
  <2>1. PICK aged \in BOOLEAN, overlapped \in SUBSET recent : BeginPass(aged, overlapped)
    BY <1>1 DEF BeginPasses
  <2>2. TypeOK'
    BY <2>1 DEF BeginPass, TypeOK, Copies, EncodedCopies, Generations
  <2>3. {c \in Deletings : ~Deletable(c)'} \in SUBSET Copies
    BY DEF Deletings
  <2>4. pass' \in PassType
    BY <2>1, <2>3, NoPassType DEF BeginPass, PassType
  <2> QED BY <1>q, <2>1, <2>2, <2>4 DEF BeginPass
<1>2. CASE ResolveDeleting
  <2>1. TypeOK'
    BY <1>2, <1>c, <1>l, MarkType DEF ResolveDeleting, InHand
  <2> QED BY <1>2, <1>q, <2>1, GotoType DEF ResolveDeleting
<1>3. CASE ListPendingDelete
  <2>1. pass' \in PassType
    BY <1>3, GotoType DEF ListPendingDelete, Deletings, PassType
  <2> QED BY <1>3, <1>q, <1>l, <2>1 DEF ListPendingDelete
<1>4. CASE ListCandidates
  <2>1. pass.arm + 1 \in 0..Len(Arms)
    BY <1>4, FourArms DEF ListCandidates, PassType
  <2>2. pass' \in PassType
    BY <1>4, <2>1, GotoType DEF ListCandidates, PassType
  <2> QED BY <1>4, <1>q, <1>l, <2>2 DEF ListCandidates
<1>5. ASSUME NEW old \in SUBSET Reserved, Decide(old) PROVE Type'
  <2>1. old \subseteq Copies
    BY OriginalIsCopy DEF Reserved
  <2>2. pass' \in PassType /\ breaker' \in BOOLEAN
    <3>1. CASE pass' = NoPass
      BY <1>5, <3>1, NoPassType DEF Decide
    <3>2. CASE pass' = [Goto("delete") EXCEPT !.todo[Reclaim] = old]
      <4>1. [Goto("delete").todo EXCEPT ![Reclaim] = old] \in [0..Reclaim -> SUBSET Copies]
        BY <2>1, GotoType DEF PassType
      <4>2. pass' \in PassType
        BY <3>2, <4>1, GotoType DEF PassType
      <4> QED BY <1>5, <4>2 DEF Decide
    <3> QED BY <1>5, <3>1, <3>2 DEF Decide
  <2> QED BY <1>5, <1>q, <1>l, <2>2 DEF Decide
<1>6. CASE Unlink
  <2>1. file' \in FileType /\ pass' \in PassType
    BY <1>6, <1>c DEF Unlink, FileType, PassType, InHand
  <2> QED BY <1>6, <1>q, <1>l, <2>1 DEF Unlink
<1>7. CASE FinishDelete
  <2>1. TypeOK'
    BY <1>7, <1>c, MarkType DEF FinishDelete, InHand
  <2> QED BY <1>7, <1>q, <2>1, GotoType DEF FinishDelete, Back
<1>8. CASE FinishReclaim
  <2>1. TypeOK'
    BY <1>8, <1>c, SetCopyTypeOK DEF FinishReclaim
  <2> QED BY <1>8, <1>q, <2>1, GotoType DEF FinishReclaim
<1>9. CASE EndPass
  <2>1. TypeOK'
    BY <1>9, <1>l DEF EndPass, MarkPurged, Purgeable, TrashDeletable, TypeOK, Copies,
       EncodedCopies, Generations
  <2> QED BY <1>9, <1>q, <2>1, NoPassType DEF EndPass
<1>10. ASSUME NEW c \in Copies, StatDeleting(c) \/ ResumeDelete(c) PROVE Type'
  <2>1. pass' \in PassType
    <3>1. [pass.todo EXCEPT ![0] = @ \ {c}] \in [0..Reclaim -> SUBSET Copies]
      BY FourArms DEF PassType
    <3> QED BY <1>10, <3>1 DEF StatDeleting, ResumeDelete, PassType
  <2> QED BY <1>10, <1>q, <1>l, <2>1 DEF StatDeleting, ResumeDelete
<1>11. ASSUME NEW c \in Copies, DeleteCandidate(c) PROVE Type'
  <2>1. TypeOK'
    BY <1>11, <1>l, MarkType DEF DeleteCandidate, Mark, DropCandidate
  <2>2. pass' \in PassType
    <3>1. [pass.todo EXCEPT ![DeleteArm] = @ \ {c}] \in [0..Reclaim -> SUBSET Copies]
      BY ArmOfCandidate, FourArms DEF PassType
    <3> QED BY <1>11, <3>1 DEF DeleteCandidate, Mark, DropCandidate, PassType
  <2> QED BY <1>11, <1>q, <2>1, <2>2 DEF DeleteCandidate
<1>12. ASSUME NEW c \in Copies, ReclaimPending(c) PROVE Type'
  <2>1. pass' \in PassType /\ file' \in FileType
    <3>1. [pass.todo EXCEPT ![Reclaim] = @ \ {c}] \in [0..Reclaim -> SUBSET Copies]
      BY FourArms DEF PassType
    <3> QED BY <1>12, <3>1 DEF ReclaimPending, PassType, FileType
  <2> QED BY <1>12, <1>q, <1>l, <2>1 DEF ReclaimPending
<1>13. CASE DeleteFails \/ ReclaimFails \/ PassDies
  BY <1>13, <1>q, <1>l, <1>f, GotoType, NoPassType DEF DeleteFails, ReclaimFails, PassDies, Back
<1> QED
  BY <1>1, <1>2, <1>3, <1>4, <1>5, <1>6, <1>7, <1>8, <1>9, <1>10, <1>11, <1>12, <1>13 DEF PassStep

LEMMA NextType == ASSUME Type, CurrentDeleting, Next PROVE Type'
BY OutsideType, PassTypeKept DEF Next, OutsideStep

-----------------------------------------------------------------------------
(* What is outside the pass leaves alone what the pass has in hand. *)

LEMMA OutsideEffect ==
  ASSUME DeletionInvariant, OutsideStep
  PROVE  /\ pass' = pass /\ (breaker' => breaker)
         /\ recording'.purged = recording.purged
         /\ \A c \in Copies :
               copy[c] \in {"active", "deleting", "deleted"} => copy'[c] = copy[c]
         /\ \A c \in Copies :
               copy[c] # "deleted" /\ file[c] \in {"there", "reclaimed"} =>
                  file'[c] \in {"there", file[c]}
         /\ file'[Original] = file[Original]
<1> /\ TypeOK /\ file \in FileType /\ job \in JobType
  BY DEF DeletionInvariant, Type, FileType, JobType
<1>1. CASE UserEdit
  <2>1. copy' = copy
    BY <1>1, UserKeepsCopies DEF UserEdit, Edit
  <2>2. recording'.purged = recording.purged
    BY <1>1 DEF UserEdit, Edit, SoftDelete, Restore, RequestPurge, SetCMDetection,
       RemoveEncodedAsset, RequestCutRebuild, SetKeepOriginal, EditChapters, TypeOK
  <2> QED BY <1>1, <2>1, <2>2 DEF UserEdit, Edit
<1>2. CASE \/ (\E p \in Profiles : BeginAppend(p)) \/ ResumeBreaker \/ EndJob
           \/ (\E p \in Profiles, requested \in BOOLEAN, g \in Generations : PlanJob(p, requested, g))
  <2>1. (\E p \in Profiles : BeginAppend(p)) =>
           UNCHANGED <<library, file, pass>> /\ (breaker' => breaker)
    BY DEF BeginAppend
  <2>2. (\E p \in Profiles, requested \in BOOLEAN, g \in Generations : PlanJob(p, requested, g))
           => UNCHANGED <<library, file, pass>> /\ (breaker' => breaker)
    BY DEF PlanJob
  <2>3. UNCHANGED <<library, file, pass>> /\ (breaker' => breaker)
    BY <1>2, <2>1, <2>2 DEF ResumeBreaker, EndJob
  <2> QED BY <2>3 DEF library
<1>3. CASE FinishAppend
  BY <1>3 DEF FinishAppend, AppendProfile
<1>4. CASE DeriveOthers
  BY <1>4 DEF DeriveOthers
<1>5. CASE ReserveCopy
  <2>1. PreparePending(job.plan.profile, job.plan.generation)
        /\ UNCHANGED <<file, breaker, pass>>
    BY <1>5 DEF ReserveCopy
  <2>2. copy[JobCopy] = "none" /\ copy' = [copy EXCEPT ![JobCopy] = "pending"]
        /\ UNCHANGED recording
    BY <1>5, <2>1, JobCopyType, ReservesUnused DEF ReserveCopy, PreparePending, JobCopy
  <2> QED BY <2>1, <2>2 DEF TypeOK
<1>6. CASE PutObject
  BY <1>6, JobCopyType DEF PutObject, FileType, library
<1>7. CASE Publish
  <2>1. CASE PublishEncoded(job.plan) /\ UNCHANGED file
    <3>1. copy[JobCopy] = "pending" /\ copy' = [copy EXCEPT ![JobCopy] = "active"]
          /\ UNCHANGED recording
      BY <2>1 DEF PublishEncoded, Publishable, Pending, JobCopy
    <3> QED BY <1>7, <2>1, <3>1 DEF Publish, TypeOK
  <2>2. CASE UNCHANGED library
             /\ file' = IF copy[JobCopy] = "deleted" THEN [file EXCEPT ![JobCopy] = "none"] ELSE file
    BY <1>7, <2>2, JobCopyType DEF Publish, library, FileType
  <2> QED BY <1>7, <2>1, <2>2 DEF Publish
<1> QED BY <1>1, <1>2, <1>3, <1>4, <1>5, <1>6, <1>7 DEF OutsideStep

LEMMA OutsideSound ==
  ASSUME DeletionInvariant, OutsideStep
  PROVE  PassSound' /\ WorldSound'
<1> /\ TypeOK /\ pass \in PassType /\ file \in FileType /\ job \in JobType
    /\ PassOrdered /\ CurrentDeleting /\ SeenHolds /\ PutIsThere /\ OriginalRow
    /\ NothingReserved /\ ActiveHasFile /\ PurgedIsGone
  BY DEF DeletionInvariant, PassSound, WorldSound, Type, PassType, FileType, JobType
<1>e. /\ pass' = pass /\ (breaker' => breaker)
      /\ recording'.purged = recording.purged
      /\ \A c \in Copies :
            copy[c] \in {"active", "deleting", "deleted"} => copy'[c] = copy[c]
      /\ \A c \in Copies :
            copy[c] # "deleted" /\ file[c] \in {"there", "reclaimed"} =>
               file'[c] \in {"there", file[c]}
      /\ file'[Original] = file[Original]
  BY OutsideEffect
<1>1. PassOrdered'
  BY <1>e DEF PassOrdered
<1>2. CurrentDeleting'
  <2>1. \A c \in pass.todo[0] : c \in Copies
    BY FourArms DEF PassType
  <2> QED BY <1>e, <2>1 DEF CurrentDeleting, InHand
<1>3. SeenHolds'
  BY <1>e DEF SeenHolds, CurrentDeleting, InHand
<1>4. OriginalRow'
  BY <1>e, OriginalIsCopy DEF OriginalRow
(* What becomes of the copies of the job. *)
<1>s. SUFFICES PutIsThere' /\ NothingReserved' /\ ActiveHasFile' /\ PurgedIsGone'
  BY <1>1, <1>2, <1>3, <1>4 DEF PassSound, WorldSound
<1>5. ASSUME UNCHANGED <<copy, file>>, job' = job \/ job' = None \/ job'.step = "planned"
      PROVE  PutIsThere' /\ NothingReserved' /\ ActiveHasFile' /\ PurgedIsGone'
  BY <1>5, <1>e DEF PutIsThere, NothingReserved, ActiveHasFile, PurgedIsGone, JobCopy
<1>6. CASE UserEdit
  BY <1>5, <1>6, UserKeepsCopies DEF UserEdit, Edit
<1>7. CASE \/ (\E p \in Profiles : BeginAppend(p)) \/ ResumeBreaker \/ EndJob
           \/ (\E p \in Profiles, requested \in BOOLEAN, g \in Generations : PlanJob(p, requested, g))
  <2>1. (\E p \in Profiles : BeginAppend(p)) => UNCHANGED <<library, file, job>>
    BY DEF BeginAppend
  <2>2. (\E p \in Profiles, requested \in BOOLEAN, g \in Generations : PlanJob(p, requested, g))
           => UNCHANGED <<library, file>> /\ job'.step = "planned"
    BY DEF PlanJob
  <2>3. /\ UNCHANGED <<library, file>>
        /\ job' = job \/ job' = None \/ job'.step = "planned"
    BY <1>7, <2>1, <2>2 DEF ResumeBreaker, EndJob
  <2> QED BY <1>5, <2>3 DEF library
<1>8. CASE FinishAppend \/ DeriveOthers
  BY <1>5, <1>8 DEF FinishAppend, AppendProfile, DeriveOthers, outside
<1>9. CASE ReserveCopy
  <2>1. PreparePending(job.plan.profile, job.plan.generation) /\ UNCHANGED file
        /\ job' = IF file[Original] = "there" THEN [job EXCEPT !.step = "encoding"] ELSE None
    BY <1>9 DEF ReserveCopy
  <2>2. copy' = [copy EXCEPT ![JobCopy] = "pending"]
    BY <2>1 DEF PreparePending, JobCopy
  <2>3. job' # None => job'.step = "encoding" /\ file[Original] = "there"
    BY <1>9, <2>1 DEF ReserveCopy, JobType
  <2>4. PutIsThere' /\ NothingReserved'
    BY <1>e, <2>3 DEF PutIsThere, NothingReserved, PurgedIsGone
  <2>5. ActiveHasFile' /\ PurgedIsGone'
    BY <1>e, <2>1, <2>2, OriginalIsCopy DEF ActiveHasFile, PurgedIsGone, TypeOK
  <2> QED BY <2>4, <2>5
<1>10. CASE PutObject
  <2>1. /\ job # None /\ job.step = "encoding" /\ copy' = copy
        /\ file' = [file EXCEPT ![JobCopy] = "there"]
        /\ job' = [job EXCEPT !.step = "put"]
    BY <1>10 DEF PutObject, library
  <2>2. JobCopy' = JobCopy
    BY <2>1 DEF JobType, JobCopy
  <2>3. PutIsThere' /\ NothingReserved'
    BY <1>e, <2>1, <2>2, JobCopyType DEF PutIsThere, NothingReserved, FileType
  <2>4. ActiveHasFile' /\ PurgedIsGone'
    BY <1>e, <2>1, JobCopyType DEF ActiveHasFile, PurgedIsGone, FileType
  <2> QED BY <2>3, <2>4
<1>11. CASE Publish
  <2>1. job # None /\ job.step = "put" /\ job' = None
    BY <1>11 DEF Publish
  <2>2. PutIsThere' /\ NothingReserved'
    BY <2>1 DEF PutIsThere, NothingReserved
  <2>3. CASE PublishEncoded(job.plan) /\ UNCHANGED file
    <3>1. copy[JobCopy] = "pending" /\ copy' = [copy EXCEPT ![JobCopy] = "active"]
      BY <2>3 DEF PublishEncoded, Publishable, Pending, JobCopy
    <3>2. ActiveHasFile'
      BY <2>1, <2>3, <3>1, JobCopyType DEF ActiveHasFile, PutIsThere, TypeOK
    <3>3. ~recording.purged
      BY <2>1, <3>1 DEF NothingReserved
    <3> QED BY <1>e, <2>2, <3>2, <3>3 DEF PurgedIsGone
  <2>4. CASE UNCHANGED library
             /\ file' = IF copy[JobCopy] = "deleted" THEN [file EXCEPT ![JobCopy] = "none"] ELSE file
    <3>1. copy' = copy
      BY <2>4 DEF library
    <3>2. \A c \in Copies : copy[c] = "active" => file'[c] = file[c]
      BY <2>4
    <3> QED BY <1>e, <2>2, <3>1, <3>2 DEF ActiveHasFile, PurgedIsGone
  <2> QED BY <1>11, <2>3, <2>4 DEF Publish
<1> QED BY <1>6, <1>7, <1>8, <1>9, <1>10, <1>11 DEF OutsideStep

-----------------------------------------------------------------------------
(* The steps of the pass. *)

(* A step that leaves the copies and the files alone, and has neither looked
   at a file nor removed one. *)
LEMMA StillWorld ==
  ASSUME WorldSound, UNCHANGED <<copy, file, job>>, recording'.purged = recording.purged,
         pass'.step \notin {"settle", "unlinked"}
  PROVE  WorldSound'
BY DEF WorldSound, SeenHolds, PutIsThere, OriginalRow, NothingReserved, ActiveHasFile,
   PurgedIsGone, JobCopy

(* A step that moves the row of a copy that is active or deleting. *)
LEMMA MovedWorld ==
  ASSUME DeletionInvariant, NEW c \in Copies, copy[c] \in {"active", "deleting"},
         NEW state \in {"active", "deleting", "deleted"}, copy' = [copy EXCEPT ![c] = state],
         UNCHANGED <<recording, file, job>>, pass'.step \notin {"settle", "unlinked"},
         state = "active" => file[c] = "there",
         state = "deleted" /\ c = Original => file[c] # "there"
  PROVE  WorldSound'
<1> /\ copy \in [Copies -> {"none", "pending", "active", "deleting", "deleted"}]
    /\ PutIsThere /\ OriginalRow /\ NothingReserved /\ ActiveHasFile /\ PurgedIsGone
  BY DEF DeletionInvariant, WorldSound, Type, TypeOK
<1>1. SeenHolds'
  BY DEF SeenHolds
<1>2. PutIsThere' /\ NothingReserved'
  <2>1. job # None => JobCopy' = JobCopy /\ (copy'[JobCopy] = "pending" => copy[JobCopy] = "pending")
    BY JobCopyType DEF JobCopy, DeletionInvariant, Type, JobType
  <2> QED BY <2>1 DEF PutIsThere, NothingReserved
<1>3. OriginalRow'
  BY OriginalIsCopy DEF OriginalRow
<1>4. ActiveHasFile' /\ PurgedIsGone'
  BY DEF ActiveHasFile, PurgedIsGone
<1> QED BY <1>1, <1>2, <1>3, <1>4 DEF WorldSound

(* Back to a stage of the pass, or out of it. *)
LEMMA GotoSound ==
  ASSUME Type, PassOrdered, CurrentDeleting, UNCHANGED breaker,
         \/ pass' = NoPass
         \/ \E step \in {"resolve", "pending", "list", "delete"} :
               /\ pass' = Goto(step) /\ pass.step # "idle"
               /\ step \in {"resolve", "pending"} <=> pass.arm = 0
               /\ step = "delete" => ~pass.tripped,
         \A c \in pass.todo[0] : copy'[c] = copy[c]
  PROVE  PassSound' /\ pass'.step \notin {"settle", "unlinked"}
<1> pass \in PassType
  BY DEF Type, PassType
<1>1. CASE pass' = NoPass
  <2>1. pass'.step = "idle" /\ pass'.arm = 0 /\ ~pass'.tripped
        /\ \A a \in 0..4 : pass'.todo[a] = {}
    BY <1>1, FourArms DEF NoPass
  <2> QED BY <2>1 DEF PassSound, PassOrdered, CurrentDeleting, InHand
<1>2. ASSUME NEW step \in {"resolve", "pending", "list", "delete"},
             pass' = Goto(step), pass.step # "idle",
             step \in {"resolve", "pending"} <=> pass.arm = 0, step = "delete" => ~pass.tripped
      PROVE  PassSound' /\ pass'.step \notin {"settle", "unlinked"}
  <2>1. pass'.step = step /\ pass'.arm = pass.arm /\ pass'.tripped = pass.tripped
        /\ pass'.todo = pass.todo
    BY <1>2 DEF Goto, PassType
  <2>2. PassOrdered'
    BY <1>2, <2>1 DEF PassOrdered
  <2>3. CurrentDeleting'
    BY <2>1 DEF CurrentDeleting, InHand
  <2> QED BY <2>1, <2>2, <2>3 DEF PassSound
<1> QED BY <1>1, <1>2

LEMMA PassStepSound ==
  ASSUME DeletionInvariant, PassStep \/ DeleteFails \/ ReclaimFails \/ PassDies
  PROVE  PassSound' /\ WorldSound'
<1> /\ Type /\ TypeOK /\ pass \in PassType /\ file \in FileType /\ job \in JobType
    /\ copy \in [Copies -> {"none", "pending", "active", "deleting", "deleted"}]
    /\ PassOrdered /\ CurrentDeleting /\ WorldSound
  BY DEF DeletionInvariant, PassSound, Type, TypeOK, PassType, FileType, JobType
<1>w. SeenHolds /\ PutIsThere /\ OriginalRow /\ NothingReserved /\ ActiveHasFile /\ PurgedIsGone
  BY DEF WorldSound
<1>t. \A a \in 0..5 : pass.todo[a] \subseteq Copies
  BY FourArms DEF PassType
<1>l. UNCHANGED library => UNCHANGED <<copy, recording>>
  BY DEF library
<1>o. UNCHANGED outside => UNCHANGED job
  BY DEF outside
<1>1. CASE BeginPasses
  <2>1. PICK aged \in BOOLEAN, overlapped \in SUBSET recent : BeginPass(aged, overlapped)
    BY <1>1 DEF BeginPasses
  <2>2. /\ pass'.step = "resolve" /\ pass'.arm = 0 /\ pass'.tripped = breaker
        /\ pass'.todo[0] \subseteq Deletings /\ \A a \in 1..4 : pass'.todo[a] = {}
    BY <2>1, FourArms DEF BeginPass, NoPass
  <2>3. UNCHANGED <<copy, file, breaker, job>> /\ recording'.purged = recording.purged
    BY <2>1, <1>o DEF BeginPass, TypeOK
  <2>4. PassOrdered'
    BY <2>2, <2>3 DEF PassOrdered
  <2>5. CurrentDeleting'
    BY <2>2, <2>3 DEF CurrentDeleting, InHand, Deletings
  <2> QED BY <2>2, <2>3, <2>4, <2>5, StillWorld DEF PassSound
<1>2. CASE ResolveDeleting
  <2>1. /\ pass.step = "settle" /\ pass' = Goto("resolve")
        /\ UNCHANGED <<file, breaker, outside, faults>>
    BY <1>2 DEF ResolveDeleting
  <2>2. pass.current \in Copies /\ copy[pass.current] = "deleting"
        /\ pass.current \notin pass.todo[0]
    BY <2>1 DEF CurrentDeleting, InHand
  <2>3. pass.arm = 0
    BY <2>1 DEF PassOrdered
  <2>4. \A c \in pass.todo[0] : copy'[c] = copy[c]
    <3>1. copy' = copy \/ \E state : copy' = [copy EXCEPT ![pass.current] = state]
      BY <1>2, <1>l DEF ResolveDeleting, RevertToActive, MarkDeleted, SetCopy
    <3> QED BY <1>t, <2>2, <3>1
  <2>5. PassSound' /\ pass'.step \notin {"settle", "unlinked"}
    BY <2>1, <2>3, <2>4, GotoSound
  <2>6. CASE UNCHANGED library
    BY <1>l, <1>o, <2>1, <2>5, <2>6, StillWorld
  <2>7. CASE pass.there /\ RevertToActive(pass.current)
    <3>1. file[pass.current] = "there"
      BY <1>w, <2>1, <2>7 DEF SeenHolds
    <3>2. copy' = [copy EXCEPT ![pass.current] = "active"] /\ UNCHANGED recording
      BY <2>7 DEF RevertToActive, SetCopy
    <3> QED BY <1>o, <2>1, <2>2, <2>5, <3>1, <3>2, MovedWorld
  <2>8. CASE ~pass.there /\ MarkDeleted(pass.current)
    <3>1. pass.current = Original => file[Original] # "there"
      BY <1>w, <2>1, <2>8 DEF SeenHolds
    <3>2. copy' = [copy EXCEPT ![pass.current] = "deleted"] /\ UNCHANGED recording
      BY <2>8 DEF MarkDeleted, SetCopy
    <3> QED BY <1>o, <2>1, <2>2, <2>5, <3>1, <3>2, MovedWorld
  <2> QED BY <1>2, <2>6, <2>7, <2>8 DEF ResolveDeleting
<1>3. CASE ListPendingDelete
  <2>1. /\ pass.step = "resolve" /\ pass'.step = "pending" /\ pass'.arm = pass.arm
        /\ pass'.tripped = pass.tripped /\ pass'.todo[0] \subseteq Deletings
        /\ \A a \in 1..5 : pass'.todo[a] = pass.todo[a]
        /\ UNCHANGED <<copy, file, breaker, recording, job>>
    BY <1>3, <1>l, <1>o, FourArms DEF ListPendingDelete, Goto, PassType
  <2>2. PassOrdered'
    BY <2>1 DEF PassOrdered
  <2>3. CurrentDeleting'
    BY <2>1 DEF CurrentDeleting, InHand, Deletings
  <2> QED BY <2>1, <2>2, <2>3, StillWorld DEF PassSound
<1>4. CASE ListCandidates
  <2>1. pass.arm + 1 \in 1..4 /\ pass.arm \in 0..3
    BY <1>4, FourArms DEF ListCandidates, PassType
  <2>2. /\ pass.step \in {"pending", "list"} /\ pass'.step = "list" /\ pass'.arm = pass.arm + 1
        /\ pass'.tripped = pass.tripped
        /\ pass'.todo[pass.arm + 1] =
              {c \in Copies : copy[c] = "active" /\ Qualifies(Arms[pass.arm + 1], c)}
        /\ \A a \in 0..5 : a # pass.arm + 1 => pass'.todo[a] = pass.todo[a]
        /\ UNCHANGED <<copy, file, breaker, recording, job>>
    BY <1>4, <1>l, <1>o, <2>1, FourArms DEF ListCandidates, Goto, PassType
  <2>3. pass.todo[0] = {}
    BY <1>4 DEF ListCandidates, PassOrdered
  <2>4. \A c : /\ Qualifies(Arms[2], c) => c = Original
               /\ Qualifies(Arms[3], c) \/ Qualifies(Arms[4], c) => c # Original
    BY FourArms DEF Qualifies
  <2>5. pass'.todo[2] \subseteq {Original} /\ Original \notin pass'.todo[3] \cup pass'.todo[4]
    BY <2>1, <2>2, <2>4 DEF PassOrdered
  <2>6. PassOrdered'
    BY <2>1, <2>2, <2>3, <2>5 DEF PassOrdered
  <2>7. CurrentDeleting'
    BY <2>1, <2>2, <2>3 DEF CurrentDeleting, InHand
  <2> QED BY <2>2, <2>6, <2>7, StillWorld DEF PassSound
<1>5. ASSUME NEW old \in SUBSET Reserved, Decide(old) PROVE PassSound' /\ WorldSound'
  <2>1. pass.step = "list" /\ pass.arm = 4 /\ UNCHANGED <<copy, file, recording, job>>
    BY <1>5, <1>l, <1>o, FourArms DEF Decide
  <2>2. CASE pass' = NoPass
    <3>1. pass'.step = "idle" /\ pass'.arm = 0 /\ ~pass'.tripped
          /\ \A a \in 0..4 : pass'.todo[a] = {}
      BY <2>2, FourArms DEF NoPass
    <3>2. PassSound'
      BY <3>1 DEF PassSound, PassOrdered, CurrentDeleting, InHand
    <3> QED BY <2>1, <3>1, <3>2, StillWorld
  <2>3. CASE /\ ~pass.tripped /\ UNCHANGED breaker
             /\ pass' = [Goto("delete") EXCEPT !.todo[Reclaim] = old]
    <3>1. /\ pass'.step = "delete" /\ pass'.arm = 4 /\ ~pass'.tripped
          /\ \A a \in 0..4 : pass'.todo[a] = pass.todo[a]
      BY <2>1, <2>3, FourArms DEF Goto, PassType
    <3>2. PassSound'
      BY <2>1, <2>3, <3>1 DEF PassSound, PassOrdered, CurrentDeleting, InHand
    <3> QED BY <2>1, <3>1, <3>2, StillWorld
  <2> QED BY <1>5, <2>2, <2>3 DEF Decide
<1>6. CASE Unlink
  <2>1. /\ pass.step = "unlink" /\ file' = [file EXCEPT ![pass.current] = "unlinked"]
        /\ pass'.step = "unlinked" /\ pass'.current = pass.current /\ pass'.arm = pass.arm
        /\ pass'.tripped = pass.tripped /\ pass'.todo = pass.todo
        /\ UNCHANGED <<copy, recording, breaker, job>>
    BY <1>6, <1>l, <1>o DEF Unlink, PassType
  <2>2. pass.current \in Copies /\ copy[pass.current] = "deleting"
    BY <2>1 DEF CurrentDeleting, InHand
  <2>3. PassSound'
    BY <2>1 DEF PassSound, PassOrdered, CurrentDeleting, InHand
  <2>4. SeenHolds' /\ OriginalRow'
    BY <1>w, <2>1, <2>2, OriginalIsCopy DEF SeenHolds, OriginalRow, FileType
  <2>5. PutIsThere' /\ NothingReserved'
    <3>1. JobCopy' = JobCopy
      BY <2>1 DEF JobCopy
    <3>2. copy[JobCopy] = "pending" => file'[JobCopy] = file[JobCopy]
      BY <2>1, <2>2
    <3> QED BY <1>w, <2>1, <3>1, <3>2 DEF PutIsThere, NothingReserved
  <2>6. ActiveHasFile' /\ PurgedIsGone'
    BY <1>w, <2>1, <2>2 DEF ActiveHasFile, PurgedIsGone, FileType
  <2> QED BY <2>3, <2>4, <2>5, <2>6 DEF WorldSound
<1>7. CASE FinishDelete
  <2>1. /\ pass.step = "unlinked" /\ pass' = Goto(Back)
        /\ copy' = [copy EXCEPT ![pass.current] = "deleted"]
        /\ UNCHANGED <<recording, file, breaker, job>>
    BY <1>7, <1>o DEF FinishDelete, MarkDeleted, SetCopy
  <2>2. pass.current \in Copies /\ copy[pass.current] = "deleting"
        /\ pass.current \notin pass.todo[0]
    BY <2>1 DEF CurrentDeleting, InHand
  <2>3. PassSound' /\ pass'.step \notin {"settle", "unlinked"}
    <3>1. CASE pass.arm = 0
      BY <2>1, <2>2, <3>1, GotoSound DEF Back
    <3>2. CASE pass.arm # 0
      <4>1. ~pass.tripped
        BY <2>1, <3>2 DEF PassOrdered, PassType
      <4> QED BY <2>1, <2>2, <3>2, <4>1, GotoSound DEF Back
    <3> QED BY <3>1, <3>2
  <2>4. pass.current = Original => file[Original] # "there"
    BY <1>w, <2>1 DEF SeenHolds
  <2> QED BY <2>1, <2>2, <2>3, <2>4, MovedWorld
<1>8. CASE FinishReclaim
  <2>1. /\ pass.step = "reclaimed" /\ pass' = Goto("delete")
        /\ copy' = [copy EXCEPT ![pass.current] = "deleted"]
        /\ UNCHANGED <<recording, file, breaker, job>>
    BY <1>8, <1>o DEF FinishReclaim, SetCopy
  <2>2. pass.current \in Copies /\ pass.current # Original
    BY <2>1, OriginalIsCopy DEF CurrentDeleting
  <2>3. pass.arm # 0 /\ ~pass.tripped /\ pass.todo[0] = {}
    BY <2>1 DEF PassOrdered, PassType
  <2>4. PassSound' /\ pass'.step \notin {"settle", "unlinked"}
    BY <2>1, <2>3, GotoSound
  <2>5. PutIsThere' /\ NothingReserved'
    <3>1. JobCopy' = JobCopy
      BY <2>1 DEF JobCopy
    <3>2. job # None => (copy'[JobCopy] = "pending" => copy[JobCopy] = "pending")
      BY <2>1, JobCopyType
    <3> QED BY <1>w, <2>1, <3>1, <3>2 DEF PutIsThere, NothingReserved
  <2>6. SeenHolds' /\ OriginalRow'
    BY <1>w, <2>1, <2>2, <2>4, OriginalIsCopy DEF SeenHolds, OriginalRow
  <2>7. ActiveHasFile' /\ PurgedIsGone'
    BY <1>w, <2>1, <2>2 DEF ActiveHasFile, PurgedIsGone
  <2> QED BY <2>4, <2>5, <2>6, <2>7 DEF WorldSound
<1>9. CASE EndPass
  <2>1. pass' = NoPass /\ UNCHANGED <<copy, file, breaker, job>>
    BY <1>9, <1>l, <1>o DEF EndPass, MarkPurged
  <2>2. PassSound' /\ pass'.step \notin {"settle", "unlinked"}
    BY <2>1, GotoSound
  <2>3. CASE UNCHANGED library
    BY <1>l, <2>1, <2>2, <2>3, StillWorld
  <2>4. CASE MarkPurged
    <3>1. \A c \in Copies : copy[c] \in {"none", "deleted"}
      BY <2>4 DEF MarkPurged, Purgeable
    <3>2. PurgedIsGone'
      BY <1>w, <2>1, <3>1, OriginalIsCopy DEF PurgedIsGone, OriginalRow
    <3>3. NothingReserved'
      BY <2>1, <3>1, JobCopyType DEF NothingReserved, JobCopy
    <3>4. SeenHolds' /\ PutIsThere' /\ OriginalRow' /\ ActiveHasFile'
      BY <1>w, <2>1, <2>2 DEF SeenHolds, PutIsThere, OriginalRow, ActiveHasFile, JobCopy
    <3> QED BY <2>2, <3>2, <3>3, <3>4 DEF WorldSound
  <2> QED BY <1>9, <2>3, <2>4 DEF EndPass
<1>10. ASSUME NEW c \in Copies, StatDeleting(c) PROVE PassSound' /\ WorldSound'
  <2>1. /\ pass.step = "resolve" /\ c \in pass.todo[0] /\ pass'.step = "settle"
        /\ pass'.current = c /\ pass'.there = (file[c] = "there") /\ pass'.arm = pass.arm
        /\ pass'.tripped = pass.tripped /\ pass'.todo[0] = pass.todo[0] \ {c}
        /\ \A a \in 1..5 : pass'.todo[a] = pass.todo[a]
        /\ UNCHANGED <<copy, file, breaker, recording, job>>
    BY <1>10, <1>l, <1>o, FourArms DEF StatDeleting, PassType
  <2>2. PassOrdered'
    BY <2>1 DEF PassOrdered
  <2>3. CurrentDeleting'
    BY <2>1 DEF CurrentDeleting, InHand
  <2>4. SeenHolds'
    BY <2>1 DEF SeenHolds
  <2>5. PutIsThere' /\ OriginalRow' /\ NothingReserved' /\ ActiveHasFile' /\ PurgedIsGone'
    BY <1>w, <2>1 DEF PutIsThere, OriginalRow, NothingReserved, ActiveHasFile, PurgedIsGone,
       JobCopy
  <2> QED BY <2>2, <2>3, <2>4, <2>5 DEF PassSound, WorldSound
<1>11. ASSUME NEW c \in Copies, ResumeDelete(c) PROVE PassSound' /\ WorldSound'
  <2>1. /\ pass.step = "pending" /\ c \in pass.todo[0] /\ pass'.step = "unlink"
        /\ pass'.current = c /\ pass'.arm = pass.arm
        /\ pass'.tripped = pass.tripped /\ pass'.todo[0] = pass.todo[0] \ {c}
        /\ \A a \in 1..5 : pass'.todo[a] = pass.todo[a]
        /\ UNCHANGED <<copy, file, breaker, recording, job>>
    BY <1>11, <1>l, <1>o, FourArms DEF ResumeDelete, PassType
  <2>2. PassOrdered'
    BY <2>1 DEF PassOrdered
  <2>3. CurrentDeleting'
    BY <2>1 DEF CurrentDeleting, InHand
  <2> QED BY <2>1, <2>2, <2>3, StillWorld DEF PassSound
<1>12. ASSUME NEW c \in Copies, DeleteCandidate(c) PROVE PassSound' /\ WorldSound'
  <2>1. /\ pass.step = "delete" /\ DeleteArm \in 1..4 /\ c \in pass.todo[DeleteArm]
        /\ UNCHANGED <<file, breaker, job>>
    BY <1>12, <1>o, ArmOfCandidate, FourArms DEF DeleteCandidate
  <2>2. pass.arm # 0 /\ ~pass.tripped /\ pass.todo[0] = {}
    BY <2>1 DEF PassOrdered, PassType
  <2>3. ASSUME pass' = [pass EXCEPT !.todo[DeleteArm] = @ \ {c}] \/
               pass' = [pass EXCEPT !.step = "unlink", !.current = c, !.todo[DeleteArm] = @ \ {c}]
        PROVE  /\ pass'.arm = pass.arm /\ pass'.tripped = pass.tripped /\ pass'.todo[0] = {}
               /\ pass'.todo[2] \subseteq {Original}
               /\ Original \notin pass'.todo[3] \cup pass'.todo[4]
    <3>1. /\ pass'.todo = [pass.todo EXCEPT ![DeleteArm] = @ \ {c}]
          /\ pass'.arm = pass.arm /\ pass'.tripped = pass.tripped
      BY <2>3 DEF PassType
    <3>2. \A a \in 0..5 : pass'.todo[a] \subseteq pass.todo[a]
      BY <2>1, <3>1, FourArms DEF PassType
    <3> QED BY <2>2, <3>1, <3>2 DEF PassOrdered
  <2>4. CASE DropCandidate(c)
    <3>1. pass'.step = "delete" /\ UNCHANGED <<copy, recording>>
      BY <1>l, <2>1, <2>4 DEF DropCandidate, PassType
    <3>2. PassSound'
      BY <2>1, <2>2, <2>3, <2>4, <3>1
      DEF PassSound, PassOrdered, CurrentDeleting, InHand, DropCandidate
    <3> QED BY <2>1, <3>1, <3>2, StillWorld
  <2>5. CASE Mark(c)
    <3>1. MarkDeleting(c)
      <4>1. CASE DeleteArm = 2
        <5>1. c = Original
          BY <2>1, <4>1 DEF PassOrdered
        <5> QED BY <2>5, <4>1, <5>1, FourArms DEF Mark, MarkUntilEncodedDeleting
      <4>2. CASE DeleteArm # 2
        BY <2>1, <2>5, <4>2, FourArms DEF Mark
      <4> QED BY <4>1, <4>2
    <3>2. /\ copy[c] = "active" /\ copy' = [copy EXCEPT ![c] = "deleting"]
          /\ UNCHANGED recording
      BY <3>1 DEF MarkDeleting, SetCopy
    <3>3. pass'.step = "unlink" /\ pass'.current = c
      BY <2>1, <2>5 DEF Mark, PassType
    <3>4. PassOrdered'
      BY <2>1, <2>2, <2>3, <2>5, <3>3 DEF PassOrdered, Mark
    <3>5. CurrentDeleting'
      BY <2>2, <2>3, <2>5, <3>2, <3>3 DEF CurrentDeleting, InHand, Mark
    <3> QED BY <2>1, <3>2, <3>3, <3>4, <3>5, MovedWorld DEF PassSound
  <2> QED BY <1>12, <2>4, <2>5 DEF DeleteCandidate
<1>13. ASSUME NEW c \in Copies, ReclaimPending(c) PROVE PassSound' /\ WorldSound'
  <2>1. pass.step = "delete" /\ UNCHANGED <<copy, recording, breaker, job>>
    BY <1>13, <1>l, <1>o DEF ReclaimPending
  <2>2. pass.arm # 0 /\ ~pass.tripped /\ pass.todo[0] = {}
    BY <2>1 DEF PassOrdered, PassType
  <2>3. CASE copy[c] # "pending"
    <3>1. /\ pass'.step = "delete" /\ pass'.arm = pass.arm /\ ~pass'.tripped
          /\ \A a \in 0..4 : pass'.todo[a] = pass.todo[a]
          /\ UNCHANGED file
      BY <1>13, <2>1, <2>2, <2>3, FourArms DEF ReclaimPending, PassType
    <3>2. PassSound'
      BY <2>1, <2>2, <3>1 DEF PassSound, PassOrdered, CurrentDeleting, InHand
    <3> QED BY <2>1, <3>1, <3>2, StillWorld
  <2>4. CASE copy[c] = "pending"
    <3>1. /\ pass'.step = "reclaimed" /\ pass'.current = c
          /\ pass'.arm = pass.arm /\ ~pass'.tripped
          /\ \A a \in 0..4 : pass'.todo[a] = pass.todo[a]
          /\ file' = [file EXCEPT ![c] = "reclaimed"]
      <4>1. /\ file' = [file EXCEPT ![c] = "reclaimed"]
            /\ pass' = [pass EXCEPT !.step = "reclaimed", !.current = c,
                                    !.todo[Reclaim] = @ \ {c}]
        BY <1>13, <2>4 DEF ReclaimPending
      <4>2. pass'.todo = [pass.todo EXCEPT ![5] = @ \ {c}]
        BY <4>1, FourArms DEF PassType
      <4>3. /\ pass'.step = "reclaimed" /\ pass'.current = c
            /\ pass'.arm = pass.arm /\ pass'.tripped = pass.tripped
        BY <4>1 DEF PassType
      <4> QED BY <2>2, <4>1, <4>2, <4>3, FourArms DEF PassType
    <3>2. c # Original /\ c \in EncodedCopies
      BY <1>w, <2>4 DEF OriginalRow, Copies
    <3>3. PassSound'
      BY <2>1, <2>2, <3>1, <3>2 DEF PassSound, PassOrdered, CurrentDeleting, InHand
    <3>4. PutIsThere' /\ NothingReserved'
      <4>1. JobCopy' = JobCopy
        BY <2>1 DEF JobCopy
      <4>2. job # None => file'[JobCopy] \in {file[JobCopy], "reclaimed"}
        BY <3>1, JobCopyType DEF FileType
      <4> QED BY <1>w, <2>1, <4>1, <4>2 DEF PutIsThere, NothingReserved
    <3>5. SeenHolds' /\ OriginalRow'
      BY <1>w, <2>1, <3>1, <3>2, OriginalIsCopy DEF SeenHolds, OriginalRow, FileType
    <3>6. ActiveHasFile' /\ PurgedIsGone'
      BY <1>w, <2>1, <2>4, <3>1, <3>2 DEF ActiveHasFile, PurgedIsGone, FileType
    <3> QED BY <3>3, <3>4, <3>5, <3>6 DEF WorldSound
  <2> QED BY <2>3, <2>4
<1>14. CASE DeleteFails
  <2>1. /\ pass.step \in {"unlink", "unlinked"} /\ pass' = Goto(Back)
        /\ UNCHANGED <<copy, recording, file, breaker, job>>
    BY <1>14, <1>l, <1>o DEF DeleteFails
  <2>2. pass.arm # 0 => ~pass.tripped
    BY <2>1 DEF PassOrdered, PassType
  <2>3. PassSound' /\ pass'.step \notin {"settle", "unlinked"}
    BY <2>1, <2>2, GotoSound DEF Back
  <2> QED BY <2>1, <2>3, StillWorld
<1>15. CASE ReclaimFails
  <2>1. /\ pass.step = "reclaimed" /\ pass' = Goto("delete")
        /\ UNCHANGED <<copy, recording, file, breaker, job>>
    BY <1>15, <1>l, <1>o DEF ReclaimFails
  <2>2. pass.arm # 0 /\ ~pass.tripped
    BY <2>1 DEF PassOrdered, PassType
  <2>3. PassSound' /\ pass'.step \notin {"settle", "unlinked"}
    BY <2>1, <2>2, GotoSound
  <2> QED BY <2>1, <2>3, StillWorld
<1>16. CASE PassDies
  <2>1. pass' = NoPass /\ UNCHANGED <<copy, recording, file, breaker, job>>
    BY <1>16, <1>l, <1>o DEF PassDies
  <2>2. PassSound' /\ pass'.step \notin {"settle", "unlinked"}
    BY <2>1, GotoSound
  <2> QED BY <2>1, <2>2, StillWorld
<1> QED
  BY <1>1, <1>2, <1>3, <1>4, <1>5, <1>6, <1>7, <1>8, <1>9, <1>10, <1>11, <1>12, <1>13, <1>14,
     <1>15, <1>16
  DEF PassStep

-----------------------------------------------------------------------------
(* The invariant, and the properties that follow. *)

LEMMA InvariantInit == ASSUME Init PROVE DeletionInvariant
<1>1. Type
  <2>1. TypeOK
    <3>1. PICK done \in SUBSET Profiles, desired \in SUBSET Profiles :
             /\ policy = [desired |-> desired,
                          keep |-> IF desired = {} THEN "always" ELSE "until_encoded"]
             /\ generation = [p \in Profiles |-> IF p \in done THEN 1 ELSE 0]
             /\ copy = [c \in Copies |->
                          IF c = Original \/ c \in done \X {1} THEN "active" ELSE "none"]
             /\ chapters \in Keeps
             /\ cut = [p \in Profiles |-> IF p \in done \cap CutProfiles THEN chapters ELSE None]
      BY DEF Init
    <3>2. /\ recording = [trashed |-> FALSE, aged |-> FALSE, purge |-> FALSE, purged |-> FALSE]
          /\ removal = {} /\ rebuild = [p \in Profiles |-> None] /\ ready = TRUE /\ recent = {}
      BY DEF Init
    <3>3. generation \in [Profiles -> 0..MaxGeneration]
      BY <3>1, LibraryAssumption
    <3>4. /\ policy \in [desired : SUBSET Profiles, keep : {"always", "until_encoded"}]
          /\ copy \in [Copies -> {"none", "pending", "active", "deleting", "deleted"}]
          /\ chapters \in Keeps \cup {None} /\ cut \in [Profiles -> Keeps \cup {None}]
      BY <3>1
    <3> QED BY <3>2, <3>3, <3>4 DEF TypeOK
  <2>2. file \in FileType
    BY DEF Init, FileType
  <2>3. pass \in PassType
    BY NoPassType DEF Init
  <2>4. /\ breaker \in BOOLEAN /\ job \in JobType /\ appending \in Profiles \cup {None}
        /\ edits \in 0..MaxEdits /\ faults \in 0..MaxFaults
    <3>1. breaker = FALSE /\ job = None /\ appending = None /\ edits = 0 /\ faults = 0
      BY DEF Init
    <3>2. edits \in 0..MaxEdits /\ faults \in 0..MaxFaults
      BY <3>1, DeleteAssumption
    <3>3. job \in JobType /\ appending \in Profiles \cup {None}
      BY <3>1 DEF JobType
    <3> QED BY <3>1, <3>2, <3>3
  <2> QED BY <2>1, <2>2, <2>3, <2>4 DEF Type, FileType, PassType, JobType
<1>2. pass.step = "idle" /\ pass.arm = 0 /\ ~pass.tripped
      /\ \A a \in 0..4 : pass.todo[a] = {}
  BY FourArms DEF Init, NoPass
<1>3. PassSound
  BY <1>2 DEF Init, PassSound, PassOrdered, CurrentDeleting, InHand
<1>4. copy[Original] = "active" /\ job = None /\ recording.purged = FALSE
  BY OriginalIsCopy DEF Init
<1>5. ActiveHasFile
  BY DEF Init, ActiveHasFile
<1>6. WorldSound
  BY <1>2, <1>4, <1>5 DEF WorldSound, SeenHolds, PutIsThere, OriginalRow, NothingReserved,
     PurgedIsGone
<1> QED BY <1>1, <1>3, <1>6 DEF DeletionInvariant

LEMMA InvariantKept == ASSUME DeletionInvariant, [Next]_vars PROVE DeletionInvariant'
<1>1. CASE Next
  <2>1. Type'
    BY <1>1, NextType DEF DeletionInvariant, PassSound
  <2> QED BY <1>1, <2>1, OutsideSound, PassStepSound DEF Next, OutsideStep, DeletionInvariant
<1>2. CASE UNCHANGED vars
  <2>1. Type'
    BY <1>2, UnchangedLibraryType DEF vars, outside, DeletionInvariant, Type
  <2>2. UNCHANGED <<copy, recording, file, breaker, pass, job>>
    BY <1>2 DEF vars, library, outside
  <2>3. PassSound'
    BY <2>2 DEF DeletionInvariant, PassSound, PassOrdered, CurrentDeleting, InHand
  <2>4. WorldSound'
    BY <2>2 DEF DeletionInvariant, WorldSound, SeenHolds, PutIsThere, OriginalRow,
       NothingReserved, ActiveHasFile, PurgedIsGone, JobCopy
  <2> QED BY <2>1, <2>3, <2>4 DEF DeletionInvariant
<1> QED BY <1>1, <1>2

(* What the pass of DeleteReconcile knows of the copy in hand, and a job of its
   object, stays true under every other transaction. *)
THEOREM InvariantHolds == Spec => []DeletionInvariant
BY InvariantInit, InvariantKept, PTL DEF Spec

(* The rows, the files, the pass and the job stay within their types. *)
THEOREM TypeCorrect == Spec => []Type
<1>1. DeletionInvariant => Type
  BY DEF DeletionInvariant
<1> QED BY <1>1, InvariantHolds, PTL

(* No active row is without its file, but for a reclaim that lost its
   transaction (resolveUnqualifiedDeletingAsset, PublishEncoded). *)
THEOREM FilesThere == Spec => []ActiveHasFile
<1>1. DeletionInvariant => ActiveHasFile
  BY DEF DeletionInvariant, WorldSound
<1> QED BY <1>1, InvariantHolds, PTL

(* What is deleted for good does not come back, although a job may still run
   for it (MarkPurgedRecordings). *)
THEOREM GoneForGood == Spec => []PurgedIsGone
<1>1. DeletionInvariant => PurgedIsGone
  BY DEF DeletionInvariant, WorldSound
<1> QED BY <1>1, InvariantHolds, PTL

(* A live recording that can be viewed keeps a copy that no predicate lets go
   (removed_encoded_assets, until_encoded_deletable_originals). *)
THEOREM SpareHolds == Spec => []SpareRemains
<1>1. DeletionInvariant => SpareRemains
  BY DeletableApart DEF DeletionInvariant, Type, SpareRemains, Live, Viewable
<1> QED BY <1>1, InvariantHolds, PTL

(* Only the deletion of a candidate takes an active copy to deleting. *)
LEMMA OnlyCandidatesGo ==
  ASSUME DeletionInvariant, [Next]_vars, NEW c \in Copies,
         copy[c] = "active", copy'[c] = "deleting"
  PROVE  \E d \in Copies : DeleteCandidate(d) /\ Mark(d)
<1> /\ TypeOK /\ PassOrdered /\ CurrentDeleting
  BY DEF DeletionInvariant, PassSound, Type
<1>1. copy' # copy
  OBVIOUS
<1>2. ~OutsideStep
  BY OutsideEffect
<1>3. PassStep
  BY <1>1, <1>2
  DEF Next, OutsideStep, vars, library, DeleteFails, ReclaimFails, PassDies
<1>4. ~BeginPasses /\ ~ListPendingDelete /\ ~ListCandidates /\ ~Unlink /\ ~EndPass
  BY <1>1 DEF BeginPasses, BeginPass, ListPendingDelete, ListCandidates, Unlink, EndPass,
     MarkPurged, library
<1>5. ~(\E old \in SUBSET Reserved : Decide(old))
  BY <1>1 DEF Decide, library
<1>6. ~(\E d \in Copies : StatDeleting(d) \/ ResumeDelete(d) \/ ReclaimPending(d))
  BY <1>1 DEF StatDeleting, ResumeDelete, ReclaimPending, library
<1>7. ASSUME NEW d, NEW state \in {"active", "deleted"}, copy' = [copy EXCEPT ![d] = state]
      PROVE  FALSE
  BY <1>7 DEF TypeOK
<1>8. ~ResolveDeleting
  BY <1>1, <1>7 DEF ResolveDeleting, RevertToActive, MarkDeleted, SetCopy, library
<1>9. ~FinishDelete /\ ~FinishReclaim
  BY <1>7 DEF FinishDelete, FinishReclaim, MarkDeleted, SetCopy
<1>10. PICK d \in Copies : DeleteCandidate(d)
  BY <1>3, <1>4, <1>5, <1>6, <1>8, <1>9 DEF PassStep
<1>11. ~DropCandidate(d)
  BY <1>1 DEF DropCandidate, library
<1> QED BY <1>10, <1>11 DEF DeleteCandidate

(* A tripped breaker withholds every new deletion, also of a pass that was under
   way when it tripped (applyDeleteCircuitBreaker). *)
THEOREM BreakerHolds == Spec => BreakerLatched
<1>1. ASSUME DeletionInvariant, [Next]_vars, breaker, NEW c \in Copies, copy[c] = "active"
      PROVE  copy'[c] # "deleting"
  <2>1. SUFFICES ASSUME copy'[c] = "deleting" PROVE FALSE
    OBVIOUS
  <2>2. pass.step = "delete"
    BY <1>1, <2>1, OnlyCandidatesGo DEF DeleteCandidate
  <2> QED BY <1>1, <2>2 DEF DeletionInvariant, PassSound, PassOrdered
<1>2. DeletionInvariant /\ [Next]_vars =>
        [breaker => \A c \in Copies : copy[c] = "active" => copy'[c] # "deleting"]_vars
  BY <1>1
<1> QED BY <1>2, InvariantHolds, PTL DEF Spec, BreakerLatched

(* An original leaves a live library only when every wanted version is there
   (MarkUntilEncodedDeleting). *)
THEOREM OriginalGoesLast == Spec => OriginalReplaced
<1>1. ASSUME DeletionInvariant, [Next]_vars,
             copy[Original] = "active", copy'[Original] = "deleting"
      PROVE  UntilEncodedDeletable \/ Original \in pass.todo[1]
  <2> /\ TypeOK /\ PassOrdered
    BY <1>1 DEF DeletionInvariant, PassSound, Type
  <2>1. PICK d \in Copies : DeleteCandidate(d) /\ Mark(d)
    BY <1>1, OriginalIsCopy, OnlyCandidatesGo
  <2>2. DeleteArm \in 1..4 /\ d \in pass.todo[DeleteArm]
    BY <2>1, ArmOfCandidate, FourArms DEF DeleteCandidate
  <2>3. CASE DeleteArm = 2
    BY <2>1, <2>3, FourArms DEF Mark, MarkUntilEncodedDeleting
  <2>4. CASE DeleteArm # 2
    <3>1. copy' = [copy EXCEPT ![d] = "deleting"]
      BY <2>1, <2>2, <2>4, FourArms DEF Mark, MarkDeleting, SetCopy
    <3>2. d = Original
      BY <1>1, <3>1 DEF TypeOK
    <3> QED BY <2>2, <2>4, <3>2 DEF PassOrdered
  <2> QED BY <2>3, <2>4
<1>2. DeletionInvariant /\ [Next]_vars =>
        [copy[Original] = "active" /\ copy'[Original] = "deleting" =>
            UntilEncodedDeletable \/ Original \in pass.todo[1]]_vars
  BY <1>1
<1> QED BY <1>2, InvariantHolds, PTL DEF Spec, OriginalReplaced

=============================================================================
