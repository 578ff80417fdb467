---------------------------- MODULE DeleteReconcile ----------------------------
(***************************************************************************)
(* The physical deletion of a recording's copies: one pass at a time       *)
(* settles the copies it finds in deleting, lists what the predicates of   *)
(* the Library let go, and deletes it, while the user changes his mind and *)
(* a job makes a new version.  An unlink may fail and the process may die  *)
(* after any step.                                                         *)
(***************************************************************************)
EXTENDS Library

CONSTANTS
    MaxPerPass,     \* the breaker's limit
    MaxVersions,    \* bound: encoded copies ever made
    MaxEdits,       \* bound: transactions of the user
    MaxFaults       \* bound: failed calls and crashes

ASSUME DeleteAssumption ==
    MaxPerPass \in Nat /\ MaxVersions \in Nat /\ MaxEdits \in Nat /\ MaxFaults \in Nat

VARIABLES
    file,           \* file[c]: whether the copy's file is there, or what took it
    breaker,        \* the circuit breaker is tripped
    pass,           \* the pass that runs
    job,            \* the encode job that runs, or None
    appending,      \* a profile whose append has looked at the original
    edits, faults

outside == <<job, appending, edits>>
vars == <<library, file, breaker, pass, outside, faults>>

Reclaim == Len(Arms) + 1        \* the arm of the reserved copies

NoPass == [step |-> "idle", arm |-> 0, tripped |-> FALSE, current |-> None,
           there |-> FALSE, todo |-> [a \in 0..Reclaim |-> {}]]

Type ==
    /\ TypeOK
    /\ file \in [Copies -> {"none", "there", "unlinked", "reclaimed"}]
    /\ breaker \in BOOLEAN
    /\ pass \in [step : {"idle", "resolve", "settle", "pending", "list", "delete",
                         "unlink", "unlinked", "reclaimed"},
                 arm : 0..Len(Arms), tripped : BOOLEAN, current : Copies \cup {None},
                 there : BOOLEAN, todo : [0..Reclaim -> SUBSET Copies]]
    /\ job \in {None} \cup [plan : Jobs, step : {"planned", "encoding", "put"}]
    /\ appending \in Profiles \cup {None}
    /\ edits \in 0..MaxEdits /\ faults \in 0..MaxFaults

(* A recording as ingest and earlier jobs have left it.  What wants a profile
   lets the original go (keeping it is an edit). *)
Init ==
    /\ recording = [trashed |-> FALSE, aged |-> FALSE, purge |-> FALSE, purged |-> FALSE]
    /\ \E done \in SUBSET Profiles :
          /\ \E desired \in SUBSET Profiles :
                /\ done \subseteq desired
                /\ policy = [desired |-> desired,
                             keep |-> IF desired = {} THEN "always" ELSE "until_encoded"]
          /\ generation = [p \in Profiles |-> IF p \in done THEN 1 ELSE 0]
          /\ copy = [c \in Copies |-> IF c = Original \/ c \in done \X {1} THEN "active" ELSE "none"]
          /\ chapters \in Keeps
          /\ cut = [p \in Profiles |-> IF p \in done \cap CutProfiles THEN chapters ELSE None]
    /\ removal = {} /\ rebuild = [p \in Profiles |-> None] /\ ready = TRUE /\ recent = {}
    /\ file = [c \in Copies |-> IF copy[c] = "active" THEN "there" ELSE "none"]
    /\ breaker = FALSE /\ pass = NoPass /\ job = None /\ appending = None
    /\ edits = 0 /\ faults = 0

Fault == faults < MaxFaults /\ faults' = faults + 1

-----------------------------------------------------------------------------
(* The user, and the jobs that make the other derived files. *)

Edit(transaction) ==
    /\ edits < MaxEdits /\ edits' = edits + 1
    /\ transaction
    /\ UNCHANGED <<file, breaker, pass, job, appending, faults>>

UserEdit ==
    \/ Edit(SoftDelete) \/ Edit(Restore) \/ Edit(RequestPurge) \/ Edit(SetCMDetection)
    \/ \E p \in Profiles : Edit(RemoveEncodedAsset(p)) \/ Edit(RequestCutRebuild(p))
    \/ \E keep \in {"always", "until_encoded"} : Edit(SetKeepOriginal(keep))
    \/ \E keep \in Keeps : Edit(EditChapters(keep))

(* An append looks at the original before it has the lock of the policy. *)
BeginAppend(p) ==
    /\ appending = None /\ HasOriginal /\ edits < MaxEdits
    /\ appending' = p /\ edits' = edits + 1
    /\ UNCHANGED <<library, file, breaker, pass, job, faults>>

FinishAppend ==
    /\ appending # None
    /\ AppendProfile(appending)
    /\ appending' = None
    /\ UNCHANGED <<file, breaker, pass, job, edits, faults>>

(* The user looks into it and lets the deletion go on. *)
ResumeBreaker ==
    /\ breaker /\ edits < MaxEdits
    /\ breaker' = FALSE /\ edits' = edits + 1
    /\ UNCHANGED <<library, file, pass, job, appending, faults>>

DeriveOthers ==
    /\ ~ready /\ HasOriginal
    /\ ready' = TRUE
    /\ UNCHANGED <<recording, policy, removal, rebuild, chapters, copy, generation, cut, recent,
                   file, breaker, pass, outside, faults>>

-----------------------------------------------------------------------------
(* One job at a time makes a version; Encode has the attempts. *)

PlanJob(p, requested, g) ==
    LET plan == [profile |-> p, requested |-> requested, observed |-> generation[p],
                 keep |-> IF requested THEN rebuild[p]
                          ELSE IF p \in CutProfiles THEN chapters ELSE None,
                 generation |-> g]
    IN
    /\ job = None /\ NextGeneration(p, g)
    /\ Cardinality({c \in EncodedCopies : copy[c] # "none"}) < MaxVersions
    /\ requested => p \in CutProfiles /\ rebuild[p] # None
    /\ p \in CutProfiles => plan.keep # None
    /\ Confirmed(plan) /\ ~Satisfied(plan) /\ Replaceable(plan)
    /\ HasOriginal /\ file[Original] = "there"
    /\ job' = [plan |-> plan, step |-> "planned"]
    /\ UNCHANGED <<library, file, breaker, pass, appending, edits, faults>>

ReserveCopy ==
    /\ job # None /\ job.step = "planned"
    /\ PreparePending(job.plan.profile, job.plan.generation)
    /\ job' = IF file[Original] = "there" THEN [job EXCEPT !.step = "encoding"] ELSE None
    /\ UNCHANGED <<file, breaker, pass, appending, edits, faults>>

JobCopy == <<job.plan.profile, job.plan.generation>>

PutObject ==
    /\ job # None /\ job.step = "encoding"
    /\ file' = [file EXCEPT ![JobCopy] = "there"]
    /\ job' = [job EXCEPT !.step = "put"]
    /\ UNCHANGED <<library, breaker, pass, appending, edits, faults>>

(* The row of a copy that is being reclaimed is locked. *)
Locked(c) == pass.step = "reclaimed" /\ pass.current = c

(* A key whose row is gone is cleaned up by the job that has put it. *)
Publish ==
    /\ job # None /\ job.step = "put" /\ ~Locked(JobCopy)
    /\ \/ PublishEncoded(job.plan) /\ UNCHANGED file
       \/ /\ ~Publishable(job.plan)
          /\ file' = IF copy[JobCopy] = "deleted" THEN [file EXCEPT ![JobCopy] = "none"] ELSE file
          /\ UNCHANGED library
    /\ job' = None
    /\ UNCHANGED <<breaker, pass, appending, edits, faults>>

(* The job fails, or its process dies. *)
EndJob ==
    /\ job # None
    /\ job' = None
    /\ UNCHANGED <<library, file, breaker, pass, appending, edits, faults>>

-----------------------------------------------------------------------------
(* The pass. *)

Goto(step) == [pass EXCEPT !.step = step, !.current = None]

Deletings == {c \in Copies : copy[c] = "deleting"}

(* The breaker is read and the cutoffs are fixed: what has been in the trash
   for the time of grace, and which new generations have overlapped enough.
   Then the copies in deleting that nothing wants deleted are listed. *)
BeginPass(aged, overlapped) ==
    /\ pass.step = "idle"
    /\ aged => recording.trashed
    /\ recording' = [recording EXCEPT !.aged = @ \/ aged]
    /\ recent' = recent \ overlapped
    /\ UNCHANGED <<policy, removal, rebuild, chapters, ready, copy, generation, cut>>
    /\ pass' = [NoPass EXCEPT !.step = "resolve", !.tripped = breaker,
                              !.todo[0] = {c \in Deletings : ~Deletable(c)'}]
    /\ UNCHANGED <<file, breaker, outside, faults>>

(* Mutant: the file is not looked for. *)
TrustFile(c) ==
    /\ pass.step = "resolve" /\ c \in pass.todo[0]
    /\ pass' = [pass EXCEPT !.step = "settle", !.current = c, !.todo[0] = @ \ {c},
                            !.there = TRUE]
    /\ UNCHANGED <<library, file, breaker, outside, faults>>

StatDeleting(c) ==
    /\ pass.step = "resolve" /\ c \in pass.todo[0]
    /\ pass' = [pass EXCEPT !.step = "settle", !.current = c, !.todo[0] = @ \ {c},
                            !.there = file[c] = "there"]
    /\ UNCHANGED <<library, file, breaker, outside, faults>>

(* What no predicate wants deleted comes back if its file is still there. *)
ResolveDeleting ==
    /\ pass.step = "settle"
    /\ \/ pass.there /\ RevertToActive(pass.current)
       \/ pass.there /\ Deletable(pass.current) /\ UNCHANGED library
       \/ ~pass.there /\ MarkDeleted(pass.current)
    /\ pass' = Goto("resolve")
    /\ UNCHANGED <<file, breaker, outside, faults>>

ListPendingDelete ==
    /\ pass.step = "resolve" /\ pass.todo[0] = {}
    /\ pass' = [Goto("pending") EXCEPT !.todo[0] = {c \in Deletings : Deletable(c)}]
    /\ UNCHANGED <<library, file, breaker, outside, faults>>

ResumeDelete(c) ==
    /\ pass.step = "pending" /\ c \in pass.todo[0]
    /\ pass' = [pass EXCEPT !.step = "unlink", !.current = c, !.todo[0] = @ \ {c}]
    /\ UNCHANGED <<library, file, breaker, outside, faults>>

(* The candidates are listed arm by arm. *)
ListCandidates ==
    LET next == pass.arm + 1 IN
    /\ (pass.step = "pending" /\ pass.todo[0] = {}) \/ pass.step = "list"
    /\ next < Reclaim
    /\ pass' = [Goto("list") EXCEPT !.arm = next, !.todo[next] =
                   {c \in Copies : copy[c] = "active" /\ Qualifies(Arms[next], c)}]
    /\ UNCHANGED <<library, file, breaker, outside, faults>>

Reserved == {c \in EncodedCopies : copy[c] = "pending"}

Candidates == UNION {pass.todo[a] : a \in 1..Len(Arms)}

(* Mutant: the latch is not looked at. *)
DecideUnlatched(old) ==
    /\ pass.step = "list" /\ pass.arm = Len(Arms) /\ old \subseteq Reserved
    /\ IF Cardinality(Candidates \cup old) > MaxPerPass
       THEN breaker' = TRUE /\ pass' = NoPass
       ELSE pass' = [Goto("delete") EXCEPT !.todo[Reclaim] = old] /\ UNCHANGED breaker
    /\ UNCHANGED <<library, file, outside, faults>>

(* The reserved copies that have waited for long come last.  Too many
   candidates trip the breaker; tripped, it withholds them all. *)
Decide(old) ==
    /\ pass.step = "list" /\ pass.arm = Len(Arms) /\ old \subseteq Reserved
    /\ IF Cardinality(Candidates \cup old) > MaxPerPass
       THEN breaker' = TRUE /\ pass' = NoPass
       ELSE /\ pass' = IF pass.tripped THEN NoPass
                       ELSE [Goto("delete") EXCEPT !.todo[Reclaim] = old]
            /\ UNCHANGED breaker
    /\ UNCHANGED <<library, file, outside, faults>>

(* The arm whose candidates are deleted next; Reclaim when all are. *)
DeleteArm ==
    CHOOSE a \in 1..Reclaim :
        /\ a = Reclaim \/ pass.todo[a] # {}
        /\ \A b \in 1..(a - 1) : pass.todo[b] = {}

(* The row of a candidate goes to deleting, if it is active still; an original
   that its versions replace is looked at again. *)
Mark(c) ==
    /\ IF Arms[DeleteArm] = "until_encoded" THEN MarkUntilEncodedDeleting ELSE MarkDeleting(c)
    /\ pass' = [pass EXCEPT !.step = "unlink", !.current = c, !.todo[DeleteArm] = @ \ {c}]

DropCandidate(c) ==
    /\ copy[c] # "active" \/ (Arms[DeleteArm] = "until_encoded" /\ ~UntilEncodedDeletable)
    /\ pass' = [pass EXCEPT !.todo[DeleteArm] = @ \ {c}]
    /\ UNCHANGED library

DeleteCandidate(c) ==
    /\ pass.step = "delete" /\ DeleteArm < Reclaim /\ c \in pass.todo[DeleteArm]
    /\ Mark(c) \/ DropCandidate(c)
    /\ UNCHANGED <<file, breaker, outside, faults>>

(* Where a copy's deletion came from is where the pass goes on. *)
Back == IF pass.arm = 0 THEN "pending" ELSE "delete"

Unlink ==
    /\ pass.step = "unlink"
    /\ file' = [file EXCEPT ![pass.current] = "unlinked"]
    /\ pass' = [pass EXCEPT !.step = "unlinked"]
    /\ UNCHANGED <<library, breaker, outside, faults>>

FinishDelete ==
    /\ pass.step = "unlinked"
    /\ MarkDeleted(pass.current)
    /\ pass' = Goto(Back)
    /\ UNCHANGED <<file, breaker, outside, faults>>

(* A call fails: the copy stays in deleting for the next pass. *)
DeleteFails ==
    /\ pass.step \in {"unlink", "unlinked"} /\ Fault
    /\ pass' = Goto(Back)
    /\ UNCHANGED <<library, file, breaker, outside>>

(* The object of a copy that is still reserved is deleted under its lock. *)
ReclaimPending(c) ==
    /\ pass.step = "delete" /\ DeleteArm = Reclaim /\ c \in pass.todo[Reclaim]
    /\ IF copy[c] = "pending"
       THEN /\ file' = [file EXCEPT ![c] = "reclaimed"]
            /\ pass' = [pass EXCEPT !.step = "reclaimed", !.current = c, !.todo[Reclaim] = @ \ {c}]
       ELSE pass' = [pass EXCEPT !.todo[Reclaim] = @ \ {c}] /\ UNCHANGED file
    /\ UNCHANGED <<library, breaker, outside, faults>>

FinishReclaim ==
    /\ pass.step = "reclaimed"
    /\ SetCopy(pass.current, "deleted") /\ UNCHANGED removal
    /\ pass' = Goto("delete")
    /\ UNCHANGED <<file, breaker, outside, faults>>

ReclaimFails ==
    /\ pass.step = "reclaimed" /\ Fault
    /\ pass' = Goto("delete")
    /\ UNCHANGED <<library, file, breaker, outside>>

(* Mutant: the copies that wait for their unlink are not looked at. *)
EndPassEarly ==
    /\ pass.step = "delete" /\ DeleteArm = Reclaim /\ pass.todo[Reclaim] = {}
    /\ IF TrashDeletable /\ ~HasOriginal
       THEN /\ recording' = [recording EXCEPT !.purged = TRUE]
            /\ UNCHANGED <<policy, removal, rebuild, chapters, ready, copy, generation, cut, recent>>
       ELSE UNCHANGED library
    /\ pass' = NoPass
    /\ UNCHANGED <<file, breaker, outside, faults>>

EndPass ==
    /\ pass.step = "delete" /\ DeleteArm = Reclaim /\ pass.todo[Reclaim] = {}
    /\ MarkPurged \/ (~Purgeable /\ UNCHANGED library)
    /\ pass' = NoPass
    /\ UNCHANGED <<file, breaker, outside, faults>>

(* The process dies, or a query fails. *)
PassDies ==
    /\ pass.step # "idle" /\ Fault
    /\ pass' = NoPass
    /\ UNCHANGED <<library, file, breaker, outside>>

-----------------------------------------------------------------------------
BeginPasses == \E aged \in BOOLEAN, overlapped \in SUBSET recent : BeginPass(aged, overlapped)

PassStep ==
    \/ BeginPasses
    \/ ResolveDeleting \/ ListPendingDelete
    \/ ListCandidates \/ (\E old \in SUBSET Reserved : Decide(old))
    \/ Unlink \/ FinishDelete \/ FinishReclaim \/ EndPass
    \/ \E c \in Copies : StatDeleting(c) \/ ResumeDelete(c) \/ DeleteCandidate(c) \/ ReclaimPending(c)

Next ==
    \/ UserEdit \/ (\E p \in Profiles : BeginAppend(p)) \/ FinishAppend \/ ResumeBreaker
    \/ DeriveOthers
    \/ (\E p \in Profiles, requested \in BOOLEAN, g \in Generations : PlanJob(p, requested, g))
    \/ ReserveCopy \/ PutObject \/ Publish \/ EndJob
    \/ PassStep \/ DeleteFails \/ ReclaimFails \/ PassDies

Spec == Init /\ [][Next]_vars

-----------------------------------------------------------------------------
Live == ~recording.trashed
Viewable == HasOriginal \/ \E p \in Profiles : Active(p)

(* An active row has its file, although a process may die between an unlink
   and its row and the recording be restored before the next pass
   (resolveUnqualifiedDeletingAsset).  One exception: a reclaim that deletes the
   object and then loses its transaction leaves a row that can be published. *)
ActiveHasFile ==
    \A c \in Copies : copy[c] = "active" => file[c] \in {"there", "reclaimed"}

(* When a recording is deleted for good nothing of it is left, or comes back
   with a job that was under way (MarkPurgedRecordings). *)
PurgedIsGone ==
    recording.purged =>
        /\ \A c \in Copies : copy[c] \notin {"active", "deleting"}
        /\ file[Original] # "there"

(* Whatever the user has asked for, the predicates never let all of a live
   recording's copies go (removed_encoded_assets, until_encoded_deletable_originals). *)
SpareRemains ==
    Live /\ Viewable =>
        \/ HasOriginal /\ ~Deletable(Original)
        \/ \E p \in Profiles : Active(p) /\ ~Deletable(<<p, generation[p]>>)

(* A tripped breaker withholds every new deletion until it is resumed
   (applyDeleteCircuitBreaker). *)
BreakerLatched ==
    [][breaker => \A c \in Copies : copy[c] = "active" => copy'[c] # "deleting"]_vars

(* An original leaves a live library only when every wanted version replaces it
   now, whatever was so when it was listed; only what was listed as trash goes
   without a second look (MarkUntilEncodedDeleting, MarkDeleting). *)
OriginalReplaced ==
    [][copy[Original] = "active" /\ copy'[Original] = "deleting" =>
          UntilEncodedDeletable \/ Original \in pass.todo[1]]_vars

=============================================================================
