--------------------------------- MODULE Encode ---------------------------------
(***************************************************************************)
(* Making the versions of a recording: encode_reconcile lists what is      *)
(* missing, several workers hold jobs and attempts, reserve a generation,  *)
(* encode, put the object and publish it, while the user edits and the     *)
(* deletion takes what the predicates of the Library let go.               *)
(*                                                                         *)
(* An attempt is fenced by its count.  A job is unique while it is not     *)
(* done, is retried when it fails, and may be rescued from a worker that   *)
(* still runs.                                                             *)
(***************************************************************************)
EXTENDS Library

CONSTANTS
    Workers,
    Detected,               \* the ranges that the first chapters keep
    EncodeAttemptLimit,     \* attempts of a profile until the user asks again
    MaxEdits, MaxFaults     \* bounds: the user's transactions, and failures

ASSUME EncodeAssumption ==
    /\ Detected \in Keeps
    /\ None \notin Jobs \cup [state : {"running", "failed"}, count : 1..EncodeAttemptLimit]
    /\ EncodeAttemptLimit \in Nat \ {0} /\ MaxEdits \in Nat /\ MaxFaults \in Nat

VARIABLES
    objects,        \* the keys that hold an object
    jobs,           \* encode jobs that are not done
    attempt,        \* attempt[p]: the row of recording_encode_attempts, or None
    at,             \* at[w]: the attempt that worker w runs
    dead,           \* workers whose attempt has been declared dead
    edits, faults

vars == <<library, objects, jobs, attempt, at, dead, edits, faults>>

EncodeJobs == [profile : Profiles, keep : Keeps \cup {None}]

Steps == {"begun", "planned", "encoding", "put", "done", "failing", "snoozed"}

Idle == [step |-> "idle"]

Rows == [state : {"running", "failed"}, count : 1..EncodeAttemptLimit]

Runs == [step : Steps, job : EncodeJobs, plan : Jobs \cup {None},
         count : 1..EncodeAttemptLimit, prior : 0..EncodeAttemptLimit]

Type ==
    /\ TypeOK
    /\ objects \subseteq EncodedCopies
    /\ jobs \subseteq EncodeJobs
    /\ attempt \in [Profiles -> {None} \cup Rows]
    /\ at \in [Workers -> {Idle} \cup Runs]
    /\ dead \subseteq Workers
    /\ edits \in 0..MaxEdits /\ faults \in 0..MaxFaults

(* The original has come in and its chapters have been detected. *)
Init ==
    /\ recording = [trashed |-> FALSE, aged |-> FALSE, purge |-> FALSE, purged |-> FALSE]
    /\ policy = [desired |-> Profiles, keep |-> "until_encoded"]
    /\ removal = {} /\ rebuild = [p \in Profiles |-> None] /\ chapters = Detected
    /\ ready = TRUE /\ recent = {} /\ cut = [p \in Profiles |-> None]
    /\ copy = [c \in Copies |-> IF c = Original THEN "active" ELSE "none"]
    /\ generation = [p \in Profiles |-> 0]
    /\ objects = {} /\ jobs = {} /\ attempt = [p \in Profiles |-> None]
    /\ at = [w \in Workers |-> Idle] /\ dead = {} /\ edits = 0 /\ faults = 0

Fault == faults < MaxFaults /\ faults' = faults + 1

-----------------------------------------------------------------------------
(* Attempts are counted from 1 again once the row has gone. *)
StillDead == {w \in dead : at[w] # Idle /\ attempt'[at[w].job.profile] # None}

(* The user.  Asking for a version gives its attempts back, if none runs. *)

Reset(p) ==
    attempt' = [attempt EXCEPT ![p] = IF @ # None /\ @.state = "failed" THEN None ELSE @]

Edit(transaction) ==
    /\ edits < MaxEdits /\ edits' = edits + 1
    /\ transaction
    /\ dead' = StillDead
    /\ UNCHANGED <<objects, jobs, at, faults>>

UserEdit ==
    \/ \E p \in Profiles : Edit(HasOriginal /\ AppendProfile(p) /\ Reset(p))
    \/ \E p \in Profiles : Edit(RequestCutRebuild(p) /\ Reset(p))
    \/ \E p \in Profiles : Edit(RemoveEncodedAsset(p) /\ UNCHANGED attempt)
    \/ \E keep \in Keeps : Edit(EditChapters(keep) /\ UNCHANGED attempt)
    \/ Edit(SoftDelete /\ UNCHANGED attempt)
    \/ Edit(Restore /\ UNCHANGED attempt)

-----------------------------------------------------------------------------
(* The deletion, which DeleteReconcile has step by step. *)

DeleteCopy(c) ==
    /\ copy[c] = "active" /\ Deletable(c)
    /\ SetCopy(c, "deleted") /\ UNCHANGED removal
    /\ objects' = objects \ {c}
    /\ UNCHANGED <<jobs, attempt, at, dead, edits, faults>>

ReclaimPending(c) ==
    /\ copy[c] = "pending"
    /\ SetCopy(c, "deleted") /\ UNCHANGED removal
    /\ objects' = objects \ {c}
    /\ UNCHANGED <<jobs, attempt, at, dead, edits, faults>>

-----------------------------------------------------------------------------
(* encode_reconcile. *)

Exhausted(p) ==
    attempt[p] # None /\ attempt[p].state = "failed" /\ attempt[p].count >= EncodeAttemptLimit

(* Mutant: a version that is there is not made again. *)
RebuildsOfMissing == {p \in CutProfiles : Unsatisfied(p) /\ ~Active(p)}

Rebuilds == {p \in CutProfiles : Unsatisfied(p)}

Missing ==
    {p \in Unencoded : Encodable /\ ~Unsatisfied(p) /\ (p \in CutProfiles => chapters # None)}

ListMissingEncodeProfiles ==
    {j \in [profile : Rebuilds, keep : Keeps] : j.keep = rebuild[j.profile]}
        \cup [profile : Missing, keep : {None}]

EncodeReconcile ==
    \E j \in ListMissingEncodeProfiles \ jobs :
        /\ ~Exhausted(j.profile)
        /\ jobs' = jobs \cup {j}
        /\ UNCHANGED <<library, objects, attempt, at, dead, edits, faults>>

-----------------------------------------------------------------------------
(* An attempt. *)

Working(w) == at[w].step # "idle"
Profile(w) == at[w].job.profile
Key(w) == <<at[w].plan.profile, at[w].plan.generation>>

Current(w) ==
    attempt[Profile(w)] = [state |-> "running", count |-> at[w].count]

Goto(w, step) == at' = [at EXCEPT ![w].step = step]

Leave(w) == at' = [at EXCEPT ![w] = Idle]

(* A job that a worker still holds comes to another one by a rescue. *)
Handed(w, j) ==
    /\ ~Working(w) /\ j \in jobs
    /\ IF \E v \in Workers : Working(v) /\ at[v].job = j THEN Fault ELSE UNCHANGED faults

(* The attempts before: what is still running has died. *)
Prior(p) == IF attempt[p] = None THEN 0 ELSE attempt[p].count

Died(p) == {w \in Workers : Working(w) /\ Profile(w) = p /\ Current(w)}

Start(w, j) ==
    LET p == j.profile IN
    /\ attempt' = [attempt EXCEPT ![p] = [state |-> "running", count |-> Prior(p) + 1]]
    /\ at' = [at EXCEPT ![w] = [step |-> "begun", job |-> j, plan |-> None,
                                count |-> Prior(p) + 1, prior |-> Prior(p)]]
    /\ dead' = (dead \cup Died(p)) \ {w}

(* Mutant: one attempt too many. *)
BeginUnlimited(w, j) ==
    /\ Handed(w, j) /\ Prior(j.profile) <= EncodeAttemptLimit
    /\ Start(w, j)
    /\ UNCHANGED <<library, objects, jobs, edits>>

(* Mutant: who finds a running attempt leaves it to that one. *)
BeginUnlessRunning(w, j) ==
    /\ Handed(w, j) /\ Prior(j.profile) < EncodeAttemptLimit
    /\ attempt[j.profile] # None => attempt[j.profile].state = "failed"
    /\ Start(w, j)
    /\ UNCHANGED <<library, objects, jobs, edits>>

Begin(w, j) ==
    /\ Handed(w, j) /\ Prior(j.profile) < EncodeAttemptLimit
    /\ Start(w, j)
    /\ UNCHANGED <<library, objects, jobs, edits>>

(* The limit is reached: the job is given up. *)
BeginTerminal(w, j) ==
    /\ Handed(w, j) /\ Prior(j.profile) >= EncodeAttemptLimit
    /\ attempt' = [attempt EXCEPT ![j.profile].state = "failed"]
    /\ dead' = dead \cup Died(j.profile)
    /\ jobs' = jobs \ {j}
    /\ UNCHANGED <<library, objects, at, edits>>

(* The plan is made from one snapshot, before the encoding.  A job that is not
   a rebuild takes the ranges of the chapters. *)
PlanOf(j, g) ==
    [profile |-> j.profile, requested |-> j.keep # None, observed |-> generation[j.profile],
     keep |-> IF j.keep = None /\ j.profile \in CutProfiles THEN chapters ELSE j.keep,
     generation |-> g]

ObservePlan(w) ==
    /\ at[w].step = "begun"
    /\ \E g \in Generations :
          /\ NextGeneration(Profile(w), g)
          /\ LET plan == PlanOf(at[w].job, g) IN
             at' = [at EXCEPT
                ![w].plan = plan,
                ![w].step = IF Confirmed(plan) /\ ~Satisfied(plan) /\ Replaceable(plan)
                            THEN "planned" ELSE "done"]
    /\ UNCHANGED <<library, objects, jobs, attempt, dead, edits, faults>>

(* The original has to be there and the key free; then the generation is
   reserved, which fails if another attempt has taken it. *)
Reserve(w) ==
    /\ at[w].step = "planned"
    /\ \/ /\ HasOriginal /\ Key(w) \notin objects
          /\ PreparePending(Key(w)[1], Key(w)[2]) /\ Goto(w, "encoding")
       \/ /\ HasOriginal /\ Key(w) \notin objects
          /\ ~Unused(Key(w)[1], Key(w)[2])
          /\ UNCHANGED library /\ Goto(w, "snoozed")
       \/ /\ ~HasOriginal \/ Key(w) \in objects
          /\ UNCHANGED library /\ Goto(w, "failing")
    /\ UNCHANGED <<objects, jobs, attempt, dead, edits, faults>>

(* An object is never replaced: a key that someone else has put in the meantime
   is theirs to publish, and the attempt succeeds without publishing. *)
Put(w) ==
    /\ at[w].step = "encoding"
    /\ objects' = objects \cup {Key(w)}
    /\ Goto(w, IF Key(w) \in objects THEN "done" ELSE "put")
    /\ UNCHANGED <<library, jobs, attempt, dead, edits, faults>>

(* A key without a live row is cleaned up by the attempt that has put it. *)
CleanUp(w) == objects' = IF copy[Key(w)] = "deleted" THEN objects \ {Key(w)} ELSE objects

(* Mutant: any running attempt of the profile will do. *)
PublishUnfenced(w) ==
    /\ at[w].step = "put" /\ attempt[Profile(w)] # None /\ attempt[Profile(w)].state = "running"
    /\ PublishEncoded(at[w].plan)
    /\ \/ Goto(w, "done") /\ UNCHANGED faults
       \/ Goto(w, "failing") /\ Fault
    /\ UNCHANGED <<objects, jobs, attempt, dead, edits>>

(* The commit may go through and its answer be lost. *)
Publish(w) ==
    /\ at[w].step = "put" /\ Current(w)
    /\ PublishEncoded(at[w].plan)
    /\ \/ Goto(w, "done") /\ UNCHANGED faults
       \/ Goto(w, "failing") /\ Fault
    /\ UNCHANGED <<objects, jobs, attempt, dead, edits>>

(* What is not to be published any more is dropped, but a plan that others have
   overtaken is made again. *)
Drop(w) ==
    /\ at[w].step = "put" /\ ~(Current(w) /\ Publishable(at[w].plan))
    /\ CleanUp(w)
    /\ Goto(w, IF Current(w) /\ StalePlan(at[w].plan) THEN "snoozed" ELSE "done")
    /\ UNCHANGED <<library, jobs, attempt, dead, edits, faults>>

(* The attempt succeeds and its row goes; the row stays if that call fails. *)
Finish(w) ==
    /\ at[w].step = "done"
    /\ \/ /\ attempt' = [attempt EXCEPT ![Profile(w)] = IF Current(w) THEN None ELSE @]
          /\ UNCHANGED faults
       \/ UNCHANGED attempt /\ Fault
    /\ jobs' = jobs \ {at[w].job}
    /\ dead' = StillDead
    /\ Leave(w)
    /\ UNCHANGED <<library, objects, edits>>

(* It fails and is counted; after the last one the job is given up. *)
FailAttempt(w) ==
    /\ at[w].step = "failing"
    /\ attempt' = [attempt EXCEPT ![Profile(w)] =
                      IF Current(w) THEN [@ EXCEPT !.state = "failed"] ELSE @]
    /\ jobs' = IF Current(w) /\ at[w].count >= EncodeAttemptLimit
               THEN jobs \ {at[w].job} ELSE jobs
    /\ Leave(w)
    /\ UNCHANGED <<library, objects, dead, edits, faults>>

(* It is put off, or the process stops in order: it does not count. *)
RestoreAttempt(w) ==
    /\ at[w].step = "snoozed"
    /\ attempt' = [attempt EXCEPT ![Profile(w)] =
                      IF ~Current(w) THEN @
                      ELSE IF at[w].prior = 0 THEN None
                      ELSE [state |-> "failed", count |-> at[w].prior]]
    /\ dead' = StillDead
    /\ Leave(w)
    /\ UNCHANGED <<library, objects, jobs, edits, faults>>

-----------------------------------------------------------------------------
(* A call or the encoder fails, the process is told to stop, or it dies. *)

Breaks(w) ==
    /\ Working(w) /\ at[w].step \notin {"done", "failing", "snoozed"} /\ Fault
    /\ \E step \in {"failing", "snoozed"} : Goto(w, step)
    /\ IF at[w].step = "put" THEN CleanUp(w) ELSE UNCHANGED objects
    /\ UNCHANGED <<library, jobs, attempt, dead, edits>>

Crash(w) ==
    /\ Working(w) /\ Fault
    /\ Leave(w)
    /\ UNCHANGED <<library, objects, jobs, attempt, dead, edits>>

-----------------------------------------------------------------------------
Attempt(w) ==
    \/ ObservePlan(w) \/ Reserve(w) \/ Put(w) \/ Publish(w) \/ Drop(w)
    \/ Finish(w) \/ FailAttempt(w) \/ RestoreAttempt(w)

Take == \E w \in Workers, j \in EncodeJobs : Begin(w, j) \/ BeginTerminal(w, j)

Next ==
    \/ UserEdit
    \/ \E c \in Copies : DeleteCopy(c) \/ ReclaimPending(c)
    \/ EncodeReconcile \/ Take
    \/ \E w \in Workers : Attempt(w) \/ Breaks(w) \/ Crash(w)

Spec == Init /\ [][Next]_vars

(* Every worker goes on, every pass lists, and the queue hands out its jobs. *)
Fairness ==
    /\ \A w \in Workers : WF_vars(Attempt(w))
    /\ WF_vars(EncodeReconcile) /\ WF_vars(Take)

FairSpec == Spec /\ Fairness

-----------------------------------------------------------------------------
(* A first version is cut to ranges that the user has confirmed and not edited
   since, and a version that is there gives way to a requested one only
   (PublishEncoded: what a job has observed may be hours old). *)
OnlyConfirmed ==
    [][\A p \in Profiles : cut'[p] # cut[p] =>
          cut'[p] = rebuild[p] \/ (cut'[p] = chapters /\ ~Active(p))]_vars

(* A version stays current while others are made; only the deletion ends that
   (PreparePendingMediaAssetCopy, UpsertDerivedMediaAsset). *)
StaysViewable ==
    [][\A p \in Profiles : Active(p) =>
          Active(p)' \/ copy'[<<p, generation[p]>>] = "deleted"]_vars

(* An attempt that was declared dead publishes nothing as long as the row that
   counts the attempts is there (GetRecordingEncodeAttemptForUpdate). *)
DeadNeverPublishes ==
    [][\A w \in dead : at[w].step = "put" => copy[Key(w)] = "active" \/ copy'[Key(w)] # "active"]_vars

(* A wanted profile is encoded in the end, or the user has to do something. *)
GivenUp(p) ==
    Exhausted(p) \/ ~Encodable \/ p \notin policy.desired \/ ~Unused(p, MaxGeneration)

Encoded == \A p \in Profiles : p \in Unencoded ~> (Active(p) \/ GivenUp(p))

(* A rebuild that was asked for is made although a version is there. *)
RebuildHonoured ==
    \A p \in CutProfiles : Unsatisfied(p) ~> (~Unsatisfied(p) \/ GivenUp(p))

=============================================================================
