------------------------------ MODULE EncodeProofs ------------------------------
(***************************************************************************)
(* What holds of the making of versions for every number of workers,       *)
(* profiles, generations, attempts and failures.  The published ranges     *)
(* follow from the step that publishes alone; that a dead attempt stays    *)
(* silent needs to know how the counts of the attempts and the reserved    *)
(* generations are spread over the workers.                                *)
(***************************************************************************)
EXTENDS Encode, LibraryProofs

(* What reaches the reservation has a plan. *)
Planned ==
    \A w \in Workers : at[w].step \in {"planned", "encoding", "put"} => at[w].plan # None

Holds(w) == at[w].step \in {"encoding", "put"}

(* A reserved generation belongs to one worker. *)
Owned ==
    \A w \in Workers : Holds(w) =>
        /\ copy[Key(w)] # "none"
        /\ \A v \in Workers \ {w} : Holds(v) => Key(v) # Key(w)

(* An attempt counts one more than what was there before. *)
Counted == \A w \in Workers : Working(w) => at[w].count = at[w].prior + 1

(* A dead attempt is behind its row: a later one runs, or it has failed. *)
DeadBehind ==
    \A w \in dead : Working(w) =>
        /\ attempt[Profile(w)] # None
        /\ \/ at[w].count < attempt[Profile(w)].count
           \/ /\ at[w].count = attempt[Profile(w)].count
              /\ attempt[Profile(w)].state = "failed"

EncodeInvariant == Type /\ Planned /\ Owned /\ Counted /\ DeadBehind

-----------------------------------------------------------------------------
(* Types. *)

LEMMA GotoType ==
  ASSUME Type, NEW w \in Workers, Working(w), NEW step \in Steps, Goto(w, step)
  PROVE  at' \in [Workers -> {Idle} \cup Runs]
<1>1. at[w] \in Runs
  BY DEF Type, Working, Idle
<1>2. [at[w] EXCEPT !.step = step] \in Runs
  BY <1>1 DEF Runs
<1> QED BY <1>2 DEF Goto, Type

LEMMA LeaveType ==
  ASSUME Type, NEW w \in Workers, Leave(w)
  PROVE  at' \in [Workers -> {Idle} \cup Runs]
BY DEF Leave, Type

LEMMA WorkerType ==
  ASSUME Type, NEW w \in Workers, Working(w)
  PROVE  /\ at[w] \in Runs /\ at[w].job \in EncodeJobs /\ Profile(w) \in Profiles
         /\ at[w].count \in 1..EncodeAttemptLimit /\ at[w].prior \in 0..EncodeAttemptLimit
         /\ at[w].step \in Steps
         /\ at[w].plan # None =>
               /\ at[w].plan \in Jobs /\ Key(w) \in EncodedCopies
               /\ Key(w)[1] \in Profiles /\ Key(w)[2] \in Generations
<1>1. at[w] \in Runs
  BY DEF Type, Working, Idle
<1> QED BY <1>1 DEF Runs, Profile, EncodeJobs, Key, Jobs, EncodedCopies, Generations

LEMMA UserType == ASSUME Type, UserEdit PROVE Type'
<1>1. TypeOK'
  BY UserTypeOK DEF UserEdit, Edit, Type
<1>2. attempt' \in [Profiles -> {None} \cup Rows]
  BY DEF UserEdit, Edit, Reset, Type
<1>3. /\ UNCHANGED <<objects, jobs, at, faults>> /\ dead' \subseteq dead
      /\ edits' \in 0..MaxEdits
  BY EncodeAssumption DEF UserEdit, Edit, StillDead, Type
<1> QED BY <1>1, <1>2, <1>3 DEF Type

LEMMA DeletionType ==
  ASSUME Type, NEW c \in Copies, DeleteCopy(c) \/ ReclaimPending(c)
  PROVE  Type'
<1>1. SetCopy(c, "deleted") /\ removal' = removal
  BY DEF DeleteCopy, ReclaimPending
<1>2. TypeOK'
  BY <1>1, SetCopyTypeOK DEF Type
<1> QED BY <1>2 DEF DeleteCopy, ReclaimPending, Type

LEMMA TakeType == ASSUME Type, EncodeReconcile \/ Take PROVE Type'
<1>1. CASE EncodeReconcile
  <2>1. ListMissingEncodeProfiles \subseteq EncodeJobs
    BY LibraryAssumption
       DEF ListMissingEncodeProfiles, EncodeJobs, Rebuilds, Missing, Unencoded, Type, TypeOK
  <2> QED BY <1>1, <2>1 DEF EncodeReconcile, Type, TypeOK, library
<1>2. ASSUME NEW w \in Workers, NEW j \in EncodeJobs, Begin(w, j) PROVE Type'
  <2>1. j.profile \in Profiles /\ Prior(j.profile) \in 0..EncodeAttemptLimit
        /\ Prior(j.profile) + 1 \in 1..EncodeAttemptLimit
    BY <1>2, EncodeAssumption DEF Begin, Prior, EncodeJobs, Type, Rows
  <2>2. attempt' \in [Profiles -> {None} \cup Rows]
    BY <1>2, <2>1 DEF Begin, Start, Type, Rows
  <2>3. at' \in [Workers -> {Idle} \cup Runs]
    BY <1>2, <2>1 DEF Begin, Start, Type, Runs, Steps
  <2>4. faults' \in 0..MaxFaults /\ dead' \subseteq Workers
    BY <1>2, EncodeAssumption DEF Begin, Start, Died, Handed, Fault, Type
  <2>5. UNCHANGED <<library, objects, jobs, edits>>
    BY <1>2 DEF Begin
  <2> QED BY <2>2, <2>3, <2>4, <2>5 DEF Type, TypeOK, library
<1>3. ASSUME NEW w \in Workers, NEW j \in EncodeJobs, BeginTerminal(w, j) PROVE Type'
  <2>1. j.profile \in Profiles /\ attempt[j.profile] \in Rows
    BY <1>3, EncodeAssumption DEF BeginTerminal, Prior, EncodeJobs, Type
  <2>2. attempt' \in [Profiles -> {None} \cup Rows]
    BY <1>3, <2>1 DEF BeginTerminal, Type, Rows
  <2>3. faults' \in 0..MaxFaults /\ dead' \subseteq Workers
    BY <1>3, EncodeAssumption DEF BeginTerminal, Died, Handed, Fault, Type
  <2> QED BY <1>3, <2>2, <2>3 DEF BeginTerminal, Type, TypeOK, library
<1> QED BY <1>1, <1>2, <1>3 DEF Take

LEMMA AttemptType ==
  ASSUME Type, Planned, NEW w \in Workers, Attempt(w) \/ Breaks(w) \/ Crash(w)
  PROVE  Type'
<1> Working(w)
  BY DEF Attempt, ObservePlan, Reserve, Put, Publish, Drop, Finish, FailAttempt, RestoreAttempt,
     Breaks, Crash, Working
<1>w. /\ Profile(w) \in Profiles /\ at[w] \in Runs
      /\ at[w].count \in 1..EncodeAttemptLimit /\ at[w].prior \in 0..EncodeAttemptLimit
  BY WorkerType
<1>p. ASSUME at[w].step \in {"planned", "encoding", "put"}
      PROVE  /\ at[w].plan \in Jobs /\ Key(w) \in EncodedCopies
             /\ Key(w)[1] \in Profiles /\ Key(w)[2] \in Generations
  BY <1>p, WorkerType DEF Planned
<1>l. ASSUME UNCHANGED library PROVE TypeOK'
  BY <1>l DEF library, TypeOK, Type, Copies, EncodedCopies, Generations
<1>f. ASSUME Fault \/ UNCHANGED faults PROVE faults' \in 0..MaxFaults
  BY <1>f, EncodeAssumption DEF Fault, Type
<1>g. ASSUME NEW step \in Steps, Goto(w, step) PROVE at' \in [Workers -> {Idle} \cup Runs]
  BY <1>g, GotoType
<1>1. CASE ObservePlan(w)
  <2>1. PICK g \in Generations : LET plan == PlanOf(at[w].job, g) IN
           at' = [at EXCEPT
              ![w].plan = plan,
              ![w].step = IF Confirmed(plan) /\ ~Satisfied(plan) /\ Replaceable(plan)
                          THEN "planned" ELSE "done"]
    BY <1>1 DEF ObservePlan
  <2>2. PlanOf(at[w].job, g) \in Jobs
    BY <1>w DEF PlanOf, Jobs, Runs, EncodeJobs, Type, TypeOK, Profile
  <2>3. at'[w] \in Runs
    BY <1>w, <2>1, <2>2 DEF Runs, Steps, Type
  <2> QED BY <1>1, <1>l, <2>1, <2>3 DEF ObservePlan, Type
<1>2. CASE Reserve(w)
  <2>1. at' \in [Workers -> {Idle} \cup Runs]
    BY <1>2, <1>g DEF Reserve, Steps
  <2>2. TypeOK'
    BY <1>2, <1>p, <1>l, PreparePendingTypeOK DEF Reserve, Type
  <2> QED BY <1>2, <2>1, <2>2 DEF Reserve, Type
<1>3. CASE Put(w)
  <2>1. at' \in [Workers -> {Idle} \cup Runs]
    BY <1>3, <1>g DEF Put, Steps
  <2> QED BY <1>3, <1>p, <1>l, <2>1 DEF Put, Type
<1>4. CASE Publish(w)
  <2>1. at' \in [Workers -> {Idle} \cup Runs]
    BY <1>4, <1>g DEF Publish, Steps
  <2>2. TypeOK'
    BY <1>4, <1>p, PublishEncodedTypeOK DEF Publish, Type
  <2> QED BY <1>4, <1>f, <2>1, <2>2 DEF Publish, Type
<1>5. CASE Drop(w)
  <2>1. at' \in [Workers -> {Idle} \cup Runs]
    BY <1>5, <1>g DEF Drop, Steps
  <2> QED BY <1>5, <1>l, <2>1 DEF Drop, CleanUp, Type
<1>6. CASE Finish(w)
  <2>1. at' \in [Workers -> {Idle} \cup Runs]
    BY <1>6, LeaveType DEF Finish
  <2>2. attempt' \in [Profiles -> {None} \cup Rows]
    BY <1>6 DEF Finish, Type
  <2> QED BY <1>6, <1>l, <1>f, <2>1, <2>2 DEF Finish, StillDead, Type
<1>7. CASE FailAttempt(w)
  <2>1. at' \in [Workers -> {Idle} \cup Runs]
    BY <1>7, LeaveType DEF FailAttempt
  <2>2. attempt' \in [Profiles -> {None} \cup Rows]
    BY <1>7, <1>w DEF FailAttempt, Current, Rows, Type
  <2> QED BY <1>7, <1>l, <2>1, <2>2 DEF FailAttempt, Type
<1>8. CASE RestoreAttempt(w)
  <2>1. at' \in [Workers -> {Idle} \cup Runs]
    BY <1>8, LeaveType DEF RestoreAttempt
  <2>2. attempt' \in [Profiles -> {None} \cup Rows]
    BY <1>8, <1>w, EncodeAssumption DEF RestoreAttempt, Rows, Type
  <2> QED BY <1>8, <1>l, <2>1, <2>2 DEF RestoreAttempt, StillDead, Type
<1>9. CASE Breaks(w)
  <2>1. at' \in [Workers -> {Idle} \cup Runs]
    BY <1>9, <1>g DEF Breaks, Steps
  <2> QED BY <1>9, <1>l, <1>f, <2>1 DEF Breaks, CleanUp, Type
<1>10. CASE Crash(w)
  <2>1. at' \in [Workers -> {Idle} \cup Runs]
    BY <1>10, LeaveType DEF Crash
  <2> QED BY <1>10, <1>l, <1>f, <2>1 DEF Crash, Type
<1> QED
  BY <1>1, <1>2, <1>3, <1>4, <1>5, <1>6, <1>7, <1>8, <1>9, <1>10 DEF Attempt

LEMMA NextType == ASSUME Type, Planned, Next PROVE Type'
BY UserType, DeletionType, TakeType, AttemptType DEF Next

-----------------------------------------------------------------------------
(* The workers' plans, generations and counts. *)

(* What a step may do to the workers. *)
LEMMA Moves ==
  ASSUME Type, Next, NEW v \in Workers
  PROVE  \/ at'[v] = at[v]
         \/ at'[v] = Idle
         \/ \E j \in EncodeJobs : Begin(v, j)
         \/ ObservePlan(v)
         \/ /\ Working(v) /\ \E step \in Steps : at'[v] = [at[v] EXCEPT !.step = step]
            /\ at'[v].step \in {"encoding", "put", "done", "failing", "snoozed"}
            /\ at'[v].step = "encoding" => Reserve(v)
            /\ at'[v].step = "put" => at[v].step = "encoding"
<1>1. CASE UserEdit \/ EncodeReconcile \/ \E c \in Copies : DeleteCopy(c) \/ ReclaimPending(c)
  BY <1>1 DEF UserEdit, Edit, EncodeReconcile, DeleteCopy, ReclaimPending
<1>2. CASE Take
  BY <1>2 DEF Take, Begin, BeginTerminal, Start, Type
<1>3. ASSUME NEW w \in Workers, w # v, Attempt(w) \/ Breaks(w) \/ Crash(w)
      PROVE  at'[v] = at[v]
  BY <1>3 DEF Attempt, ObservePlan, Reserve, Put, Publish, Drop, Finish, FailAttempt,
     RestoreAttempt, Breaks, Crash, Goto, Leave, Type
<1>4. CASE Attempt(v) \/ Breaks(v) \/ Crash(v)
  <2>1. ASSUME NEW step \in Steps, Working(v), Goto(v, step)
        PROVE  at'[v] = [at[v] EXCEPT !.step = step] /\ at'[v].step = step
    BY <2>1, WorkerType DEF Goto, Type, Runs
  <2>2. CASE Reserve(v) \/ Put(v) \/ Publish(v) \/ Drop(v) \/ Breaks(v)
    <3>1. Working(v)
      BY <2>2 DEF Reserve, Put, Publish, Drop, Breaks, Working
    <3>2. CASE Reserve(v)
      BY <2>1, <3>1, <3>2 DEF Reserve, Steps
    <3>3. CASE Put(v)
      BY <2>1, <3>1, <3>3 DEF Put, Steps
    <3>4. CASE Publish(v) \/ Drop(v) \/ Breaks(v)
      BY <2>1, <3>1, <3>4 DEF Publish, Drop, Breaks, Steps
    <3> QED BY <2>2, <3>2, <3>3, <3>4
  <2>3. CASE Finish(v) \/ FailAttempt(v) \/ RestoreAttempt(v) \/ Crash(v)
    BY <2>3 DEF Finish, FailAttempt, RestoreAttempt, Crash, Leave, Type
  <2> QED BY <1>4, <2>2, <2>3 DEF Attempt
<1> QED BY <1>1, <1>2, <1>3, <1>4 DEF Next

LEMMA BeginsAs ==
  ASSUME Type, NEW w \in Workers, NEW j \in EncodeJobs, Begin(w, j)
  PROVE  /\ ~Working(w) /\ at'[w].step = "begun" /\ at'[w].job = j
         /\ at'[w].count = Prior(j.profile) + 1 /\ at'[w].prior = Prior(j.profile)
BY DEF Begin, Handed, Start, Type

LEMMA ObservesAs ==
  ASSUME Type, NEW w \in Workers, ObservePlan(w)
  PROVE  /\ Working(w) /\ at'[w].step \in {"planned", "done"} /\ at'[w].plan \in Jobs
         /\ at'[w].job = at[w].job /\ at'[w].count = at[w].count /\ at'[w].prior = at[w].prior
<1>1. PICK g \in Generations : LET plan == PlanOf(at[w].job, g) IN
         at' = [at EXCEPT
            ![w].plan = plan,
            ![w].step = IF Confirmed(plan) /\ ~Satisfied(plan) /\ Replaceable(plan)
                        THEN "planned" ELSE "done"]
  BY DEF ObservePlan
<1>2. Working(w) /\ at[w] \in Runs
  BY WorkerType DEF ObservePlan, Working
<1>3. PlanOf(at[w].job, g) \in Jobs
  BY <1>2 DEF PlanOf, Jobs, Runs, EncodeJobs, Type, TypeOK, Profile
<1> QED BY <1>1, <1>2, <1>3 DEF Runs, Type

LEMMA PlannedKept == ASSUME Type, Planned, Next PROVE Planned'
<1> SUFFICES ASSUME NEW v \in Workers, at'[v].step \in {"planned", "encoding", "put"}
             PROVE  at'[v].plan # None
  BY DEF Planned
<1>1. CASE at'[v] = at[v]
  BY <1>1 DEF Planned
<1>2. CASE at'[v] = Idle
  BY <1>2 DEF Idle
<1>3. CASE \E j \in EncodeJobs : Begin(v, j)
  BY <1>3, BeginsAs
<1>4. CASE ObservePlan(v)
  BY <1>4, ObservesAs, EncodeAssumption
<1>5. CASE /\ Working(v) /\ \E step \in Steps : at'[v] = [at[v] EXCEPT !.step = step]
           /\ at'[v].step \in {"encoding", "put", "done", "failing", "snoozed"}
           /\ at'[v].step = "encoding" => Reserve(v)
           /\ at'[v].step = "put" => at[v].step = "encoding"
  <2>1. at[v].step \in {"planned", "encoding"}
    BY <1>5 DEF Reserve
  <2>2. at'[v].plan = at[v].plan
    BY <1>5, WorkerType DEF Runs
  <2> QED BY <2>1, <2>2 DEF Planned
<1> QED BY <1>1, <1>2, <1>3, <1>4, <1>5, Moves

LEMMA CountedKept == ASSUME Type, Counted, Next PROVE Counted'
<1> SUFFICES ASSUME NEW v \in Workers, Working(v)' PROVE at'[v].count = at'[v].prior + 1
  BY DEF Counted, Working
<1>1. CASE at'[v] = at[v]
  BY <1>1 DEF Counted, Working
<1>2. CASE at'[v] = Idle
  BY <1>2 DEF Idle, Working
<1>3. CASE \E j \in EncodeJobs : Begin(v, j)
  BY <1>3, BeginsAs
<1>4. CASE ObservePlan(v)
  BY <1>4, ObservesAs DEF Counted
<1>5. CASE Working(v) /\ \E step \in Steps : at'[v] = [at[v] EXCEPT !.step = step]
  BY <1>5, WorkerType DEF Runs, Counted
<1> QED BY <1>1, <1>2, <1>3, <1>4, <1>5, Moves

(* A row is never taken back: its generation stays used. *)
LEMMA RowsStay ==
  ASSUME Type, Planned, Next, NEW c \in Copies, copy[c] # "none"
  PROVE  copy'[c] # "none"
<1>1. CASE UserEdit
  BY <1>1, UserKeepsCopies DEF UserEdit, Edit
<1>2. ASSUME NEW d \in Copies, DeleteCopy(d) \/ ReclaimPending(d) PROVE copy'[c] # "none"
  BY <1>2 DEF DeleteCopy, ReclaimPending, SetCopy, Type, TypeOK
<1>3. CASE EncodeReconcile \/ Take
  BY <1>3 DEF EncodeReconcile, Take, Begin, BeginTerminal, library
<1>4. ASSUME NEW w \in Workers, Attempt(w) \/ Breaks(w) \/ Crash(w) PROVE copy'[c] # "none"
  <2>1. CASE UNCHANGED library
    BY <2>1 DEF library
  <2>2. CASE PreparePending(Key(w)[1], Key(w)[2]) \/ PublishEncoded(at[w].plan)
    BY <2>2 DEF PreparePending, PublishEncoded, Type, TypeOK
  <2> QED BY <1>4, <2>1, <2>2 DEF Attempt, ObservePlan, Reserve, Put, Publish, Drop, Finish,
             FailAttempt, RestoreAttempt, Breaks, Crash
<1> QED BY <1>1, <1>2, <1>3, <1>4 DEF Next

LEMMA HoldsAs ==
  ASSUME Type, Planned, Next, NEW v \in Workers, Holds(v)'
  PROVE  /\ Key(v)' = Key(v) /\ Key(v) \in Copies
         /\ \/ Holds(v)
            \/ Reserve(v) /\ PreparePending(Key(v)[1], Key(v)[2])
<1>1. CASE at'[v] = at[v]
  <2>1. Holds(v) /\ Working(v)
    BY <1>1 DEF Holds, Working
  <2> QED BY <1>1, <2>1, WorkerType DEF Holds, Key, Planned, Copies
<1>2. CASE at'[v] = Idle
  BY <1>2 DEF Idle, Holds
<1>3. CASE \E j \in EncodeJobs : Begin(v, j)
  BY <1>3, BeginsAs DEF Holds
<1>4. CASE ObservePlan(v)
  BY <1>4, ObservesAs DEF Holds
<1>5. CASE /\ Working(v) /\ \E step \in Steps : at'[v] = [at[v] EXCEPT !.step = step]
           /\ at'[v].step \in {"encoding", "put", "done", "failing", "snoozed"}
           /\ at'[v].step = "encoding" => Reserve(v)
           /\ at'[v].step = "put" => at[v].step = "encoding"
  <2>1. at[v].step \in {"planned", "encoding"}
    BY <1>5 DEF Reserve, Holds
  <2>2. at'[v].plan = at[v].plan
    BY <1>5, WorkerType DEF Runs
  <2>3. Key(v) \in Copies
    BY <1>5, <2>1, WorkerType DEF Planned, Copies
  <2>4. ASSUME Reserve(v), at'[v].step = "encoding"
        PROVE  PreparePending(Key(v)[1], Key(v)[2])
    <3>1. at[v] \in Runs
      BY <1>5, WorkerType
    <3>2. \A step \in Steps : Goto(v, step) => at'[v].step = step
      BY <3>1 DEF Goto, Type, Runs
    <3> QED BY <2>4, <3>2 DEF Reserve, Steps
  <2> QED BY <1>5, <2>2, <2>3, <2>4 DEF Holds, Key
<1> QED BY <1>1, <1>2, <1>3, <1>4, <1>5, Moves

LEMMA OwnedKept == ASSUME Type, Planned, Owned, Next PROVE Owned'
<1>1. ASSUME NEW v \in Workers, Reserve(v), PreparePending(Key(v)[1], Key(v)[2])
      PROVE  copy[Key(v)] = "none" /\ copy'[Key(v)] = "pending"
  <2>1. /\ Key(v)[1] \in Profiles /\ Key(v)[2] \in Generations
        /\ Key(v) = <<Key(v)[1], Key(v)[2]>>
    BY <1>1, WorkerType DEF Reserve, Working, Planned, Key
  <2> QED BY <1>1, <2>1, ReservesUnused DEF Type
<1>2. ASSUME NEW w \in Workers, Holds(w)' PROVE (copy[Key(w)] # "none")'
  BY <1>1, <1>2, HoldsAs, RowsStay DEF Owned
<1>3. ASSUME NEW v \in Workers, NEW w \in Workers, v # w, Holds(v)', Holds(w)'
      PROVE  Key(v)' # Key(w)'
  <2>1. CASE Holds(v) /\ Holds(w)
    BY <1>3, <2>1, HoldsAs DEF Owned
  <2>2. ASSUME NEW x \in Workers, NEW y \in Workers, x # y, Holds(y)',
               Reserve(x), PreparePending(Key(x)[1], Key(x)[2])
        PROVE  Key(x) # Key(y)
    <3>1. at'[y] = at[y]
      BY <2>2 DEF Reserve, Goto, Type
    <3>2. Holds(y)
      BY <2>2, <3>1 DEF Holds
    <3> QED BY <1>1, <2>2, <3>2 DEF Owned
  <2> QED BY <1>3, <2>1, <2>2, HoldsAs
<1> QED BY <1>2, <1>3 DEF Owned

LEMMA DeadBehindKept ==
  ASSUME Type, Planned, Counted, DeadBehind, Next
  PROVE  DeadBehind'
<1> DEFINE Behind(v) == /\ attempt[Profile(v)] # None
                        /\ \/ at[v].count < attempt[Profile(v)].count
                           \/ /\ at[v].count = attempt[Profile(v)].count
                              /\ attempt[Profile(v)].state = "failed"
<1>t. attempt \in [Profiles -> {None} \cup Rows]
  BY DEF Type
<1>1. ASSUME dead' \subseteq dead, UNCHANGED <<at, attempt>> PROVE DeadBehind'
  BY <1>1 DEF DeadBehind, Working, Profile
<1>2. CASE UserEdit
  <2>1. dead' = StillDead /\ at' = at
    BY <1>2 DEF UserEdit, Edit
  <2>2. ASSUME NEW v \in dead', Working(v)' PROVE Behind(v)'
    <3>1. v \in dead /\ Working(v) /\ attempt'[Profile(v)] # None /\ v \in Workers
      BY <2>1, <2>2 DEF StillDead, Working, Profile, Type
    <3>2. attempt'[Profile(v)] = attempt[Profile(v)]
      BY <1>2, <1>t, <3>1, WorkerType DEF UserEdit, Edit, Reset
    <3> QED BY <2>1, <3>1, <3>2 DEF DeadBehind, Profile
  <2> QED BY <2>2 DEF DeadBehind
<1>3. CASE EncodeReconcile \/ \E c \in Copies : DeleteCopy(c) \/ ReclaimPending(c)
  BY <1>1, <1>3 DEF EncodeReconcile, DeleteCopy, ReclaimPending
<1>4. ASSUME NEW w \in Workers, NEW j \in EncodeJobs, Begin(w, j) PROVE DeadBehind'
  <2>1. /\ attempt' = [attempt EXCEPT ![j.profile] =
                          [state |-> "running", count |-> Prior(j.profile) + 1]]
        /\ dead' = (dead \cup Died(j.profile)) \ {w}
        /\ \A v \in Workers \ {w} : at'[v] = at[v]
    BY <1>4 DEF Begin, Start, Type
  <2>2. j.profile \in Profiles /\ Prior(j.profile) \in 0..EncodeAttemptLimit
        /\ Prior(j.profile) + 1 \in 1..EncodeAttemptLimit
    BY <1>4, EncodeAssumption DEF Begin, Prior, EncodeJobs, Type, Rows
  <2>3. ASSUME NEW v \in dead', Working(v)' PROVE Behind(v)'
    <3>1. v \in Workers /\ v # w /\ at'[v] = at[v] /\ Working(v) /\ Profile(v)' = Profile(v)
      BY <2>1, <2>3 DEF Died, Working, Profile, Type
    <3>2. Profile(v) \in Profiles /\ at[v].count \in 1..EncodeAttemptLimit
      BY <3>1, WorkerType
    <3>3. CASE Profile(v) # j.profile
      <4>1. v \in dead /\ attempt'[Profile(v)] = attempt[Profile(v)]
        BY <1>t, <2>1, <2>3, <3>2, <3>3 DEF Died
      <4> QED BY <3>1, <4>1 DEF DeadBehind
    <3>4. CASE Profile(v) = j.profile
      <4>1. attempt'[Profile(v)] = [state |-> "running", count |-> Prior(j.profile) + 1]
        BY <1>t, <2>1, <2>2, <3>4
      <4>2. attempt[Profile(v)] # None /\ at[v].count <= attempt[Profile(v)].count
        <5>1. CASE v \in dead
          BY <1>t, <3>1, <3>2, <5>1 DEF DeadBehind, Rows
        <5>2. CASE v \in Died(j.profile)
          <6>1. attempt[Profile(v)] = [state |-> "running", count |-> at[v].count]
            BY <5>2 DEF Died, Current
          <6>2. attempt[Profile(v)] \in Rows
            BY <3>2, <6>1 DEF Rows
          <6> QED BY <3>2, <6>1, <6>2, EncodeAssumption DEF Rows
        <5> QED BY <2>1, <2>3, <5>1, <5>2
      <4>3. at[v].count < attempt'[Profile(v)].count
        BY <1>t, <2>2, <3>2, <3>4, <4>1, <4>2 DEF Prior, Rows
      <4>4. attempt'[Profile(v)] # None
        BY <2>2, <4>1, EncodeAssumption DEF Rows
      <4> QED BY <3>1, <4>3, <4>4
    <3> QED BY <3>3, <3>4
  <2> QED BY <2>3 DEF DeadBehind
<1>5. ASSUME NEW w \in Workers, NEW j \in EncodeJobs, BeginTerminal(w, j) PROVE DeadBehind'
  <2>1. /\ attempt' = [attempt EXCEPT ![j.profile].state = "failed"]
        /\ dead' = dead \cup Died(j.profile) /\ at' = at
    BY <1>5 DEF BeginTerminal
  <2>2. j.profile \in Profiles /\ attempt[j.profile] \in Rows
    BY <1>5, EncodeAssumption DEF BeginTerminal, Prior, EncodeJobs, Type
  <2>3. attempt'[j.profile] = [state |-> "failed", count |-> attempt[j.profile].count]
    BY <1>t, <2>1, <2>2 DEF Rows
  <2>4. attempt'[j.profile] # None
    BY <2>2, <2>3, EncodeAssumption DEF Rows
  <2>5. ASSUME NEW v \in dead', Working(v)' PROVE Behind(v)'
    <3>1. v \in Workers /\ Working(v) /\ Profile(v)' = Profile(v) /\ at'[v] = at[v]
      BY <2>1, <2>5 DEF Died, Working, Profile, Type
    <3>2. Profile(v) \in Profiles
      BY <3>1, WorkerType
    <3>3. CASE Profile(v) # j.profile
      <4>1. v \in dead /\ attempt'[Profile(v)] = attempt[Profile(v)]
        BY <1>t, <2>1, <2>5, <3>2, <3>3 DEF Died
      <4> QED BY <3>1, <4>1 DEF DeadBehind
    <3>4. CASE Profile(v) = j.profile
      <4>1. CASE v \in dead
        BY <2>3, <2>4, <3>1, <3>4, <4>1 DEF DeadBehind
      <4>2. CASE v \in Died(j.profile)
        BY <2>3, <2>4, <3>1, <3>4, <4>2 DEF Died, Current
      <4> QED BY <2>1, <2>5, <4>1, <4>2
    <3> QED BY <3>3, <3>4
  <2> QED BY <2>5 DEF DeadBehind
<1>6. ASSUME NEW w \in Workers, Finish(w) \/ FailAttempt(w) \/ RestoreAttempt(w)
      PROVE  DeadBehind'
  <2>1. /\ Working(w) /\ at[w] \in Runs /\ Profile(w) \in Profiles
        /\ at[w].count \in 1..EncodeAttemptLimit /\ at[w].prior \in 0..EncodeAttemptLimit
        /\ at[w].count = at[w].prior + 1
    BY <1>6, WorkerType DEF Finish, FailAttempt, RestoreAttempt, Working, Counted
  <2>2. at'[w] = Idle /\ \A v \in Workers \ {w} : at'[v] = at[v]
    BY <1>6 DEF Finish, FailAttempt, RestoreAttempt, Leave, Type
  <2>3. dead' \subseteq dead
    BY <1>6 DEF Finish, FailAttempt, RestoreAttempt, StillDead
  <2>4. ASSUME NEW v \in dead', Working(v)' PROVE Behind(v)'
    <3>1. v \in dead /\ v \in Workers /\ v # w /\ at'[v] = at[v] /\ Profile(v)' = Profile(v)
          /\ Working(v)
      BY <2>2, <2>3, <2>4 DEF Working, Profile, Idle, Type
    <3>2. Behind(v) /\ Profile(v) \in Profiles /\ at[v].count \in 1..EncodeAttemptLimit
      BY <3>1, WorkerType DEF DeadBehind
    <3>3. CASE attempt'[Profile(v)] = attempt[Profile(v)]
      BY <3>1, <3>2, <3>3
    <3>4. CASE attempt'[Profile(v)] # attempt[Profile(v)]
      <4>1. Profile(v) = Profile(w) /\ Current(w)
        BY <1>6, <1>t, <2>1, <3>2, <3>4 DEF Finish, FailAttempt, RestoreAttempt
      <4>2. at[v].count < at[w].count
        BY <3>2, <4>1 DEF Current
      <4>3. CASE Finish(w)
        <5>1. attempt'[Profile(v)] = None
          BY <1>t, <2>1, <3>4, <4>1, <4>3 DEF Finish
        <5>2. dead' = StillDead
          BY <4>3 DEF Finish
        <5> QED BY <2>4, <3>1, <5>1, <5>2 DEF StillDead, Profile
      <4>4. CASE FailAttempt(w)
        <5>1. attempt'[Profile(v)] = [state |-> "failed", count |-> at[w].count]
          BY <1>t, <2>1, <4>1, <4>4 DEF FailAttempt, Current
        <5>2. attempt'[Profile(v)] # None
          BY <2>1, <5>1, EncodeAssumption DEF Rows
        <5> QED BY <3>1, <4>2, <5>1, <5>2
      <4>5. CASE RestoreAttempt(w)
        <5>1. CASE at[w].prior = 0
          BY <2>1, <3>2, <4>2, <5>1
        <5>2. CASE at[w].prior # 0
          <6>1. attempt'[Profile(v)] = [state |-> "failed", count |-> at[w].prior]
            BY <1>t, <2>1, <4>1, <4>5, <5>2 DEF RestoreAttempt
          <6>2. attempt'[Profile(v)] # None
            BY <2>1, <5>2, <6>1, EncodeAssumption DEF Rows
          <6>3. at[v].count < at[w].prior \/ at[v].count = at[w].prior
            BY <2>1, <3>2, <4>2
          <6> QED BY <3>1, <6>1, <6>2, <6>3
        <5> QED BY <5>1, <5>2
      <4> QED BY <1>6, <4>3, <4>4, <4>5
    <3> QED BY <3>3, <3>4
  <2> QED BY <2>4 DEF DeadBehind
<1>7. ASSUME NEW w \in Workers,
             \/ ObservePlan(w) \/ Reserve(w) \/ Put(w) \/ Publish(w) \/ Drop(w)
             \/ Breaks(w) \/ Crash(w)
      PROVE  DeadBehind'
  <2>1. dead' = dead /\ attempt' = attempt
    BY <1>7 DEF ObservePlan, Reserve, Put, Publish, Drop, Breaks, Crash
  <2>2. ASSUME NEW v \in Workers, Working(v)'
        PROVE  Working(v) /\ at'[v].job = at[v].job /\ at'[v].count = at[v].count
    <3>1. CASE at'[v] = at[v]
      BY <2>2, <3>1 DEF Working
    <3>2. CASE at'[v] = Idle
      BY <2>2, <3>2 DEF Working, Idle
    <3>3. CASE \E j \in EncodeJobs : Begin(v, j)
      <4>1. at'[v] # at[v] /\ ~Working(v)
        BY <3>3, BeginsAs DEF Working
      <4> QED BY <1>7, <4>1 DEF ObservePlan, Reserve, Put, Publish, Drop, Breaks, Crash, Goto,
                 Leave, Working, Type
    <3>4. CASE ObservePlan(v)
      BY <3>4, ObservesAs
    <3>5. CASE Working(v) /\ \E step \in Steps : at'[v] = [at[v] EXCEPT !.step = step]
      BY <3>5, WorkerType DEF Runs
    <3> QED BY <3>1, <3>2, <3>3, <3>4, <3>5, Moves
  <2> QED BY <2>1, <2>2 DEF DeadBehind, Profile, Type
<1> QED BY <1>2, <1>3, <1>4, <1>5, <1>6, <1>7 DEF Next, Take, Attempt

-----------------------------------------------------------------------------
(* The theorems. *)

LEMMA InvariantInitially == Init => EncodeInvariant
<1> SUFFICES ASSUME Init PROVE EncodeInvariant
  OBVIOUS
<1>1. TypeOK
  BY LibraryAssumption, EncodeAssumption DEF Init, TypeOK, Copies, EncodedCopies, Generations
<1>2. Type
  BY <1>1, EncodeAssumption DEF Init, Type
<1> QED BY <1>2 DEF Init, EncodeInvariant, Planned, Owned, Holds, Counted, DeadBehind, Working, Idle

LEMMA InvariantKept == EncodeInvariant /\ [Next]_vars => EncodeInvariant'
<1> SUFFICES ASSUME EncodeInvariant, [Next]_vars PROVE EncodeInvariant'
  OBVIOUS
<1>1. CASE Next
  BY <1>1, NextType, PlannedKept, OwnedKept, CountedKept, DeadBehindKept DEF EncodeInvariant
<1>2. CASE UNCHANGED vars
  <2>1. Type'
    BY <1>2 DEF EncodeInvariant, Type, TypeOK, vars, library, Copies, EncodedCopies, Generations
  <2> QED BY <1>2, <2>1 DEF EncodeInvariant, Planned, Owned, Holds, Counted, DeadBehind, Working,
             Profile, Key, vars, library
<1> QED BY <1>1, <1>2

(* The tables, the queue and the workers are well typed, and no attempt counts
   beyond the limit (Begin of encodeattempts.go). *)
THEOREM TypeCorrect == Spec => []Type
<1>1. EncodeInvariant => Type
  BY DEF EncodeInvariant
<1> QED BY <1>1, InvariantInitially, InvariantKept, PTL DEF Spec

(* The invariant itself: reserved generations are owned, and dead attempts are
   behind the row that counts them. *)
THEOREM InvariantHolds == Spec => []EncodeInvariant
BY InvariantInitially, InvariantKept, PTL DEF Spec

LEMMA CutsAs ==
  ASSUME Type, Planned, [Next]_vars, NEW p \in Profiles, cut'[p] # cut[p]
  PROVE  \E w \in Workers : /\ Publish(w) /\ at[w].plan \in Jobs
                            /\ at[w].plan.profile = p /\ cut'[p] = at[w].plan.keep
                            /\ p \in CutProfiles
<1>1. CASE UserEdit
  BY <1>1, UserKeepsCopies DEF UserEdit, Edit
<1>2. ASSUME NEW c \in Copies, DeleteCopy(c) \/ ReclaimPending(c) PROVE FALSE
  BY <1>2 DEF DeleteCopy, ReclaimPending, SetCopy
<1>3. CASE EncodeReconcile \/ Take \/ UNCHANGED vars
  BY <1>3 DEF EncodeReconcile, Take, Begin, BeginTerminal, library, vars
<1>4. ASSUME NEW w \in Workers, Attempt(w) \/ Breaks(w) \/ Crash(w), ~Publish(w) PROVE FALSE
  BY <1>4 DEF Attempt, ObservePlan, Reserve, Put, Drop, Finish, FailAttempt, RestoreAttempt,
     Breaks, Crash, PreparePending, library
<1>5. ASSUME NEW w \in Workers, Publish(w)
      PROVE  /\ at[w].plan \in Jobs /\ at[w].plan.profile = p /\ cut'[p] = at[w].plan.keep
             /\ p \in CutProfiles
  <2>1. at[w].plan \in Jobs
    BY <1>5, WorkerType DEF Publish, Planned, Working
  <2>2. cut \in [Profiles -> Keeps \cup {None}]
    BY DEF Type, TypeOK
  <2> QED BY <1>5, <2>1, <2>2 DEF Publish, PublishEncoded, Jobs
<1> QED BY <1>1, <1>2, <1>3, <1>4, <1>5 DEF Next

(* A version is cut to the ranges that its rebuild asks for, or else is the
   first one and cut to the ranges of the chapters, as they are when it is
   published (PublishEncoded, PlanEncodedPublish). *)
THEOREM ConfirmedOnly == Spec => OnlyConfirmed
<1>1. ASSUME EncodeInvariant, [Next]_vars, NEW p \in Profiles, cut'[p] # cut[p]
      PROVE  cut'[p] = rebuild[p] \/ (cut'[p] = chapters /\ ~Active(p))
  <2>1. PICK w \in Workers : /\ Publish(w) /\ at[w].plan \in Jobs
                             /\ at[w].plan.profile = p /\ cut'[p] = at[w].plan.keep
                             /\ p \in CutProfiles
    BY <1>1, CutsAs DEF EncodeInvariant
  <2>2. Confirmed(at[w].plan) /\ Replaceable(at[w].plan)
    BY <2>1 DEF Publish, PublishEncoded, Publishable
  <2> QED BY <2>1, <2>2 DEF Confirmed, Replaceable
<1>2. EncodeInvariant /\ [Next]_vars =>
        [\A p \in Profiles : cut'[p] # cut[p] =>
           cut'[p] = rebuild[p] \/ (cut'[p] = chapters /\ ~Active(p))]_vars
  BY <1>1
<1> QED BY <1>2, InvariantHolds, PTL DEF Spec, OnlyConfirmed

(* A version stays current while another is made; only the deletion of its copy
   ends that (PreparePendingMediaAssetCopy, UpsertDerivedMediaAsset). *)
THEOREM ViewableStays == Spec => StaysViewable
<1>1. ASSUME EncodeInvariant, [Next]_vars, NEW p \in Profiles, Active(p)
      PROVE  Active(p)' \/ copy'[<<p, generation[p]>>] = "deleted"
  <2>t. /\ Type /\ Planned /\ copy \in [Copies -> {"none", "pending", "active", "deleting", "deleted"}]
        /\ generation \in [Profiles -> 0..MaxGeneration]
    BY <1>1 DEF EncodeInvariant, Type, TypeOK
  <2>c. generation[p] \in Generations /\ <<p, generation[p]>> \in Copies
    BY <1>1, <2>t, LibraryAssumption DEF Active, Generations, Copies, EncodedCopies
  <2>1. CASE UserEdit
    BY <1>1, <2>1, UserKeepsCopies DEF UserEdit, Edit, Active
  <2>2. ASSUME NEW c \in Copies, DeleteCopy(c) \/ ReclaimPending(c)
        PROVE  Active(p)' \/ copy'[<<p, generation[p]>>] = "deleted"
    BY <1>1, <2>2, <2>t, <2>c DEF DeleteCopy, ReclaimPending, SetCopy, Active
  <2>3. CASE UNCHANGED library
    BY <1>1, <2>3 DEF library, Active
  <2>4. ASSUME NEW q \in Profiles, NEW g \in Generations, PreparePending(q, g)
        PROVE  Active(p)'
    <3>1. copy[<<q, g>>] = "none"
      BY <2>t, <2>4, ReservesUnused DEF Type
    <3>2. generation'[p] = generation[p]
      BY <1>1, <2>t, <2>4 DEF PreparePending, Active
    <3>3. copy'[<<p, generation[p]>>] = "active"
      BY <1>1, <2>t, <2>c, <2>4, <3>1 DEF PreparePending, Active
    <3> QED BY <1>1, <3>2, <3>3 DEF Active
  <2>5. ASSUME NEW plan \in Jobs, PublishEncoded(plan) PROVE Active(p)'
    <3>1. plan.profile \in Profiles /\ plan.generation \in Generations /\ plan.generation # 0
          /\ <<plan.profile, plan.generation>> \in Copies
      BY LibraryAssumption DEF Jobs, Generations, Copies, EncodedCopies
    <3>2. CASE plan.profile = p
      BY <2>t, <2>5, <3>1, <3>2 DEF PublishEncoded, Active
    <3>3. CASE plan.profile # p
      BY <1>1, <2>t, <2>c, <2>5, <3>1, <3>3 DEF PublishEncoded, Active
    <3> QED BY <3>2, <3>3
  <2>6. ASSUME NEW w \in Workers, Attempt(w) \/ Breaks(w) \/ Crash(w)
        PROVE  Active(p)' \/ copy'[<<p, generation[p]>>] = "deleted"
    <3>1. CASE Reserve(w)
      BY <2>t, <2>3, <2>4, <3>1, WorkerType DEF Reserve, Planned, Working
    <3>2. CASE Publish(w)
      BY <2>t, <2>5, <3>2, WorkerType DEF Publish, Planned, Working
    <3> QED BY <2>3, <2>6, <3>1, <3>2 DEF Attempt, ObservePlan, Put, Drop, Finish, FailAttempt,
               RestoreAttempt, Breaks, Crash
  <2>7. CASE EncodeReconcile \/ Take \/ UNCHANGED vars
    BY <2>3, <2>7 DEF EncodeReconcile, Take, Begin, BeginTerminal, vars, library
  <2> QED BY <1>1, <2>1, <2>2, <2>6, <2>7 DEF Next
<1>2. EncodeInvariant /\ [Next]_vars =>
        [\A p \in Profiles : Active(p) =>
           Active(p)' \/ copy'[<<p, generation[p]>>] = "deleted"]_vars
  BY <1>1
<1> QED BY <1>2, InvariantHolds, PTL DEF Spec, StaysViewable

(* An attempt that has been declared dead publishes nothing as long as the row
   that counts the attempts is there (PublishEncoded). *)
THEOREM DeadIsSilent == Spec => DeadNeverPublishes
<1>1. ASSUME EncodeInvariant, [Next]_vars, NEW w \in dead, at[w].step = "put",
             copy[Key(w)] # "active"
      PROVE  copy'[Key(w)] # "active"
  <2>t. /\ Type /\ Planned /\ copy \in [Copies -> {"none", "pending", "active", "deleting", "deleted"}]
        /\ w \in Workers /\ Working(w)
    BY <1>1 DEF EncodeInvariant, Type, TypeOK, Working
  <2>c. Key(w) \in Copies
    BY <1>1, <2>t, WorkerType DEF Planned, Copies
  <2>1. ~Current(w)
    <3>1. \/ at[w].count < attempt[Profile(w)].count
          \/ attempt[Profile(w)].state = "failed"
      BY <1>1, <2>t DEF EncodeInvariant, DeadBehind
    <3>2. at[w].count \in 1..EncodeAttemptLimit
      BY <2>t, WorkerType
    <3> QED BY <3>1, <3>2 DEF Current
  <2>2. CASE UserEdit
    BY <1>1, <2>2, UserKeepsCopies DEF UserEdit, Edit
  <2>3. ASSUME NEW c \in Copies, DeleteCopy(c) \/ ReclaimPending(c) PROVE copy'[Key(w)] # "active"
    BY <1>1, <2>3, <2>t, <2>c DEF DeleteCopy, ReclaimPending, SetCopy
  <2>4. CASE UNCHANGED library
    BY <1>1, <2>4 DEF library
  <2>5. ASSUME NEW v \in Workers, Attempt(v) \/ Breaks(v) \/ Crash(v)
        PROVE  copy'[Key(w)] # "active"
    <3>1. CASE Reserve(v)
      BY <1>1, <2>t, <2>c, <2>4, <3>1 DEF Reserve, PreparePending
    <3>2. CASE Publish(v)
      <4>1. v # w
        BY <2>1, <3>2 DEF Publish
      <4>2. Key(v) # Key(w)
        BY <1>1, <2>t, <3>2, <4>1 DEF EncodeInvariant, Owned, Holds, Publish
      <4> QED BY <1>1, <2>t, <2>c, <3>2, <4>2 DEF Publish, PublishEncoded, Key
    <3> QED BY <2>4, <2>5, <3>1, <3>2 DEF Attempt, ObservePlan, Put, Drop, Finish, FailAttempt,
               RestoreAttempt, Breaks, Crash
  <2>6. CASE EncodeReconcile \/ Take \/ UNCHANGED vars
    BY <2>4, <2>6 DEF EncodeReconcile, Take, Begin, BeginTerminal, vars, library
  <2> QED BY <1>1, <2>2, <2>3, <2>5, <2>6 DEF Next
<1>2. EncodeInvariant /\ [Next]_vars =>
        [\A w \in dead : at[w].step = "put" =>
           copy[Key(w)] = "active" \/ copy'[Key(w)] # "active"]_vars
  BY <1>1
<1> QED BY <1>2, InvariantHolds, PTL DEF Spec, DeadNeverPublishes

=============================================================================
