-------------------------------- MODULE Library --------------------------------
(***************************************************************************)
(* One recording in the library: its original and its encoded versions,    *)
(* what the user has asked for, and the named predicates of the schema     *)
(* that say what may be encoded and what may be deleted.  The transactions *)
(* are those of the stores; the jobs that call them, and the files, are in *)
(* the modules that extend this one.                                       *)
(*                                                                         *)
(* Recordings share only the circuit breaker and the pass, so one is       *)
(* enough.  There is one store, and no file vanishes by itself.  A         *)
(* recording without a policy row is one that keeps its original and wants *)
(* no profile.  Generations count from 1: 0 is a profile without a row.    *)
(***************************************************************************)
EXTENDS Naturals, Sequences, FiniteSets

CONSTANTS
    Profiles, CutProfiles,  \* the encode profiles, and those that are cut
    Keeps,                  \* the ranges that a user may want to keep
    Original, None,
    MaxGeneration           \* bound: generations of a profile

ASSUME LibraryAssumption ==
    /\ CutProfiles \subseteq Profiles
    /\ None \notin Keeps /\ MaxGeneration \in Nat \ {0}
    /\ Original \notin Profiles \X (1..MaxGeneration)

VARIABLES
    recording,      \* its row: in the trash, beyond the time of grace, to be
                    \* deleted at once, and deleted for good
    policy,         \* the profiles wanted and whether the original stays
    removal,        \* profiles whose version the user has removed
    rebuild,        \* rebuild[p]: the ranges a user wants version p to have
    chapters,       \* the ranges that the user's chapters keep
    ready,          \* thumbnail, seek tiles, scan and asked detection are done
    copy,           \* copy[c]: the state of a copy's row
    generation,     \* generation[p]: the current one of version p
    cut,            \* cut[p]: the ranges that current version has
    recent          \* profiles whose current generation is within the overlap

library == <<recording, policy, removal, rebuild, chapters, ready, copy, generation,
             cut, recent>>

Generations == 1..MaxGeneration
EncodedCopies == Profiles \X Generations
Copies == {Original} \cup EncodedCopies

TypeOK ==
    /\ recording \in [trashed : BOOLEAN, aged : BOOLEAN, purge : BOOLEAN, purged : BOOLEAN]
    /\ recording.aged \/ recording.purge \/ recording.purged => recording.trashed
    /\ policy \in [desired : SUBSET Profiles, keep : {"always", "until_encoded"}]
    /\ removal \subseteq Profiles
    /\ rebuild \in [Profiles -> Keeps \cup {None}]
    /\ chapters \in Keeps \cup {None}
    /\ ready \in BOOLEAN
    /\ copy \in [Copies -> {"none", "pending", "active", "deleting", "deleted"}]
    /\ generation \in [Profiles -> 0..MaxGeneration]
    /\ cut \in [Profiles -> Keeps \cup {None}]
    /\ recent \subseteq Profiles

-----------------------------------------------------------------------------
(* The named predicates. *)

Active(p) == generation[p] # 0 /\ copy[<<p, generation[p]>>] = "active"

HasOriginal == copy[Original] = "active"

Encodable == ~recording.trashed /\ HasOriginal

(* A rebuild is wanted and the current version is not the one. *)
Unsatisfied(p) ==
    rebuild[p] # None /\ Encodable /\ ~(Active(p) /\ cut[p] = rebuild[p])

Unencoded == {p \in policy.desired : ~Active(p)}

TrashDeletable == recording.trashed /\ (recording.purge \/ recording.aged)

(* Mutant: a version that is not made yet is not waited for. *)
UntilEncodedDeletableUnmade ==
    /\ policy.keep = "until_encoded" /\ ~recording.trashed
    /\ policy.desired # {} /\ \A p \in Profiles : ~Unsatisfied(p)
    /\ ready

UntilEncodedDeletable ==
    /\ policy.keep = "until_encoded" /\ ~recording.trashed
    /\ policy.desired # {} /\ Unencoded = {}
    /\ \A p \in Profiles : ~Unsatisfied(p)
    /\ ready

(* Something else is there to be viewed, and is not removed itself. *)
ViewableWithout(removed) == HasOriginal \/ \E p \in Profiles \ removed : Active(p)

RemovedDeletable(p) ==
    p \in removal /\ p \notin policy.desired /\ ViewableWithout(removal)

OldGeneration(p, g) == 0 < g /\ g < generation[p] /\ Active(p) /\ p \notin recent

Arms == <<"trash", "until_encoded", "removed_encoded", "old_generation">>

Qualifies(arm, c) ==
    \/ arm = "trash" /\ TrashDeletable
    \/ arm = "until_encoded" /\ c = Original /\ UntilEncodedDeletable
    \/ arm = "removed_encoded" /\ c # Original /\ RemovedDeletable(c[1])
    \/ arm = "old_generation" /\ c # Original /\ OldGeneration(c[1], c[2])

Deletable(c) == \E i \in DOMAIN Arms : Qualifies(Arms[i], c)

-----------------------------------------------------------------------------
(* The user's transactions. *)

SoftDelete ==
    /\ ~recording.trashed
    /\ recording' = [recording EXCEPT !.trashed = TRUE]
    /\ UNCHANGED <<policy, removal, rebuild, chapters, ready, copy, generation, cut, recent>>

(* Mutant: what has been deleted for good can be restored. *)
RestorePurged ==
    /\ recording.trashed
    /\ recording' = [recording EXCEPT !.trashed = FALSE, !.aged = FALSE, !.purge = FALSE]
    /\ UNCHANGED <<policy, removal, rebuild, chapters, ready, copy, generation, cut, recent>>

Restore ==
    /\ recording.trashed /\ ~recording.purged
    /\ recording' = [recording EXCEPT !.trashed = FALSE, !.aged = FALSE, !.purge = FALSE]
    /\ UNCHANGED <<policy, removal, rebuild, chapters, ready, copy, generation, cut, recent>>

RequestPurge ==
    /\ recording' = [recording EXCEPT !.trashed = TRUE, !.purge = TRUE]
    /\ UNCHANGED <<policy, removal, rebuild, chapters, ready, copy, generation, cut, recent>>

(* The second half of an append: the original was active when it was asked. *)
AppendProfile(p) ==
    /\ policy' = [policy EXCEPT !.desired = @ \cup {p}]
    /\ removal' = removal \ {p}
    /\ UNCHANGED <<recording, rebuild, chapters, ready, copy, generation, cut, recent>>

(* Without a profile that is wanted the original stays, and a last version
   that could be viewed is not removed. *)
RemoveEncodedAsset(p) ==
    /\ ~recording.purged /\ Active(p)
    /\ ViewableWithout(removal \cup {p})
    /\ policy' = [desired |-> policy.desired \ {p},
                  keep |-> IF policy.desired \subseteq {p} THEN "always" ELSE policy.keep]
    /\ rebuild' = [rebuild EXCEPT ![p] = None]
    /\ removal' = removal \cup {p}
    /\ UNCHANGED <<recording, chapters, ready, copy, generation, cut, recent>>

RequestCutRebuild(p) ==
    /\ HasOriginal /\ chapters # None /\ p \in policy.desired \cap CutProfiles
    /\ rebuild' = [rebuild EXCEPT ![p] = chapters]
    /\ UNCHANGED <<recording, policy, removal, chapters, ready, copy, generation, cut, recent>>

SetKeepOriginal(keep) ==
    /\ ~recording.purged
    /\ keep = "until_encoded" => policy.desired # {}
    /\ policy' = [policy EXCEPT !.keep = keep]
    /\ UNCHANGED <<recording, removal, rebuild, chapters, ready, copy, generation, cut, recent>>

(* A detection that is asked for has to be done before the original may go. *)
SetCMDetection ==
    /\ ~recording.trashed /\ HasOriginal
    /\ ready' = FALSE
    /\ UNCHANGED <<recording, policy, removal, rebuild, chapters, copy, generation, cut, recent>>

EditChapters(keep) ==
    /\ chapters' = keep
    /\ UNCHANGED <<recording, policy, removal, rebuild, ready, copy, generation, cut, recent>>

-----------------------------------------------------------------------------
(* The jobs that make a version.  A job knows which profile and ranges it is
   for, the generation it has observed and the one it will publish. *)

(* No copy of this generation or a later one has ever been made. *)
Unused(p, g) == \A h \in Generations : g <= h => copy[<<p, h>>] = "none"

NextGeneration(p, g) == Unused(p, g) /\ (g > 1 => ~Unused(p, g - 1))

Jobs == [profile : Profiles, keep : Keeps \cup {None}, requested : BOOLEAN,
         generation : Generations, observed : 0..MaxGeneration]

(* What a user has confirmed is what the job makes: the ranges asked for when
   it is a rebuild, otherwise those of the chapters. *)
Confirmed(job) ==
    /\ job.profile \in policy.desired
    /\ IF job.requested THEN rebuild[job.profile] = job.keep
       ELSE job.profile \in CutProfiles => chapters = job.keep

Satisfied(job) ==
    /\ Active(job.profile)
    /\ job.profile \in CutProfiles => cut[job.profile] = job.keep

(* The first publication finds the row that its own reservation has made. *)
Moved(job) ==
    /\ job.observed # generation[job.profile]
    /\ ~(/\ job.observed = 0 /\ ~Active(job.profile)
         /\ generation[job.profile] = job.generation)

(* Only a rebuild replaces a cut version. *)
Replaceable(job) ==
    job.profile \in CutProfiles /\ ~job.requested => ~Active(job.profile)

Pending(job) == copy[<<job.profile, job.generation>>] = "pending"

(* Mutant: what the user has confirmed is not looked at again. *)
PublishableUnconfirmed(job) ==
    /\ job.profile \in CutProfiles => ~recording.purged
    /\ ~Satisfied(job) /\ ~Moved(job) /\ Replaceable(job)
    /\ job.generation >= generation[job.profile] /\ Pending(job)

Publishable(job) ==
    /\ job.profile \in CutProfiles => ~recording.purged
    /\ Confirmed(job) /\ ~Satisfied(job) /\ ~Moved(job) /\ Replaceable(job)
    /\ job.generation >= generation[job.profile] /\ Pending(job)

(* The plan is to be made anew: skipping would lose the newer ranges. *)
StalePlan(job) ==
    /\ job.profile \in CutProfiles => ~recording.purged
    /\ Confirmed(job)
    /\ \/ Moved(job) /\ Active(job.profile) /\ ~Satisfied(job)
       \/ /\ ~Satisfied(job) /\ ~Moved(job) /\ Replaceable(job)
          /\ ~(job.generation >= generation[job.profile] /\ Pending(job))

(* Mutant: the reserved generation is the current one at once. *)
PreparePendingCurrent(p, g) ==
    /\ Unused(p, g)
    /\ copy' = [copy EXCEPT ![<<p, g>>] = "pending"]
    /\ generation' = [generation EXCEPT ![p] = g]
    /\ UNCHANGED <<recording, policy, removal, rebuild, chapters, ready, cut, recent>>

(* A generation is reserved before the object is put. *)
PreparePending(p, g) ==
    /\ Unused(p, g)
    /\ copy' = [copy EXCEPT ![<<p, g>>] = "pending"]
    /\ generation' = [generation EXCEPT ![p] = IF @ = 0 THEN g ELSE @]
    /\ UNCHANGED <<recording, policy, removal, rebuild, chapters, ready, cut, recent>>

PublishEncoded(job) ==
    /\ Publishable(job)
    /\ copy' = [copy EXCEPT ![<<job.profile, job.generation>>] = "active"]
    /\ generation' = [generation EXCEPT ![job.profile] = job.generation]
    /\ cut' = IF job.profile \in CutProfiles
              THEN [cut EXCEPT ![job.profile] = job.keep] ELSE cut
    /\ recent' = recent \cup {job.profile}
    /\ UNCHANGED <<recording, policy, removal, rebuild, chapters, ready>>

-----------------------------------------------------------------------------
(* The transactions of the deletion. *)

SetCopy(c, state) ==
    /\ copy' = [copy EXCEPT ![c] = state]
    /\ UNCHANGED <<recording, policy, rebuild, chapters, ready, generation, cut, recent>>

(* The row goes to deleting without a second look at the predicates ... *)
MarkDeleting(c) ==
    copy[c] = "active" /\ SetCopy(c, "deleting") /\ UNCHANGED removal

(* Mutant: neither is an original that its versions replace. *)
MarkUntilEncodedListed == MarkDeleting(Original)

(* ... but for an original whose versions are all there. *)
MarkUntilEncodedDeleting == UntilEncodedDeletable /\ MarkDeleting(Original)

(* The request to remove a version goes with its last copy. *)
MarkDeleted(c) ==
    /\ copy[c] = "deleting"
    /\ SetCopy(c, "deleted")
    /\ removal' = {p \in removal : c = Original \/ c[1] # p \/
                      \E g \in Generations : copy'[<<p, g>>] \notin {"none", "deleted"}}

RevertToActive(c) ==
    copy[c] = "deleting" /\ ~Deletable(c) /\ SetCopy(c, "active") /\ UNCHANGED removal

Purgeable ==
    /\ ~recording.purged /\ TrashDeletable
    /\ \A c \in Copies : copy[c] \in {"none", "deleted"}

MarkPurged ==
    /\ Purgeable
    /\ recording' = [recording EXCEPT !.purged = TRUE]
    /\ UNCHANGED <<policy, removal, rebuild, chapters, ready, copy, generation, cut, recent>>

=============================================================================
