----------------------------- MODULE LibraryProofs -----------------------------
(***************************************************************************)
(* What holds of the transactions and the predicates of the Library for    *)
(* every set of profiles and ranges and every number of generations: the   *)
(* facts that the proofs about the jobs rest on.                           *)
(***************************************************************************)
EXTENDS Library, TLAPS

(* The user's transactions keep the tables well typed. *)
LEMMA UserTypeOK ==
  ASSUME TypeOK,
         \/ SoftDelete \/ Restore \/ RequestPurge \/ SetCMDetection
         \/ \E p \in Profiles :
               AppendProfile(p) \/ RemoveEncodedAsset(p) \/ RequestCutRebuild(p)
         \/ \E keep \in {"always", "until_encoded"} : SetKeepOriginal(keep)
         \/ \E keep \in Keeps : EditChapters(keep)
  PROVE  TypeOK'
<1>1. CASE SoftDelete
  BY <1>1 DEF SoftDelete, TypeOK
<1>2. CASE Restore
  BY <1>2 DEF Restore, TypeOK
<1>3. CASE RequestPurge
  BY <1>3 DEF RequestPurge, TypeOK
<1>4. CASE SetCMDetection
  BY <1>4 DEF SetCMDetection, TypeOK
<1>5. ASSUME NEW p \in Profiles, AppendProfile(p) PROVE TypeOK'
  BY <1>5 DEF AppendProfile, TypeOK
<1>6. ASSUME NEW p \in Profiles, RemoveEncodedAsset(p) PROVE TypeOK'
  BY <1>6 DEF RemoveEncodedAsset, TypeOK
<1>7. ASSUME NEW p \in Profiles, RequestCutRebuild(p) PROVE TypeOK'
  BY <1>7 DEF RequestCutRebuild, TypeOK
<1>8. ASSUME NEW keep \in {"always", "until_encoded"}, SetKeepOriginal(keep) PROVE TypeOK'
  BY <1>8 DEF SetKeepOriginal, TypeOK
<1>9. ASSUME NEW keep \in Keeps, EditChapters(keep) PROVE TypeOK'
  BY <1>9 DEF EditChapters, TypeOK
<1> QED
  BY <1>1, <1>2, <1>3, <1>4, <1>5, <1>6, <1>7, <1>8, <1>9

(* No user's transaction makes, moves or drops a copy. *)
LEMMA UserKeepsCopies ==
  ASSUME \/ SoftDelete \/ Restore \/ RequestPurge \/ SetCMDetection
         \/ \E p \in Profiles :
               AppendProfile(p) \/ RemoveEncodedAsset(p) \/ RequestCutRebuild(p)
         \/ \E keep \in {"always", "until_encoded"} : SetKeepOriginal(keep)
         \/ \E keep \in Keeps : EditChapters(keep)
  PROVE  UNCHANGED <<copy, generation, cut>>
BY DEF SoftDelete, Restore, RequestPurge, SetCMDetection, AppendProfile, RemoveEncodedAsset,
   RequestCutRebuild, SetKeepOriginal, EditChapters

(* So do the transactions of the jobs ... *)
LEMMA PreparePendingTypeOK ==
  ASSUME TypeOK, NEW p \in Profiles, NEW g \in Generations, PreparePending(p, g)
  PROVE  TypeOK'
<1>1. <<p, g>> \in Copies /\ g \in 0..MaxGeneration
  BY LibraryAssumption DEF Copies, EncodedCopies, Generations
<1> QED
  BY <1>1 DEF PreparePending, TypeOK

LEMMA PublishEncodedTypeOK ==
  ASSUME TypeOK, NEW job \in Jobs, PublishEncoded(job)
  PROVE  TypeOK'
<1>1. /\ job.profile \in Profiles /\ job.generation \in 0..MaxGeneration
      /\ job.keep \in Keeps \cup {None}
      /\ <<job.profile, job.generation>> \in Copies
  BY LibraryAssumption DEF Jobs, Copies, EncodedCopies, Generations
<1> QED
  BY <1>1 DEF PublishEncoded, TypeOK

(* ... and those of the deletion. *)
LEMMA SetCopyTypeOK ==
  ASSUME TypeOK, NEW c \in Copies, removal' \subseteq removal,
         NEW state \in {"none", "pending", "active", "deleting", "deleted"}, SetCopy(c, state)
  PROVE  TypeOK'
BY DEF SetCopy, TypeOK

(* A reservation takes a generation of which there has never been a row. *)
LEMMA ReservesUnused ==
  ASSUME TypeOK, NEW p \in Profiles, NEW g \in Generations, PreparePending(p, g)
  PROVE  copy[<<p, g>>] = "none" /\ copy'[<<p, g>>] = "pending"
<1>1. <<p, g>> \in Copies /\ g <= g
  BY LibraryAssumption DEF Copies, EncodedCopies, Generations
<1> QED
  BY <1>1 DEF PreparePending, Unused, TypeOK

(* The removed versions and the replaced original never make up all that a
   live recording has to show (removed_encoded_assets and
   until_encoded_deletable_originals of the schema). *)
LEMMA DeletableApart ==
  ASSUME TypeOK, ~recording.trashed, HasOriginal \/ \E p \in Profiles : Active(p)
  PROVE  \/ HasOriginal /\ ~Deletable(Original)
         \/ \E p \in Profiles : Active(p) /\ ~Deletable(<<p, generation[p]>>)
<1>1. \A arm, c : Qualifies(arm, c) =>
        \/ c = Original /\ UntilEncodedDeletable
        \/ c # Original /\ (RemovedDeletable(c[1]) \/ OldGeneration(c[1], c[2]))
  BY DEF Qualifies, TrashDeletable
<1>2. ASSUME NEW p \in Profiles, Active(p), ~RemovedDeletable(p)
      PROVE  ~Deletable(<<p, generation[p]>>)
  <2>1. generation[p] \in Generations
    BY <1>2, LibraryAssumption DEF TypeOK, Active, Generations
  <2>2. <<p, generation[p]>> # Original
    BY <2>1, LibraryAssumption DEF Generations
  <2>3. ~OldGeneration(p, generation[p])
    BY <2>1 DEF OldGeneration, Generations
  <2> QED BY <1>1, <1>2, <2>2, <2>3 DEF Deletable
<1>3. CASE HasOriginal /\ Deletable(Original)
  <2>1. UntilEncodedDeletable
    BY <1>1, <1>3 DEF Deletable
  <2>2. PICK p \in policy.desired : p \in Profiles /\ Active(p)
    BY <2>1 DEF UntilEncodedDeletable, Unencoded, TypeOK
  <2> QED BY <1>2, <2>2 DEF RemovedDeletable
<1>4. CASE ~HasOriginal
  <2>1. CASE ViewableWithout(removal)
    <3>1. PICK p \in Profiles \ removal : Active(p)
      BY <1>4, <2>1 DEF ViewableWithout
    <3> QED BY <1>2, <3>1 DEF RemovedDeletable
  <2>2. CASE ~ViewableWithout(removal)
    BY <1>2, <1>4, <2>2 DEF RemovedDeletable
  <2> QED BY <2>1, <2>2
<1> QED BY <1>3, <1>4

=============================================================================
