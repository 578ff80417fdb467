-------------------------------- MODULE EpgSync --------------------------------
(***************************************************************************)
(* The epg_sync job: it copies mirakc's program list into epg_programs in  *)
(* batches, sweeps the rows the list no longer has, prunes aired rows, and *)
(* only then bumps the ruler's input revision.  None of these writes share *)
(* a transaction, so every other process sees the projection in between.   *)
(* A sync that fails or dies leaves what it wrote and never bumps.         *)
(***************************************************************************)
EXTENDS ReservationStore

CONSTANTS
    Channels,        \* physical channels
    ChannelOf,       \* the channel of each program
    Listings,        \* the program lists mirakc may answer: start or Absent
    RetentionGrace,  \* epg.retention_grace, also the ruler's GC grace
    MaxSyncs,        \* bound: syncs started
    MaxFaults        \* bound: failed syncs and failed ruler passes, together

ASSUME SyncAssumption ==
    /\ ChannelOf \in [Programs -> Channels]
    /\ Listings \subseteq [Programs -> StartTimes \cup {Absent}]
    /\ RetentionGrace \in Nat /\ MaxSyncs \in Nat /\ MaxFaults \in Nat

VARIABLES
    syncStep,   \* what the sync does next
    mark,       \* SweepMark: database time when the sync began
    listing,    \* mirakc's answer
    upserted,   \* programs written so far: their observed_at is after the mark
    syncs,      \* syncs started (bound)
    faults      \* faults injected (bound)

syncVars == <<syncStep, mark, listing, upserted>>

NoListing == [p \in Programs |-> Absent]

SyncTypeOK ==
    /\ syncStep \in {"idle", "upsert", "prune", "bump"}
    /\ mark \in 0..MaxClock
    /\ listing \in [Programs -> StartTimes \cup {Absent}]
    /\ upserted \subseteq Programs
    /\ syncs \in 0..MaxSyncs
    /\ faults \in 0..MaxFaults

SyncInit ==
    /\ syncStep = "idle" /\ mark = 0 /\ listing = NoListing /\ upserted = {}
    /\ syncs = 0 /\ faults = 0

Listed == {p \in Programs : listing[p] # Absent}

ObservedChannels == {ChannelOf[p] : p \in upserted}

tablesButEpg == <<clock, ruleVars, snapshot, inputVars, reservation, originals, lost>>

SyncBegin ==
    /\ syncStep = "idle" /\ syncs < MaxSyncs
    /\ syncs' = syncs + 1
    /\ mark' = clock
    /\ listing' \in Listings
    /\ upserted' = {}
    /\ syncStep' = "upsert"
    /\ UNCHANGED <<storeVars, faults>>

(* One batch; a batch boundary may fall between any two programs. *)
UpsertPrograms(p) ==
    /\ syncStep = "upsert"
    /\ p \in Listed \ upserted
    /\ epg' = [epg EXCEPT ![p] = listing[p]]
    /\ upserted' = upserted \cup {p}
    /\ UNCHANGED <<tablesButEpg, revision, syncStep, mark, listing, syncs, faults>>

(* Only channels that answered with a program are swept: a channel whose EPG
   could not be collected keeps its rows, and an empty answer sweeps nothing. *)
SweepPrograms ==
    /\ syncStep = "upsert" /\ Listed \subseteq upserted
    /\ epg' = [p \in Programs |->
          IF p \notin upserted /\ ChannelOf[p] \in ObservedChannels
          THEN Absent ELSE epg[p]]
    /\ syncStep' = "prune"
    /\ UNCHANGED <<tablesButEpg, revision, mark, listing, upserted, syncs, faults>>

PrunePrograms ==
    /\ syncStep = "prune"
    /\ epg' = [p \in Programs |->
          IF epg[p] # Absent /\ epg[p] + 1 < mark - RetentionGrace
          THEN Absent ELSE epg[p]]
    /\ syncStep' = "bump"
    /\ UNCHANGED <<tablesButEpg, revision, mark, listing, upserted, syncs, faults>>

SyncReset ==
    /\ syncStep' = "idle" /\ mark' = 0 /\ listing' = NoListing /\ upserted' = {}

(* A failure to bump is only logged, so it ends like a fault. *)
SyncBump ==
    /\ syncStep = "bump"
    /\ revision' = revision + 1
    /\ SyncReset
    /\ UNCHANGED <<tablesButEpg, epg, syncs, faults>>

SyncFail ==
    /\ syncStep # "idle" /\ faults < MaxFaults
    /\ faults' = faults + 1
    /\ SyncReset
    /\ UNCHANGED <<storeVars, syncs>>

SyncStep ==
    \/ \E p \in Programs : UpsertPrograms(p)
    \/ SweepPrograms \/ PrunePrograms \/ SyncBump

=============================================================================
