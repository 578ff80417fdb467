---------------------------- MODULE ReservationStore ----------------------------
(***************************************************************************)
(* The PostgreSQL tables that say what one site should record, and the     *)
(* API writes to them.  Every API write is one transaction, so one action, *)
(* and every one bumps ruler_input_revisions in that same transaction:     *)
(* this is how the ruler, which evaluates outside a transaction, learns    *)
(* that what it read has changed.                                          *)
(*                                                                         *)
(* Payloads are abstracted: a rule is its life cycle and the programs its  *)
(* conditions accept, an override is present or not, a program is its      *)
(* start time (every program lasts one unit of time).                      *)
(***************************************************************************)
EXTENDS Integers, FiniteSets

CONSTANTS
    Programs,        \* mirakc program ids of the site
    Rules,           \* rule ids; an id is never used twice
    Conditions,      \* the sets of programs a rule's conditions may accept
    Touched,         \* bound: programs users write intents and overrides for
    Recordable,      \* programs whose recording may complete
    MaxStart,        \* bound: the last start time
    MaxClock,        \* bound: the last instant
    MaxRevision,     \* bound: the last input revision an API write may reach
    NoRule,          \* reservations.rule_id IS NULL
    NoReservation,   \* no row in reservations
    Absent           \* no row in epg_programs / program_snapshots

ASSUME StoreAssumption ==
    /\ IsFiniteSet(Programs)
    /\ Conditions \subseteq SUBSET Programs
    /\ Touched \subseteq Programs /\ Recordable \subseteq Programs
    /\ MaxStart \in Nat /\ MaxClock \in Nat /\ MaxRevision \in Nat
    /\ NoRule \notin Rules /\ NoReservation \notin Rules \cup {NoRule}
    /\ Absent \notin 0..MaxStart

StartTimes == 0..MaxStart

VARIABLES
    clock,        \* wall clock
    rule,         \* rules: life cycle of each rule id
    accepts,      \* what each rule's conditions accept
    epg,          \* epg_programs: start of each projected program
    snapshot,     \* program_snapshots: start as last copied from the projection
    intent,       \* program_intents.action
    overrides,    \* programs with a row in program_overrides
    reservation,  \* reservations: the rule_id of each row
    originals,    \* programs whose event has an original media asset
    revision,     \* ruler_input_revisions.revision
    lost          \* history: how the last investment in each program ended

ruleVars  == <<rule, accepts>>
inputVars == <<intent, overrides>>
storeVars == <<clock, rule, accepts, epg, snapshot, intent, overrides,
               reservation, originals, revision, lost>>

StoreTypeOK ==
    /\ clock \in 0..MaxClock
    /\ rule \in [Rules -> {"unborn", "enabled", "disabled", "deleted"}]
    /\ accepts \in [Rules -> SUBSET Programs]
    /\ epg \in [Programs -> StartTimes \cup {Absent}]
    /\ snapshot \in [Programs -> StartTimes \cup {Absent}]
    /\ intent \in [Programs -> {"none", "record", "skip"}]
    /\ overrides \subseteq Programs
    /\ reservation \in [Programs -> Rules \cup {NoRule, NoReservation}]
    /\ originals \subseteq Programs
    /\ revision \in Nat
    /\ lost \in [Programs -> {"never", "user", "gc"}]

StoreInit ==
    /\ clock = 0
    /\ rule = [r \in Rules |-> "unborn"]
    /\ accepts = [r \in Rules |-> {}]
    /\ epg = [p \in Programs |-> Absent]
    /\ snapshot = [p \in Programs |-> Absent]
    /\ intent = [p \in Programs |-> "none"]
    /\ overrides = {}
    /\ reservation = [p \in Programs |-> NoReservation]
    /\ originals = {}
    /\ revision = 0
    /\ lost = [p \in Programs |-> "never"]

-----------------------------------------------------------------------------
(* Derived tables. *)

Reserved == {p \in Programs : reservation[p] # NoReservation}

(* Mutant: the view without program_overrides. *)
InvestmentsRecordOnly == {p \in Programs : intent[p] = "record"}

(* The view program_investments. *)
Investments == {p \in Programs : intent[p] = "record"} \cup overrides

EnabledRules == {r \in Rules : rule[r] = "enabled"}

(* Rows the ruler finds by broadcast event: fulfilled needs a snapshot, whose
   event key is looked up among the recordings that have an original. *)
Fulfilled == {p \in originals : snapshot[p] # Absent}

-----------------------------------------------------------------------------
(* API writes.  *)

BumpRevision == revision < MaxRevision /\ revision' = revision + 1

(* History only: which programs left the view, and by whose hand. *)
RecordLoss(cause) ==
    lost' = [p \in Programs |->
               IF p \in Investments \ Investments' THEN cause ELSE lost[p]]

(* Copies the projected program into program_snapshots, keeps a frozen row
   when the projection has lost it, and refuses a program nobody knows. *)
EnsureProgramSnapshot(p) ==
    /\ epg[p] # Absent \/ snapshot[p] # Absent
    /\ snapshot' = [snapshot EXCEPT ![p] = IF epg[p] # Absent THEN epg[p] ELSE @]

PutIntent(p, action) ==
    /\ EnsureProgramSnapshot(p)
    /\ intent' = [intent EXCEPT ![p] = action]
    /\ BumpRevision
    /\ UNCHANGED <<clock, ruleVars, epg, overrides, reservation, originals>>
    /\ RecordLoss("user")

(* Deleting an intent that is not there succeeds, and still bumps. *)
DeleteIntent(p) ==
    /\ intent' = [intent EXCEPT ![p] = "none"]
    /\ BumpRevision
    /\ UNCHANGED <<clock, ruleVars, epg, snapshot, overrides, reservation, originals>>
    /\ RecordLoss("user")

(* The merged overrides are stored, or the row is deleted when the patch left
   none; a patch that fails validation is rolled back as a whole. *)
PatchOverrides(p) ==
    /\ EnsureProgramSnapshot(p)
    /\ overrides' \in {overrides \cup {p}, overrides \ {p}}
    /\ BumpRevision
    /\ UNCHANGED <<clock, ruleVars, epg, intent, reservation, originals>>
    /\ RecordLoss("user")

DeleteOverrides(p) ==
    /\ overrides' = overrides \ {p}
    /\ BumpRevision
    /\ UNCHANGED <<clock, ruleVars, epg, snapshot, intent, reservation, originals>>
    /\ RecordLoss("user")

CreateRule(r) ==
    /\ rule[r] = "unborn"
    /\ \E status \in {"enabled", "disabled"}, C \in Conditions :
          /\ rule' = [rule EXCEPT ![r] = status]
          /\ accepts' = [accepts EXCEPT ![r] = C]
    /\ BumpRevision
    /\ UNCHANGED <<clock, epg, snapshot, inputVars, reservation, originals, lost>>

UpdateRule(r) ==
    /\ rule[r] \in {"enabled", "disabled"}
    /\ \E status \in {"enabled", "disabled"}, C \in Conditions :
          /\ rule' = [rule EXCEPT ![r] = status]
          /\ accepts' = [accepts EXCEPT ![r] = C]
    /\ BumpRevision
    /\ UNCHANGED <<clock, epg, snapshot, inputVars, reservation, originals, lost>>

(* Mutant: the foreign key detaches every reservation of the rule. *)
DeleteRuleDetachingAll(r) ==
    /\ rule[r] \in {"enabled", "disabled"}
    /\ rule' = [rule EXCEPT ![r] = "deleted"]
    /\ accepts' = [accepts EXCEPT ![r] = {}]
    /\ reservation' = [p \in Programs |->
          IF reservation[p] = r THEN NoRule ELSE reservation[p]]
    /\ BumpRevision
    /\ UNCHANGED <<clock, epg, snapshot, inputVars, originals, lost>>

(* Reservations of the rule without an investment go first; the foreign key
   (ON DELETE SET NULL) then detaches the others. *)
DeleteRule(r) ==
    /\ rule[r] \in {"enabled", "disabled"}
    /\ rule' = [rule EXCEPT ![r] = "deleted"]
    /\ accepts' = [accepts EXCEPT ![r] = {}]
    /\ reservation' = [p \in Programs |->
          IF reservation[p] # r THEN reservation[p]
          ELSE IF p \in Investments THEN NoRule ELSE NoReservation]
    /\ BumpRevision
    /\ UNCHANGED <<clock, epg, snapshot, inputVars, originals, lost>>

ApiWrite ==
    \/ \E p \in Touched :
          \/ \E action \in {"record", "skip"} : PutIntent(p, action)
          \/ DeleteIntent(p)
          \/ PatchOverrides(p)
          \/ DeleteOverrides(p)
    \/ \E r \in Rules : CreateRule(r) \/ UpdateRule(r) \/ DeleteRule(r)

-----------------------------------------------------------------------------
(* Writers elsewhere in the system, and time. *)

(* The ingest of a recording of p's event commits its original; the row stays
   when the file is deleted later (it becomes a tombstone). *)
CommitOriginal(p) ==
    /\ p \in Recordable \ originals
    /\ originals' = originals \cup {p}
    /\ UNCHANGED <<clock, ruleVars, epg, snapshot, inputVars, reservation,
                   revision, lost>>

Tick ==
    /\ clock < MaxClock
    /\ clock' = clock + 1
    /\ UNCHANGED <<ruleVars, epg, snapshot, inputVars, reservation, originals,
                   revision, lost>>

=============================================================================
