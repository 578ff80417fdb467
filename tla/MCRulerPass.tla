------------------------------ MODULE MCRulerPass ------------------------------
(* Small instances of RulerPass for TLC. *)
EXTENDS RulerPass, TLC

CONSTANTS p1, p2, r1, r2, w1, w2

PassSymmetry == Permutations({w1, w2})

MCPrograms == {p1, p2}
MCOneRule == {r1}
MCRank == [r \in Rules |-> IF r = r1 THEN 0 ELSE 1]

MCOneChannel == [p \in Programs |-> "c1"]

(* p1 starts at 1 and p2 at 2. *)
MCListings == {[p \in Programs |-> IF p = p1 THEN 1 ELSE 2]}

MCAllConditions == {Programs, {}}
MCAcceptsAll == {Programs}

(* p1 starts at 0, within the grace, and p2 at 1; the EPG may lose p1. *)
MCStart(p) == IF p = p1 THEN 0 ELSE 1
MCListingsThatLose ==
    {[p \in Programs |-> MCStart(p)],
     [p \in Programs |-> IF p = p1 THEN Absent ELSE MCStart(p)]}

(* A site that has been synced and whose rules, just written, accept every
   program; no pass has run yet.  The revision counts from here. *)
MCSyncedInit ==
    /\ clock = 0
    /\ rule = [r \in Rules |-> "enabled"] /\ accepts = [r \in Rules |-> Programs]
    /\ epg = [p \in Programs |-> MCStart(p)]
    /\ snapshot = [p \in Programs |-> Absent]
    /\ intent = [p \in Programs |-> "none"] /\ overrides = {}
    /\ reservation = [p \in Programs |-> NoReservation] /\ originals = {}
    /\ revision = 0 /\ lost = [p \in Programs |-> "never"]
    /\ SyncInit
    /\ step = [w \in Rulers |-> "idle"] /\ plan = [w \in Rulers |-> EmptyPlan]
    /\ breaker = FALSE

MCSyncedSpec == MCSyncedInit /\ [][Next]_vars /\ Fairness
=============================================================================
