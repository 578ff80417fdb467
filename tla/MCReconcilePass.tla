---------------------------- MODULE MCReconcilePass ----------------------------
(* Small instances of ReconcilePass for TLC. *)
EXTENDS ReconcilePass

MCEnd == [p \in Programs |-> IF p = 1 THEN 0 ELSE 1]
MCEndLate == [p \in Programs |-> p]

MCTwoPriorities == {[priority |-> n, path |-> "generated"] : n \in 1..2}
MCPathOptions == MCTwoPriorities \cup {[priority |-> 1, path |-> "chosen"]}

MCFirst == [priority |-> 1, path |-> "generated"]

(* Every program starts under one title, wanted with the first options or not
   at all; the changes lead to everything else. *)
MCStart ==
    /\ Init
    /\ title = [p \in Programs |-> "t1"]
    /\ \A p \in Programs : decision[p] \in {MCFirst, Absent}

MCStartSpec == MCStart /\ [][Next]_vars /\ Fairness
=============================================================================
