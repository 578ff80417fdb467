------------------------------- MODULE MCWatcher -------------------------------
EXTENDS Watcher

(* Records of one program. *)
MCSameEvent == [r \in Records |-> "p1"]

=============================================================================
