----------------------------- MODULE IngestContract -----------------------------
(***************************************************************************)
(* What ingest promises of one record: a record that has finished comes    *)
(* into the library whole, at one stroke and once, and only then goes from *)
(* mirakc.  How it gets there, over crashes and with several workers, is   *)
(* the module Ingest's, which implements this one.                         *)
(***************************************************************************)
VARIABLES
    record,         \* mirakc's record
    original        \* the recording's original: "none", or what its row's
                    \* file is, "whole" or "broken"

vars == <<record, original>>

Init == record = "recording" /\ original = "none"

End ==
    /\ record = "recording"
    /\ record' \in {"finished", "canceled"}
    /\ UNCHANGED original

Commit ==
    /\ record = "finished" /\ original = "none"
    /\ original' = "whole"
    /\ UNCHANGED record

Purge ==
    /\ record = "finished" /\ original = "whole"
    /\ record' = "purged"
    /\ UNCHANGED original

Next == End \/ Commit \/ Purge

Spec == Init /\ [][Next]_vars /\ WF_vars(Commit) /\ WF_vars(Purge)

=============================================================================
