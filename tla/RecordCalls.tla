---------------------------- MODULE RecordCalls ----------------------------
(* What the stores of records have in common: tasks that make one call     *)
(* each, and None for a record, or an owner, that is not there.            *)
CONSTANTS Tasks, None
=============================================================================
