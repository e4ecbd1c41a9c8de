------------------------------ MODULE MCInbox ------------------------------
(* Three calls of any operations on two items.                            *)
EXTENDS Inbox
=============================================================================
