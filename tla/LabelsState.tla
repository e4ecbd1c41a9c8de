---------------------------- MODULE LabelsState ----------------------------
(* The labels of the items of one inbox, what the histories tell of those   *)
(* who write them, and what must be true; module Labels has the calls.      *)
EXTENDS RecordCalls

CONSTANT Items

VARIABLES
    labels,          \* the labels of each stored item, or None
    missed,          \* history: items a walk had to change and did not
    read             \* history: items marked read, and not unread again

(* SweepsAreComplete: a sweep, a read-all or a retroactive rule that ends   *)
(* well, and below its cap, has handled every item that matched when it     *)
(* began and that nobody else wrote meanwhile, also when items under its    *)
(* cursor are deleted or delivered (inbox.ts:542, unread-sweep.ts:73).      *)
SweepsAreComplete == missed = {}

(* ReadStaysRead: an item that was marked read does not become unread until *)
(* someone asks for that or deletes it, whatever is delivered again, tagged,*)
(* quarantined, restored or swept; a call that wrote what it had read       *)
(* before another one wrote the same item is excepted (unread.ts:58).       *)
ReadStaysRead == \A i \in read : labels[i] # None => "unread" \notin labels[i]
=============================================================================
