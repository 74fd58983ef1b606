------------------------------ MODULE KeyedView ------------------------------
(***************************************************************************)
(* What a compacted partition promises to whoever reads it from the start: *)
(* for every key the newest record, whatever the cleaner is doing, for as  *)
(* long as retention, which takes the oldest records of any key, leaves it *)
(* there.                                                                  *)
(***************************************************************************)
EXTENDS Integers

CONSTANTS Keys, DeleteRetention, RetentionMs, Gone

VARIABLES
    view,       \* key to its newest record, or Gone
    full,       \* whether the partition is over its byte limit
    clock

Old(k, ms) == view[k] # Gone /\ clock - view[k].ts >= ms

Put(k) ==
    /\ view'[k] # Gone
    /\ view[k] # Gone => view'[k].off > view[k].off
    /\ \A l \in Keys \ {k} : view'[l] = view[l]
    /\ UNCHANGED clock

\* Tombstones go when consumers had DeleteRetention to see them.
Collect ==
    /\ \A k \in Keys : \/ view'[k] = view[k]
                       \/ view'[k] = Gone /\ Old(k, DeleteRetention) /\ view[k].tomb
    /\ UNCHANGED clock

\* Retention takes old records, or any when there is too much, whatever their
\* keys: but none before all that are older.
Retire ==
    /\ \A k \in Keys :
        \/ view'[k] = view[k]
        \/ /\ view'[k] = Gone
           /\ full \/ Old(k, RetentionMs)
           /\ \A l \in Keys : view[l] # Gone /\ view[l].off <= view[k].off => view'[l] = Gone
    /\ UNCHANGED clock

Wait == clock' > clock /\ UNCHANGED view

Spec ==
    /\ view = [k \in Keys |-> Gone]
    /\ clock = 0
    /\ [][Collect \/ Retire \/ Wait \/ \E k \in Keys : Put(k)]_<<view, clock>>
=============================================================================
