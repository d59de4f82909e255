------------------------------ MODULE KVStore --------------------------------
(***************************************************************************)
(* What include/leveldb/db.h promises of one database: a map from keys to  *)
(* values, writes that take effect one at a time, and snapshots that keep  *)
(* showing the map as it was when they were taken, whatever happens later. *)
(* The map changes by the updates clients make, and updates records each,  *)
(* so that a step no client made cannot pass for one of them.              *)
(* LSMTree is shown to implement it.                                       *)
(***************************************************************************)
EXTENDS Sequences

CONSTANTS
  Keys,
  Values,
  Handles,        \* names for snapshots
  NotFound        \* the answer for a key that has no value

VARIABLES
  updates,        \* the updates clients have made, in order
  now,            \* what a read without a snapshot returns for each key
  views           \* live snapshot |-> what a read at that snapshot returns

vars == <<updates, now, views>>

Answers == Values \cup {NotFound}

Init ==
  /\ updates = << >>
  /\ now = [k \in Keys |-> NotFound]
  /\ views = << >>

(* DB::Put and DB::Delete: the key has the value the client gave, or none; *)
(* the other keys and the snapshots are untouched.                         *)
Write(k, v) ==
  /\ updates' = Append(updates, [key |-> k, value |-> v])
  /\ now' = [now EXCEPT ![k] = v]
  /\ UNCHANGED views

(* DB::GetSnapshot: the new handle shows the present map.                  *)
GetSnapshot(s) ==
  /\ s \notin DOMAIN views
  /\ views' = [t \in DOMAIN views \cup {s} |-> IF t = s THEN now ELSE views[t]]
  /\ UNCHANGED <<updates, now>>

(* DB::ReleaseSnapshot: the handle is gone, the others are untouched.      *)
ReleaseSnapshot(s) ==
  /\ s \in DOMAIN views
  /\ views' = [t \in DOMAIN views \ {s} |-> views[t]]
  /\ UNCHANGED <<updates, now>>

Next ==
  \/ \E k \in Keys, v \in Answers : Write(k, v)
  \/ \E s \in Handles : GetSnapshot(s)
  \/ \E s \in DOMAIN views : ReleaseSnapshot(s)

Spec == Init /\ [][Next]_vars
==============================================================================
