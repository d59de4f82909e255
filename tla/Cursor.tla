-------------------------------- MODULE Cursor --------------------------------
(***************************************************************************)
(* What an iterator of the store promises (lib/leveldb/include/leveldb/    *)
(* iterator.h): it stands at a key of a fixed view of the store or at none,*)
(* every call takes it to the key the call names, and if it cannot read    *)
(* something it may be anywhere, but status() says so from then on.        *)
(***************************************************************************)
EXTENDS Integers, FiniteSetsExt

CONSTANT CursorKeys       \* user keys, as numbers above 0 in their order

VARIABLES
    view,    \* key -> its value, 0 for a key that is not there
    call,    \* the call in progress
    at,      \* [key, value] the iterator stands at; key 0: not Valid()
    ok       \* status().ok()

cursorVars == <<view, call, at, ok>>

NoCall == [op |-> "none", key |-> 0]
Calls == [op : {"SeekToFirst", "SeekToLast", "Next", "Prev"}, key : {0}]
            \cup [op : {"Seek"}, key : CursorKeys]

Nowhere == [key |-> 0, value |-> 0]
At(key) == [key |-> key, value |-> view[key]]

Present == {key \in CursorKeys : view[key] # 0}
FirstOf(keys) == IF keys = {} THEN Nowhere ELSE At(Min(keys))
LastOf(keys) == IF keys = {} THEN Nowhere ELSE At(Max(keys))

\* Where a call takes the iterator.
Answer ==
    CASE call.op = "SeekToFirst" -> FirstOf(Present)
      [] call.op = "SeekToLast" -> LastOf(Present)
      [] call.op = "Seek" -> FirstOf({key \in Present : key >= call.key})
      [] call.op = "Next" -> FirstOf({key \in Present : key > at.key})
      [] call.op = "Prev" -> LastOf({key \in Present : key < at.key})

CursorInit ==
    /\ view \in [CursorKeys -> Nat]
    /\ call = NoCall
    /\ at = Nowhere
    /\ ok = TRUE

\* Next and Prev require Valid(), and go from where the iterator stands; the
\* others do not depend on it.
CallCursor(c) ==
    /\ call = NoCall
    /\ IF c.op \in {"Next", "Prev"} THEN at # Nowhere /\ at' = at ELSE at' = Nowhere
    /\ call' = c
    /\ UNCHANGED <<view, ok>>

ReturnCursor ==
    /\ call # NoCall /\ ok
    /\ at' = Answer
    /\ call' = NoCall
    /\ UNCHANGED <<view, ok>>

ReturnLost ==
    /\ call # NoCall
    /\ call' = NoCall
    /\ ok' = FALSE
    /\ UNCHANGED view

CursorNext ==
    \/ \E c \in Calls : CallCursor(c)
    \/ ReturnCursor
    \/ ReturnLost

CursorSpec == CursorInit /\ [][CursorNext]_cursorVars

=============================================================================
