------------------------------ MODULE PMGroup ------------------------------
(***************************************************************************)
(* One partition (class Group, src/groupManager.cc): a singly linked list  *)
(* of 256MB nodes in a libpmemobj pool.  The CPU works on root and next;   *)
(* droot and dnext are what the persistent memory would hold after a power *)
(* failure.  A dirty cache line may reach the memory at any time, and must *)
(* have after flush and drain.  Allocation and freeing are atomic and      *)
(* durable, as libpmemobj promises; pmemobj_root allocates the root, or    *)
(* makes it larger, and fails only where it has to do that.                *)
(*                                                                         *)
(* listroot is 16-byte aligned, so its tail may lie in another cache line  *)
(* than its node_count and head.  gid and writeFront are never read back.  *)
(***************************************************************************)
EXTENDS Integers, Sequences, SequencesExt, FiniteSets

CONSTANTS
  Nodes,           \* the places the heap has for list nodes
  Null,            \* OID_NULL
  CrashIn,         \* the calls in which the power may fail
  MaxCrashes       \* bound on power failures

ASSUME PMGroupAssumption ==
  /\ IsFiniteSet(Nodes) /\ Null \notin Nodes /\ MaxCrashes \in Nat
  /\ CrashIn \subseteq {"ctor", "idle", "listless", "add", "delete"}

VARIABLES
  call, step,      \* the call in progress and how far it is
  node, prev,      \* its arguments
  root, next,      \* listroot and every listnode's next, as the CPU sees them
  droot, dnext,    \* ... and in the memory itself
  rootSize,        \* bytes of the root object: 0, RootBytes or NodeBytes
  heap,            \* allocated nodes
  held,            \* nodes the caller got from alloc_node and has not added
  list,            \* the list the calls that returned should have made
  crashes

pmVars == <<call, step, node, prev, root, next, droot, dnext, rootSize, heap,
          held, list, crashes>>
pm == <<droot, dnext>>

\* sizeof(listroot) and sizeof(listnode).
RootBytes == 1
NodeBytes == 2

Oid == Nodes \cup {Null}
Empty == [node_count |-> 0, head |-> Null, tail |-> Null]

\* A new pool has no root object; one that is allocated is zero.
PMInit ==
  /\ call = "down" /\ step = 0 /\ node = Null /\ prev = Null
  /\ root = Empty /\ droot = Empty
  /\ next = [n \in Nodes |-> Null] /\ dnext = next
  /\ rootSize = 0 /\ heap = {} /\ held = {} /\ list = <<>> /\ crashes = 0

-----------------------------------------------------------------------------
(* The constructor. *)

\* Mutant of check_list_exist: the tail is not looked at.
CheckHeadOnly == root.node_count # 0 /\ root.head # Null

\* No root object, which is what a failing pmemobj_root leaves, is no list.
check_list_exist == root.node_count # 0 /\ root.head # Null /\ root.tail # Null

\* An existing list is taken as it is; otherwise the root is made as large as
\* a node, and a list is made.  (A constructor that was cut off after its last
\* store had left the caches did make one.)
Construct ==
  /\ call = "down"
  /\ IF check_list_exist
       THEN /\ call' = "idle"
            /\ list' = IF list = <<>> THEN <<root.head>> ELSE list
            /\ UNCHANGED <<step, root, rootSize>>
       ELSE /\ call' = "ctor" /\ step' = 1
            /\ root' = [root EXCEPT !.node_count = 1]
            /\ rootSize' = NodeBytes
            /\ UNCHANGED list
  /\ UNCHANGED <<node, prev, next, pm, heap, held, crashes>>

\* pmemobj_root returns null: the constructor returns as if nothing were
\* wrong, and the group has no list.  The smaller request of check_list_exist
\* may have succeeded.
ConstructNoRoot ==
  /\ call = "down" /\ ~check_list_exist
  /\ rootSize < NodeBytes /\ rootSize' \in {rootSize, RootBytes}
  /\ call' = "listless"
  /\ UNCHANGED <<step, node, prev, root, next, pm, heap, held, list, crashes>>

\* pmemobj_alloc: the constructor persists the node's null next.
AllocatedNode(n) ==
  /\ n \in Nodes \ heap
  /\ heap' = heap \cup {n}
  /\ next' = [next EXCEPT ![n] = Null]
  /\ dnext' = [dnext EXCEPT ![n] = Null]

ConstructAlloc ==
  /\ call = "ctor" /\ step = 1
  /\ \E n \in Nodes : AllocatedNode(n) /\ node' = n
  /\ step' = 2
  /\ UNCHANGED <<call, prev, root, droot, rootSize, held, list, crashes>>

\* pmemobj_alloc fails: alloc_node throws out of the constructor.
ConstructFails ==
  /\ call = "ctor" /\ step = 1
  /\ call' = "failed" /\ step' = 0
  /\ UNCHANGED <<node, prev, root, next, pm, rootSize, heap, held, list, crashes>>

ConstructLink ==
  /\ call = "ctor" /\ step = 2
  /\ root' = [root EXCEPT !.head = node, !.tail = node]
  /\ step' = 3
  /\ UNCHANGED <<call, node, prev, next, pm, rootSize, heap, held, list, crashes>>

\* flush and drain of the root's 64 bytes; the list has its first node.
ConstructPersist ==
  /\ call = "ctor" /\ step = 3
  /\ droot' = root
  /\ list' = <<node>>
  /\ call' = "idle" /\ step' = 0
  /\ UNCHANGED <<node, prev, root, next, dnext, rootSize, heap, held, crashes>>

-----------------------------------------------------------------------------
(* The caller's operations. *)

\* alloc_node returns a node, or throws and changes nothing.
alloc_node ==
  /\ call \in {"idle", "listless"}
  /\ \E n \in Nodes : AllocatedNode(n) /\ held' = held \cup {n}
  /\ UNCHANGED <<call, step, node, prev, root, droot, rootSize, list, crashes>>

\* free_node of a node that was never added.
free_node ==
  /\ call \in {"idle", "listless"}
  /\ \E n \in held : held' = held \ {n} /\ heap' = heap \ {n}
  /\ UNCHANGED <<call, step, node, prev, root, next, pm, rootSize, list, crashes>>

\* The three stores of add_node_to_tail.
add_node_to_tail ==
  /\ call = "idle"
  /\ \E n \in held :
       /\ node' = n /\ held' = held \ {n}
       /\ next' = [next EXCEPT ![root.tail] = n]
       /\ prev' = root.tail
       /\ root' = [root EXCEPT !.tail = n, !.node_count = @ + 1]
  /\ call' = "add" /\ step' = 1
  /\ UNCHANGED <<pm, rootSize, heap, list, crashes>>

\* Without a list add_node_to_tail returns if pmemobj_root still fails, and so
\* does delete_node_from_list.  Otherwise the tail is a null pointer: the
\* store through it ends the process.
AddWithoutList ==
  /\ call = "listless" /\ held # {}
  /\ \/ rootSize = 0 /\ UNCHANGED <<call, rootSize, held>>
     \/ call' = "down" /\ rootSize' = RootBytes /\ held' = {}
  /\ UNCHANGED <<step, node, prev, root, next, pm, heap, list, crashes>>

\* Mutant of FlushedByAdd: the old last node is not flushed.
FlushedByAddRootOnly == {}

\* The nodes whose next add_node_to_tail flushes.
FlushedByAdd == {prev}

\* flush and drain of the old last node and of the root.
AddPersist ==
  /\ call = "add"
  /\ dnext' = [n \in Nodes |-> IF n \in FlushedByAdd THEN next[n] ELSE dnext[n]]
  /\ droot' = root
  /\ list' = Append(list, node)
  /\ call' = "idle" /\ step' = 0
  /\ UNCHANGED <<node, prev, root, next, rootSize, heap, held, crashes>>

\* delete_node_from_list, for a node of the list and its predecessor: the
\* stores up to free_node.
delete_node_from_list ==
  /\ call = "idle"
  /\ \E i \in 1..(Len(list) - 1) :
       /\ prev' = list[i] /\ node' = list[i + 1]
       /\ next' = [next EXCEPT ![list[i]] = next[list[i + 1]]]
  /\ root' = [root EXCEPT !.node_count = @ - 1]
  /\ call' = "delete" /\ step' = 1
  /\ UNCHANGED <<pm, rootSize, heap, held, list, crashes>>

\* Mutant of TailAfterDelete: the tail is left alone.
TailAfterDeleteKept == root.tail

TailAfterDelete == IF node = root.tail THEN prev ELSE root.tail

\* The node goes back to the heap, for good; then the tail is corrected.
DeleteFree ==
  /\ call = "delete" /\ step = 1
  /\ heap' = heap \ {node}
  /\ root' = [root EXCEPT !.tail = TailAfterDelete]
  /\ step' = 2
  /\ UNCHANGED <<call, node, prev, next, pm, rootSize, held, list, crashes>>

\* flush and drain of the predecessor and of the root.
DeletePersist ==
  /\ call = "delete" /\ step = 2
  /\ dnext' = [dnext EXCEPT ![prev] = next[prev]]
  /\ droot' = root
  /\ \E i \in DOMAIN list : list[i] = node /\ list' = RemoveAt(list, i)
  /\ call' = "idle" /\ step' = 0
  /\ UNCHANGED <<node, prev, root, next, rootSize, heap, held, crashes>>

\* ~Group closes the pool; the process may be started again.
CloseGroup ==
  /\ call \in {"idle", "listless"}
  /\ call' = "down"
  /\ held' = {}
  /\ UNCHANGED <<step, node, prev, root, next, pm, rootSize, heap, list, crashes>>

-----------------------------------------------------------------------------
(* The memory. *)

\* A dirty cache line is written back: node_count and head, tail, or a next.
EvictLine ==
  /\ \/ /\ droot' = [droot EXCEPT !.node_count = root.node_count,
                                  !.head = root.head]
        /\ UNCHANGED dnext
     \/ droot' = [droot EXCEPT !.tail = root.tail] /\ UNCHANGED dnext
     \/ /\ \E n \in Nodes : dnext' = [dnext EXCEPT ![n] = next[n]]
        /\ UNCHANGED droot
  /\ pm' # pm
  /\ UNCHANGED <<call, step, node, prev, root, next, rootSize, heap, held, list,
                 crashes>>

\* The power fails: only what is in the memory is left.
Crash ==
  /\ call \in CrashIn /\ crashes < MaxCrashes
  /\ crashes' = crashes + 1
  /\ root' = droot /\ next' = dnext
  /\ held' = {}
  /\ call' = "down" /\ step' = 0
  /\ UNCHANGED <<node, prev, pm, rootSize, heap, list>>

\* A process whose constructor threw is not heard of again.
Failed == call = "failed" /\ UNCHANGED pmVars

PMNext ==
  \/ Construct \/ ConstructNoRoot \/ ConstructAlloc \/ ConstructFails
  \/ ConstructLink \/ ConstructPersist
  \/ alloc_node \/ free_node \/ add_node_to_tail \/ AddWithoutList \/ AddPersist
  \/ delete_node_from_list \/ DeleteFree \/ DeletePersist \/ CloseGroup
  \/ EvictLine \/ Crash \/ Failed

PMSpec == PMInit /\ [][PMNext]_pmVars

-----------------------------------------------------------------------------
(* Properties. *)

\* The k-th node a traversal from the head meets.
Walk == [k \in 1..(Cardinality(Nodes) + 1) |-> 
           LET w[i \in 1..k] == IF i = 1 THEN root.head
                                ELSE IF w[i - 1] = Null THEN Null
                                ELSE next[w[i - 1]]
           IN w[k]]

\* What test_main.cc expects of a list nobody is working on: the traversal
\* ends, meets node_count nodes, all of them allocated, and the last is tail.
\* A group whose constructor got no root has an empty one, not a part of a
\* list.  It holds as long as the power does not fail inside add_node_to_tail
\* or delete_node_from_list, nor twice inside the constructor.
ListIsSound ==
  /\ call = "idle" =>
       /\ root.node_count \in 1..Cardinality(Nodes)
       /\ \A k \in 1..root.node_count : Walk[k] \in heap
       /\ Walk[root.node_count] = root.tail
       /\ next[root.tail] = Null
  /\ call = "listless" => root = Empty /\ list = <<>>

\* The list is the one the calls describe: what add appended and delete has
\* not removed, in that order.
ListMatchesCalls ==
  call = "idle" =>
    /\ root.node_count = Len(list)
    /\ \A k \in 1..Len(list) : Walk[k] = list[k]

\* A call that has returned is durable: of the root and of the nodes in the
\* list nothing is left in the caches.
ReturnedIsDurable ==
  call = "idle" =>
    /\ droot = root
    /\ \A k \in 1..Len(list) : dnext[list[k]] = next[list[k]]
=============================================================================
