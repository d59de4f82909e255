--------------------------- MODULE PMGroupProofs ---------------------------
(***************************************************************************)
(* Proofs about a partition in persistent memory (PMGroup): a list that    *)
(* nobody is working on is the one the calls describe, is sound and is     *)
(* durable, if the power does not fail inside a call that changes it.      *)
(***************************************************************************)
EXTENDS PMGroup, TLAPS, FiniteSetTheorems, SequenceTheorems, NaturalsInduction,
        WellFoundedInduction

\* The calls that change a list do not survive a power failure, and the
\* constructor survives one: after a second one the root may have the head of
\* the first attempt and the tail of the second.
CrashesSurvived ==
  /\ CrashIn \subseteq {"ctor", "idle", "listless"}
  /\ "ctor" \in CrashIn => MaxCrashes <= 1

RootType == [node_count : Nat, head : Oid, tail : Oid]

PMType ==
  /\ call \in {"down", "ctor", "idle", "listless", "add", "delete", "failed"} /\ step \in 0..3
  /\ node \in Oid /\ prev \in Oid
  /\ root \in RootType /\ droot \in RootType
  /\ next \in [Nodes -> Oid] /\ dnext \in [Nodes -> Oid]
  /\ heap \subseteq Nodes /\ held \subseteq Nodes /\ list \in Seq(Nodes) /\ crashes \in Nat

\* The nodes of l are linked in that order and the root describes them.
Linked(l, r, nx) ==
  /\ l # <<>>
  /\ r.node_count = Len(l) /\ r.head = l[1] /\ r.tail = l[Len(l)]
  /\ \A k \in 1..(Len(l) - 1) : nx[l[k]] = l[k + 1]
  /\ nx[l[Len(l)]] = Null

\* The nodes of the list are allocated, each is in it once, and the caller has
\* none of them. What the caller has is allocated and has no successor.
Owned ==
  /\ \A i, j \in 1..Len(list) : list[i] = list[j] => i = j
  /\ \A i \in 1..Len(list) : list[i] \in heap \/ (call = "delete" /\ list[i] = node)
  /\ \A i \in 1..Len(list) : list[i] \notin held
  /\ \A n \in held : n \in heap /\ next[n] = Null /\ dnext[n] = Null
  /\ call \notin {"idle", "listless", "add", "delete"} => held = {}

\* Nobody is working on the list.
AtRest ==
  list # <<>> /\ call \in {"down", "idle"} =>
    /\ Linked(list, root, next)
    /\ droot = root
    /\ \A k \in 1..Len(list) : dnext[list[k]] = next[list[k]]

MayCrash == "ctor" \in CrashIn /\ crashes < MaxCrashes

\* No constructor has returned: a root that looks like a list is one, of one
\* node that was linked before the failure.
Unmade ==
  /\ call \in {"idle", "add", "delete"} => list # <<>>
  /\ call \in {"ctor", "failed", "listless"} => list = <<>>
  /\ list = <<>> /\ call = "down" =>
       /\ droot = root
       /\ check_list_exist => /\ root.node_count = 1 /\ root.head = root.tail /\ root.head \in heap
                              /\ next[root.head] = Null /\ dnext[root.head] = Null
       /\ MayCrash => root.head = Null /\ root.tail = Null

\* Inside the constructor.
Constructing ==
  call = "ctor" =>
    /\ step \in 1..3 /\ root.node_count = 1
    /\ step \in {2, 3} => node \in heap /\ next[node] = Null /\ dnext[node] = Null
    /\ step \in {1, 2} /\ MayCrash => /\ droot.head = Null /\ droot.tail = Null
                                      /\ root.head = Null /\ root.tail = Null
    /\ step = 3 => root.head = node /\ root.tail = node
    /\ step = 3 /\ MayCrash => /\ droot.head \in {Null, node} /\ droot.tail \in {Null, node}
                               /\ droot.head # Null => droot.node_count = 1

\* Inside add_node_to_tail: the list is the longer one for the CPU.
Adding ==
  call = "add" =>
    /\ node \in heap \ held /\ \A i \in 1..Len(list) : list[i] # node
    /\ prev = list[Len(list)]
    /\ Linked(Append(list, node), root, next)
    /\ \A k \in 1..(Len(list) - 1) : dnext[list[k]] = next[list[k]]
    /\ dnext[node] = Null

\* Inside delete_node_from_list: the list is the shorter one for the CPU, but
\* for the tail.
DeletingAt(i) ==
  /\ prev = list[i] /\ node = list[i + 1]
  /\ step = 1 => node \in heap /\ root.tail = list[Len(list)]
  /\ step = 2 => node \notin heap /\ root.tail = list[IF i + 1 = Len(list) THEN i ELSE Len(list)]
  /\ step \in 1..2
  /\ root.node_count = Len(list) - 1 /\ root.head = list[1]
  /\ \A k \in 1..(Len(list) - 1) :
       k \notin {i, i + 1} => next[list[k]] = list[k + 1] /\ dnext[list[k]] = next[list[k]]
  /\ next[prev] = IF i + 1 = Len(list) THEN Null ELSE list[i + 2]
  /\ i + 1 # Len(list) => next[list[Len(list)]] = Null /\ dnext[list[Len(list)]] = Null

Deleting == call = "delete" => \E i \in 1..(Len(list) - 1) : DeletingAt(i)

\* A root that is not there, or is too small, describes no list.
RootMade ==
  /\ rootSize \in 0..NodeBytes
  /\ rootSize < NodeBytes => root = Empty /\ droot = Empty /\ list = <<>>
  /\ call = "listless" => rootSize < NodeBytes
  /\ call = "ctor" => rootSize = NodeBytes

ListInv == PMType /\ Owned /\ AtRest /\ Unmade /\ Constructing /\ Adding /\ Deleting

PMInv == ListInv /\ RootMade

-----------------------------------------------------------------------------
(* Facts about sequences. *)

LEMMA Removed ==
  ASSUME NEW s \in Seq(Nodes), NEW j \in 1..Len(s)
  PROVE  /\ RemoveAt(s, j) \in Seq(Nodes) /\ Len(RemoveAt(s, j)) = Len(s) - 1
         /\ \A k \in 1..(Len(s) - 1) : RemoveAt(s, j)[k] = IF k < j THEN s[k] ELSE s[k + 1]
<1> DEFINE a == SubSeq(s, 1, j - 1)  b == SubSeq(s, j + 1, Len(s))
<1>1. a \in Seq(Nodes) /\ Len(a) = j - 1 /\ \A k \in 1..(j - 1) : a[k] = s[k]
  OBVIOUS
<1>2. b \in Seq(Nodes) /\ Len(b) = Len(s) - j /\ \A k \in 1..(Len(s) - j) : b[k] = s[j + k]
  OBVIOUS
<1>3. RemoveAt(s, j) = a \o b
  BY DEF RemoveAt
<1> HIDE DEF a, b
<1>4. a \o b \in Seq(Nodes) /\ Len(a \o b) = Len(s) - 1
  <2>1. a \o b \in Seq(Nodes) /\ Len(a \o b) = Len(a) + Len(b)
    BY ONLY <1>1, <1>2, ConcatProperties
  <2> QED
    BY <1>1, <1>2, <2>1
<1>5. ASSUME NEW k \in 1..(Len(s) - 1) PROVE (a \o b)[k] = IF k < j THEN s[k] ELSE s[k + 1]
  <2>1. (a \o b)[k] = IF k <= Len(a) THEN a[k] ELSE b[k - Len(a)]
    BY <1>1, <1>2
  <2>2. CASE k < j
    BY <1>1, <2>1, <2>2
  <2>3. CASE ~(k < j)
    <3>1. k - Len(a) \in 1..(Len(s) - j) /\ j + (k - Len(a)) = k + 1
      BY <1>1, <2>3
    <3> QED
      BY <1>1, <1>2, <2>1, <2>3, <3>1
  <2> QED
    BY <2>2, <2>3
<1> QED
  BY <1>3, <1>4, <1>5

LEMMA Appended ==
  ASSUME NEW s \in Seq(Nodes), NEW n \in Nodes
  PROVE  /\ Append(s, n) \in Seq(Nodes) /\ Len(Append(s, n)) = Len(s) + 1
         /\ \A k \in 1..Len(s) : Append(s, n)[k] = s[k]
         /\ Append(s, n)[Len(s) + 1] = n
  OBVIOUS

-----------------------------------------------------------------------------
LEMMA PMInitInv == PMInit => PMInv
<1> SUFFICES ASSUME PMInit PROVE PMInv
  OBVIOUS
<1> USE PMGroupAssumption DEF PMInit
<1>1. Empty \in RootType
  BY DEF Empty, RootType, Oid
<1>2. PMType
  BY <1>1 DEF PMType, Oid
<1>3. Owned
  BY DEF Owned
<1>4. AtRest /\ Constructing /\ Adding /\ Deleting
  BY DEF AtRest, Constructing, Adding, Deleting
<1>5. Unmade
  BY DEF Unmade, Empty, check_list_exist
<1>6. RootMade
  BY DEF RootMade, NodeBytes
<1> QED
  BY <1>2, <1>3, <1>4, <1>5, <1>6 DEF PMInv, ListInv

-----------------------------------------------------------------------------
(* The constructor. *)

LEMMA ConstructInv ==
  ASSUME PMInv, CrashesSurvived, Construct
  PROVE  ListInv'
<1> USE PMGroupAssumption DEF PMInv, ListInv, Construct
<1>1. CASE check_list_exist /\ list = <<>>
  <2>1. /\ root.head \in heap /\ root.head = root.tail /\ root.node_count = 1 /\ droot = root
        /\ next[root.head] = Null /\ dnext[root.head] = Null /\ held = {}
    BY <1>1 DEF Unmade, Owned
  <2>2. list' = <<root.head>> /\ call' = "idle" /\ UNCHANGED <<step, root, node, prev, next, pm, heap, held, crashes>>
    BY <1>1
  <2>3. root.head \in Nodes
    BY <2>1 DEF PMType
  <2>4. list' \in Seq(Nodes) /\ Len(list') = 1 /\ list'[1] = root.head
    BY <2>2, <2>3
  <2>5. PMType'
    BY <2>2, <2>4 DEF PMType, pm
  <2>6. Owned'
    BY <2>1, <2>2, <2>4 DEF Owned
  <2>7. AtRest'
    BY <2>1, <2>2, <2>4 DEF AtRest, Linked, pm
  <2>8. Unmade' /\ Constructing' /\ Adding' /\ Deleting'
    BY <2>2, <2>4 DEF Unmade, Constructing, Adding, Deleting
  <2> QED
    BY <2>5, <2>6, <2>7, <2>8
<1>2. CASE check_list_exist /\ list # <<>>
  <2>1. call' = "idle" /\ UNCHANGED <<list, step, root, node, prev, next, pm, heap, held, crashes>>
    BY <1>2
  <2>2. PMType' /\ Owned'
    BY <2>1 DEF PMType, Owned, pm
  <2>3. AtRest'
    BY <1>2, <2>1 DEF AtRest, Linked, pm
  <2>4. Unmade' /\ Constructing' /\ Adding' /\ Deleting'
    BY <1>2, <2>1 DEF Unmade, Constructing, Adding, Deleting
  <2> QED
    BY <2>2, <2>3, <2>4
<1>3. CASE ~check_list_exist
  <2>1. list = <<>>
    <3>1. ASSUME list # <<>> PROVE check_list_exist
      BY <3>1 DEF AtRest, Linked, check_list_exist, PMType
    <3> QED
      BY <1>3, <3>1
  <2>2. /\ call' = "ctor" /\ step' = 1 /\ root' = [root EXCEPT !.node_count = 1]
        /\ UNCHANGED <<list, node, prev, next, pm, heap, held, crashes>>
    BY <1>3
  <2>3. root' \in RootType /\ root'.node_count = 1 /\ root'.head = root.head /\ root'.tail = root.tail
    BY <2>2 DEF PMType, RootType
  <2>4. PMType'
    BY <2>2, <2>3 DEF PMType, pm
  <2>5. Owned'
    BY <2>1, <2>2 DEF Owned
  <2>6. Constructing'
    BY <2>1, <2>2, <2>3 DEF Unmade, Constructing, MayCrash, pm
  <2>7. Unmade' /\ AtRest' /\ Adding' /\ Deleting'
    BY <2>1, <2>2 DEF Unmade, AtRest, Adding, Deleting
  <2> QED
    BY <2>4, <2>5, <2>6, <2>7
<1> QED
  BY <1>1, <1>2, <1>3

\* A constructor without a root, and an add to the group it makes.
LEMMA NoRootInv ==
  ASSUME PMInv, ConstructNoRoot \/ AddWithoutList
  PROVE  ListInv'
<1> USE PMGroupAssumption DEF PMInv, ListInv
<1>1. /\ call \in {"down", "listless"} /\ call' \in {"down", "listless"}
      /\ rootSize < NodeBytes /\ held' \subseteq held
      /\ call' = "down" => held' = {}
      /\ UNCHANGED <<step, node, prev, root, next, pm, heap, list, crashes>>
  BY DEF ConstructNoRoot, AddWithoutList, RootMade, Owned
<1>2. list = <<>> /\ root = Empty /\ droot = Empty
  BY <1>1 DEF RootMade
<1>3. PMType'
  BY <1>1 DEF PMType, pm
<1>4. Owned'
  BY <1>1, <1>2 DEF Owned, pm
<1>5. AtRest' /\ Constructing' /\ Adding' /\ Deleting'
  BY <1>1, <1>2 DEF AtRest, Constructing, Adding, Deleting
<1>6. Unmade'
  BY <1>1, <1>2 DEF Unmade, Empty, check_list_exist, pm
<1> QED
  BY <1>3, <1>4, <1>5, <1>6

LEMMA AllocatedType ==
  ASSUME PMType, NEW n \in Nodes, AllocatedNode(n)
  PROVE  /\ heap' = heap \cup {n} /\ heap' \subseteq Nodes /\ n \notin heap
         /\ next' \in [Nodes -> Oid] /\ dnext' \in [Nodes -> Oid]
         /\ \A m \in Nodes : next'[m] = IF m = n THEN Null ELSE next[m]
         /\ \A m \in Nodes : dnext'[m] = IF m = n THEN Null ELSE dnext[m]
  BY DEF AllocatedNode, PMType, Oid

LEMMA ConstructorInv ==
  ASSUME PMInv, CrashesSurvived,
         ConstructAlloc \/ ConstructFails \/ ConstructLink \/ ConstructPersist
  PROVE  ListInv'
<1> USE PMGroupAssumption DEF PMInv, ListInv
<1>0. call = "ctor" => list = <<>> /\ held = {}
  BY DEF Unmade, Owned
<1>1. CASE ConstructAlloc
  <2>1. PICK n \in Nodes : AllocatedNode(n) /\ node' = n
    BY <1>1 DEF ConstructAlloc
  <2>2. /\ call = "ctor" /\ step = 1 /\ step' = 2
        /\ UNCHANGED <<call, prev, root, droot, held, list, crashes>>
    BY <1>1 DEF ConstructAlloc
  <2>3. PMType'
    BY <2>1, <2>2, AllocatedType DEF PMType, Oid
  <2>4. Owned' /\ AtRest' /\ Adding' /\ Deleting'
    BY <1>0, <2>2 DEF Owned, AtRest, Adding, Deleting
  <2>5. Unmade'
    BY <1>0, <2>2 DEF Unmade
  <2>6. Constructing'
    BY <2>1, <2>2, AllocatedType DEF Constructing, MayCrash
  <2> QED
    BY <2>3, <2>4, <2>5, <2>6
<1>2. CASE ConstructFails
  <2> USE <1>2 DEF ConstructFails
  <2>1. PMType'
    BY DEF PMType, pm
  <2>2. Owned' /\ AtRest' /\ Adding' /\ Deleting' /\ Unmade' /\ Constructing'
    BY <1>0 DEF Owned, AtRest, Adding, Deleting, Unmade, Constructing
  <2> QED
    BY <2>1, <2>2
<1>3. CASE ConstructLink
  <2> USE <1>3 DEF ConstructLink
  <2>1. root' \in RootType /\ root'.node_count = 1 /\ root'.head = node /\ root'.tail = node /\ node \in heap
    BY DEF PMType, RootType, Constructing
  <2>2. PMType'
    BY <2>1 DEF PMType, pm
  <2>3. Owned' /\ AtRest' /\ Adding' /\ Deleting' /\ Unmade'
    BY <1>0 DEF Owned, AtRest, Adding, Deleting, Unmade
  <2>4. Constructing'
    BY <2>1 DEF Constructing, MayCrash, pm
  <2> QED
    BY <2>2, <2>3, <2>4
<1>4. CASE ConstructPersist
  <2>1. /\ call = "ctor" /\ step = 3 /\ droot' = root /\ list' = <<node>> /\ call' = "idle" /\ step' = 0
        /\ UNCHANGED <<node, prev, root, next, dnext, heap, held, crashes>>
    BY <1>4 DEF ConstructPersist
  <2>2. /\ node \in Nodes /\ node \in heap /\ next[node] = Null /\ dnext[node] = Null
        /\ root.node_count = 1 /\ root.head = node /\ root.tail = node
    BY <2>1 DEF Constructing, PMType
  <2>3. list' \in Seq(Nodes) /\ Len(list') = 1 /\ list'[1] = node
    BY <2>1, <2>2
  <2>4. PMType'
    BY <2>1, <2>3 DEF PMType
  <2>5. Owned'
    BY <1>0, <2>1, <2>2, <2>3 DEF Owned
  <2>6. AtRest'
    BY <2>1, <2>2, <2>3 DEF AtRest, Linked
  <2>7. Unmade' /\ Constructing' /\ Adding' /\ Deleting'
    BY <2>1, <2>3 DEF Unmade, Constructing, Adding, Deleting
  <2> QED
    BY <2>4, <2>5, <2>6, <2>7
<1> QED
  BY <1>1, <1>2, <1>3, <1>4

-----------------------------------------------------------------------------
(* The caller's operations. *)

LEMMA AllocInv ==
  ASSUME PMInv, alloc_node \/ free_node
  PROVE  ListInv'
<1> USE PMGroupAssumption DEF PMInv, ListInv
<1>1. CASE alloc_node
  <2>1. PICK n \in Nodes : AllocatedNode(n) /\ held' = held \cup {n}
    BY <1>1 DEF alloc_node
  <2>2. call \in {"idle", "listless"} /\ UNCHANGED <<call, step, node, prev, root, droot, list, crashes>>
    BY <1>1 DEF alloc_node
  <2>3. \A i \in 1..Len(list) : list[i] \in heap /\ list[i] \in Nodes /\ list[i] # n
    BY <2>1, <2>2, AllocatedType DEF Owned, PMType
  <2>4. list # <<>> <=> call = "idle"
    BY <2>2 DEF Unmade
  <2>5. PMType'
    BY <2>1, <2>2, AllocatedType DEF PMType
  <2>6. Owned'
    BY <2>1, <2>2, <2>3, AllocatedType DEF Owned, PMType
  <2>7. AtRest'
    <3>1. \A i \in 1..Len(list) : next'[list[i]] = next[list[i]] /\ dnext'[list[i]] = dnext[list[i]]
      BY <2>1, <2>3, AllocatedType
    <3>2. list # <<>> => Len(list) \in 1..Len(list) /\ Len(list) \in Nat
      BY DEF PMType
    <3> QED
      BY <2>2, <2>4, <3>1, <3>2 DEF AtRest, Linked
  <2>8. Unmade' /\ Constructing' /\ Adding' /\ Deleting'
    BY <2>2, <2>4 DEF Unmade, Constructing, Adding, Deleting
  <2> QED
    BY <2>5, <2>6, <2>7, <2>8
<1>2. CASE free_node
  <2>1. PICK n \in held : held' = held \ {n} /\ heap' = heap \ {n}
    BY <1>2 DEF free_node
  <2>2. call \in {"idle", "listless"} /\ UNCHANGED <<call, step, node, prev, root, next, pm, list, crashes>>
    BY <1>2 DEF free_node
  <2>3. PMType'
    BY <2>1, <2>2 DEF PMType, pm
  <2>4. Owned'
    BY <2>1, <2>2 DEF Owned, pm
  <2>5. AtRest' /\ Unmade' /\ Constructing' /\ Adding' /\ Deleting'
    BY <2>2 DEF AtRest, Linked, Unmade, Constructing, Adding, Deleting, pm
  <2> QED
    BY <2>3, <2>4, <2>5
<1> QED
  BY <1>1, <1>2

LEMMA AddInv ==
  ASSUME PMInv, add_node_to_tail
  PROVE  ListInv'
<1> USE PMGroupAssumption DEF PMInv, ListInv
<1>1. PICK n \in held :
        /\ node' = n /\ held' = held \ {n}
        /\ next' = [next EXCEPT ![root.tail] = n]
        /\ prev' = root.tail
        /\ root' = [root EXCEPT !.tail = n, !.node_count = @ + 1]
  BY DEF add_node_to_tail
<1>2. call = "idle" /\ call' = "add" /\ step' = 1 /\ UNCHANGED <<pm, heap, list, crashes>>
  BY DEF add_node_to_tail
<1>3. /\ Linked(list, root, next) /\ list # <<>> /\ list \in Seq(Nodes)
      /\ \A k \in 1..Len(list) : dnext[list[k]] = next[list[k]]
  BY <1>2 DEF AtRest, Unmade, PMType
<1>4. n \in Nodes /\ n \in heap /\ next[n] = Null /\ dnext[n] = Null /\ \A i \in 1..Len(list) : list[i] # n
  BY DEF Owned, PMType
<1>5. Len(list) \in Nat /\ Len(list) \in 1..Len(list) /\ root.tail = list[Len(list)] /\ root.tail \in Nodes
  BY <1>3 DEF Linked
<1>6. \A m \in Nodes : next'[m] = IF m = root.tail THEN n ELSE next[m]
  BY <1>1, <1>5 DEF PMType
<1>7. /\ root' \in RootType /\ root'.tail = n /\ root'.head = root.head /\ root'.node_count = Len(list) + 1
      /\ next' \in [Nodes -> Oid]
  <2>1. root \in RootType /\ root.node_count = Len(list) /\ n \in Oid
    BY <1>3, <1>4 DEF PMType, Linked, Oid
  <2>2. root' \in RootType /\ root'.tail = n /\ root'.head = root.head /\ root'.node_count = Len(list) + 1
    <3>1. root' = [node_count |-> Len(list) + 1, head |-> root.head, tail |-> n]
      BY <1>1, <2>1 DEF RootType
    <3>2. Len(list) + 1 \in Nat /\ root.head \in Oid
      BY <1>5, <2>1 DEF RootType
    <3> QED
      BY <2>1, <3>1, <3>2 DEF RootType
  <2>3. next' \in [Nodes -> Oid]
    BY <1>1, <2>1 DEF PMType
  <2> QED
    BY <2>2, <2>3
<1>8. \A k \in 1..(Len(list) - 1) : list[k] # root.tail /\ list[k] \in Nodes /\ k \in 1..Len(list)
  BY <1>3, <1>5 DEF Owned
<1>9. PMType'
  BY <1>1, <1>2, <1>4, <1>5, <1>7 DEF PMType, pm, Oid
<1>10. Owned'
  BY <1>1, <1>2, <1>4, <1>5, <1>6 DEF Owned, pm, PMType
<1>11. Linked(Append(list, n), root', next')
  <2> DEFINE l == Append(list, n)
  <2>1. l \in Seq(Nodes) /\ Len(l) = Len(list) + 1 /\ l[Len(list) + 1] = n /\ \A k \in 1..Len(list) : l[k] = list[k]
    BY <1>3, <1>4, Appended
  <2> HIDE DEF l
  <2>2. l # <<>> /\ root'.node_count = Len(l) /\ root'.head = l[1] /\ root'.tail = l[Len(l)]
    BY <1>3, <1>5, <1>7, <2>1 DEF Linked
  <2>3. ASSUME NEW k \in 1..(Len(l) - 1) PROVE next'[l[k]] = l[k + 1]
    <3>1. CASE k = Len(list)
      BY <1>5, <1>6, <2>1, <3>1
    <3>2. CASE k # Len(list)
      <4>1. k \in 1..(Len(list) - 1) /\ k + 1 \in 1..Len(list)
        BY <1>5, <2>1, <3>2
      <4>2. next'[list[k]] = next[list[k]] /\ next[list[k]] = list[k + 1]
        BY <1>3, <1>6, <1>8, <4>1 DEF Linked
      <4> QED
        BY <1>8, <2>1, <4>1, <4>2
    <3> QED
      BY <3>1, <3>2
  <2>4. next'[l[Len(l)]] = Null
    BY <1>4, <1>5, <1>6, <2>1
  <2> QED
    BY <2>2, <2>3, <2>4 DEF Linked, l
<1>12. Adding'
  <2>1. \A k \in 1..(Len(list) - 1) : dnext[list[k]] = next'[list[k]]
    BY <1>3, <1>6, <1>8
  <2> QED
    BY <1>1, <1>2, <1>4, <1>5, <1>11, <2>1 DEF Adding, pm
<1>13. AtRest' /\ Unmade' /\ Constructing' /\ Deleting'
  BY <1>2, <1>3 DEF AtRest, Unmade, Constructing, Deleting
<1> QED
  BY <1>9, <1>10, <1>12, <1>13

LEMMA AddPersistInv ==
  ASSUME PMInv, AddPersist
  PROVE  ListInv'
<1> USE PMGroupAssumption DEF PMInv, ListInv
<1>1. /\ call = "add" /\ call' = "idle" /\ step' = 0
      /\ dnext' = [m \in Nodes |-> IF m \in FlushedByAdd THEN next[m] ELSE dnext[m]]
      /\ droot' = root /\ list' = Append(list, node)
      /\ UNCHANGED <<node, prev, root, next, heap, held, crashes>>
  BY DEF AddPersist
<1>2. /\ node \in heap \ held /\ node \in Nodes /\ list \in Seq(Nodes) /\ list # <<>>
      /\ \A i \in 1..Len(list) : list[i] # node
      /\ prev = list[Len(list)] /\ Linked(Append(list, node), root, next)
      /\ \A k \in 1..(Len(list) - 1) : dnext[list[k]] = next[list[k]]
      /\ dnext[node] = Null
  BY <1>1 DEF Adding, PMType, Unmade
<1>3. Len(list) \in Nat /\ Len(list) \in 1..Len(list)
  BY <1>2
<1>4. /\ list' \in Seq(Nodes) /\ Len(list') = Len(list) + 1 /\ list'[Len(list) + 1] = node /\ list' # <<>>
      /\ \A k \in 1..Len(list) : list'[k] = list[k]
  BY <1>1, <1>2, Appended
<1>5. PMType'
  <2>1. dnext' \in [Nodes -> Oid]
    BY <1>1 DEF PMType
  <2> QED
    BY <1>1, <1>4, <2>1 DEF PMType
<1>6. \A k \in 1..Len(list') : dnext'[list'[k]] = next[list'[k]] /\ list'[k] \in Nodes
  <2> SUFFICES ASSUME NEW k \in 1..Len(list')
               PROVE  dnext'[list'[k]] = next[list'[k]] /\ list'[k] \in Nodes
    OBVIOUS
  <2>1. CASE k = Len(list) + 1
    <3>1. next[node] = Null
      BY <1>1, <1>2, <1>4 DEF Linked
    <3> QED
      BY <1>1, <1>2, <1>4, <2>1, <3>1
  <2>2. CASE k = Len(list)
    <3>1. list'[k] = prev /\ prev \in Nodes
      BY <1>2, <1>3, <1>4, <2>2
    <3> QED
      BY <1>1, <3>1 DEF FlushedByAdd
  <2>3. CASE k \in 1..(Len(list) - 1)
    <3>1. k \in 1..Len(list) /\ list'[k] = list[k] /\ list[k] \in Nodes
      BY <1>2, <1>3, <1>4, <2>3
    <3> QED
      BY <1>1, <1>2, <2>3, <3>1
  <2> QED
    BY <1>3, <1>4, <2>1, <2>2, <2>3
<1>7. Owned'
  <2>1. \A i, j \in 1..Len(list') : list'[i] = list'[j] => i = j
    BY <1>2, <1>3, <1>4 DEF Owned
  <2>2. \A i \in 1..Len(list') : list'[i] \in heap /\ list'[i] \notin held
    BY <1>1, <1>2, <1>3, <1>4 DEF Owned
  <2>3. \A n \in held : n \in heap /\ next[n] = Null /\ dnext'[n] = Null
    BY <1>1 DEF Owned, PMType
  <2> QED
    BY <1>1, <2>1, <2>2, <2>3 DEF Owned
<1>8. AtRest'
  BY <1>1, <1>2, <1>6 DEF AtRest
<1>9. Unmade' /\ Constructing' /\ Adding' /\ Deleting'
  BY <1>1, <1>4 DEF Unmade, Constructing, Adding, Deleting
<1> QED
  BY <1>5, <1>7, <1>8, <1>9

LEMMA DeleteInv ==
  ASSUME PMInv, delete_node_from_list
  PROVE  ListInv'
<1> USE PMGroupAssumption DEF PMInv, ListInv
<1>1. PICK i \in 1..(Len(list) - 1) :
        /\ prev' = list[i] /\ node' = list[i + 1]
        /\ next' = [next EXCEPT ![list[i]] = next[list[i + 1]]]
  BY DEF delete_node_from_list
<1>2. /\ call = "idle" /\ call' = "delete" /\ step' = 1
      /\ root' = [root EXCEPT !.node_count = @ - 1]
      /\ UNCHANGED <<pm, heap, held, list, crashes>>
  BY DEF delete_node_from_list
<1>3. /\ Linked(list, root, next) /\ list # <<>> /\ list \in Seq(Nodes)
      /\ \A k \in 1..Len(list) : dnext[list[k]] = next[list[k]]
  BY <1>2 DEF AtRest, Unmade, PMType
<1>4. /\ Len(list) \in Nat /\ i \in 1..Len(list) /\ i + 1 \in 1..Len(list) /\ Len(list) \in 1..Len(list)
      /\ \A k \in 1..Len(list) : list[k] \in Nodes /\ list[k] \in heap
      /\ \A k, j \in 1..Len(list) : list[k] = list[j] => k = j
  BY <1>1, <1>2, <1>3 DEF Owned, PMType
<1>5. next' \in [Nodes -> Oid] /\ \A m \in Nodes : next'[m] = IF m = list[i] THEN next[list[i + 1]] ELSE next[m]
  BY <1>1, <1>4 DEF PMType
<1>6. /\ root' \in RootType /\ root'.node_count = Len(list) - 1
      /\ root'.head = list[1] /\ root'.tail = list[Len(list)]
  <2>1. root \in RootType /\ root.node_count = Len(list) /\ Len(list) - 1 \in Nat
    BY <1>1, <1>3, <1>4 DEF PMType, Linked
  <2> QED
    BY <1>2, <1>3, <2>1 DEF RootType, Linked
<1>7. PMType'
  BY <1>1, <1>2, <1>4, <1>5, <1>6 DEF PMType, pm, Oid
<1>8. Owned'
  BY <1>2, <1>4, <1>5 DEF Owned, pm, PMType
<1>9. \A k \in 1..(Len(list) - 1) :
         k \notin {i, i + 1} => next'[list[k]] = list[k + 1] /\ dnext[list[k]] = next'[list[k]]
  <2> SUFFICES ASSUME NEW k \in 1..(Len(list) - 1), k \notin {i, i + 1}
               PROVE  next'[list[k]] = list[k + 1] /\ dnext[list[k]] = next'[list[k]]
    OBVIOUS
  <2>1. k \in 1..Len(list) /\ list[k] # list[i] /\ list[k] \in Nodes
    BY <1>4
  <2>2. next'[list[k]] = next[list[k]] /\ next[list[k]] = list[k + 1]
    BY <1>3, <1>5, <2>1 DEF Linked
  <2> QED
    BY <1>3, <2>1, <2>2
<1>10. next'[list[i]] = IF i + 1 = Len(list) THEN Null ELSE list[i + 2]
  <2>1. next'[list[i]] = next[list[i + 1]]
    BY <1>4, <1>5
  <2>2. CASE i + 1 = Len(list)
    BY <1>3, <2>1, <2>2 DEF Linked
  <2>3. CASE i + 1 # Len(list)
    <3>1. i + 1 \in 1..(Len(list) - 1) /\ (i + 1) + 1 = i + 2
      BY <1>4, <2>3
    <3> QED
      BY <1>3, <2>1, <2>3, <3>1 DEF Linked
  <2> QED
    BY <2>2, <2>3
<1>11. i + 1 # Len(list) => next'[list[Len(list)]] = Null /\ dnext[list[Len(list)]] = Null
  <2> SUFFICES ASSUME i + 1 # Len(list) PROVE next'[list[Len(list)]] = Null /\ dnext[list[Len(list)]] = Null
    OBVIOUS
  <2>1. list[Len(list)] # list[i] /\ list[Len(list)] \in Nodes
    BY <1>1, <1>4
  <2> QED
    BY <1>3, <1>4, <1>5, <2>1 DEF Linked
<1>12. Deleting'
  <2>1. 1 \in 1..2 /\ 1 # 2
    OBVIOUS
  <2>2. list[i + 1] \in heap
    BY <1>4
  <2>3. DeletingAt(i)'
    BY <1>1, <1>2, <1>6, <1>9, <1>10, <1>11, <2>1, <2>2 DEF DeletingAt, pm
  <2> QED
    BY <1>2, <2>3 DEF Deleting
<1>13. AtRest' /\ Unmade' /\ Constructing' /\ Adding'
  BY <1>2, <1>3 DEF AtRest, Unmade, Constructing, Adding
<1> QED
  BY <1>7, <1>8, <1>12, <1>13

LEMMA DeleteFreeInv ==
  ASSUME PMInv, DeleteFree
  PROVE  ListInv'
<1> USE PMGroupAssumption DEF PMInv, ListInv
<1>1. /\ call = "delete" /\ step = 1 /\ step' = 2 /\ heap' = heap \ {node}
      /\ root' = [root EXCEPT !.tail = TailAfterDelete]
      /\ UNCHANGED <<call, node, prev, next, pm, held, list, crashes>>
  BY DEF DeleteFree
<1>2. PICK i \in 1..(Len(list) - 1) : DeletingAt(i)
  BY <1>1 DEF Deleting
<1>3. /\ list \in Seq(Nodes) /\ Len(list) \in Nat /\ i \in 1..Len(list) /\ i + 1 \in 1..Len(list)
      /\ Len(list) \in 1..Len(list)
      /\ \A k, j \in 1..Len(list) : list[k] = list[j] => k = j
      /\ \A k \in 1..Len(list) : list[k] \in Nodes
  BY <1>2 DEF Owned, PMType
<1>4. /\ prev = list[i] /\ node = list[i + 1] /\ node \in heap /\ root.tail = list[Len(list)]
      /\ node \notin held
  BY <1>1, <1>2, <1>3 DEF DeletingAt, Owned
<1>5. TailAfterDelete = list[IF i + 1 = Len(list) THEN i ELSE Len(list)]
  BY <1>3, <1>4 DEF TailAfterDelete
<1>6. /\ root' \in RootType /\ root'.tail = TailAfterDelete
      /\ root'.head = root.head /\ root'.node_count = root.node_count
  <2>1. root \in RootType /\ TailAfterDelete \in Oid
    BY <1>3, <1>5 DEF PMType, Oid
  <2> QED
    BY <1>1, <2>1 DEF RootType
<1>7. PMType'
  BY <1>1, <1>6 DEF PMType, pm
<1>8. Owned'
  BY <1>1, <1>4 DEF Owned, pm
<1>9. DeletingAt(i)'
  <2>1. 2 \in 1..2 /\ 1 # 2
    OBVIOUS
  <2> QED
    BY <1>1, <1>2, <1>4, <1>5, <1>6, <2>1 DEF DeletingAt, pm
<1>10. Deleting'
  BY <1>1, <1>9 DEF Deleting
<1>11. AtRest' /\ Unmade' /\ Constructing' /\ Adding'
  BY <1>1 DEF AtRest, Unmade, Constructing, Adding
<1> QED
  BY <1>7, <1>8, <1>10, <1>11

LEMMA DeletePersistInv ==
  ASSUME PMInv, DeletePersist
  PROVE  ListInv'
<1> USE PMGroupAssumption DEF PMInv, ListInv
<1>1. /\ call = "delete" /\ step = 2 /\ call' = "idle" /\ step' = 0
      /\ dnext' = [dnext EXCEPT ![prev] = next[prev]] /\ droot' = root
      /\ UNCHANGED <<node, prev, root, next, heap, held, crashes>>
  BY DEF DeletePersist
<1>2. PICK i \in 1..(Len(list) - 1) : DeletingAt(i)
  BY <1>1 DEF Deleting
<1>3. /\ list \in Seq(Nodes) /\ Len(list) \in Nat /\ i \in 1..Len(list) /\ i + 1 \in 1..Len(list)
      /\ Len(list) \in 1..Len(list) /\ i \in Nat
      /\ \A k, j \in 1..Len(list) : list[k] = list[j] => k = j
      /\ \A k \in 1..Len(list) : list[k] \in Nodes
  BY <1>2 DEF Owned, PMType
<1>4. /\ prev = list[i] /\ node = list[i + 1] /\ node \notin heap
      /\ root.tail = list[IF i + 1 = Len(list) THEN i ELSE Len(list)]
      /\ root.node_count = Len(list) - 1 /\ root.head = list[1]
      /\ \A k \in 1..(Len(list) - 1) :
           k \notin {i, i + 1} => next[list[k]] = list[k + 1] /\ dnext[list[k]] = next[list[k]]
      /\ next[list[i]] = IF i + 1 = Len(list) THEN Null ELSE list[i + 2]
      /\ i + 1 # Len(list) => next[list[Len(list)]] = Null /\ dnext[list[Len(list)]] = Null
  BY <1>1, <1>2 DEF DeletingAt
<1>5. list' = RemoveAt(list, i + 1)
  <2>1. PICK j \in DOMAIN list : list[j] = node /\ list' = RemoveAt(list, j)
    BY DEF DeletePersist
  <2>2. j = i + 1
    BY <1>3, <1>4, <2>1
  <2> QED
    BY <2>1, <2>2
<1>6. /\ list' \in Seq(Nodes) /\ Len(list') = Len(list) - 1
      /\ \A k \in 1..(Len(list) - 1) : list'[k] = IF k < i + 1 THEN list[k] ELSE list[k + 1]
  BY <1>3, <1>5, Removed
<1>7. Len(list) - 1 \in 1..(Len(list) - 1) /\ Len(list') \in 1..Len(list') /\ list' # <<>>
  BY <1>2, <1>3, <1>6
<1>8. dnext' \in [Nodes -> Oid] /\ \A m \in Nodes : dnext'[m] = IF m = list[i] THEN next[list[i]] ELSE dnext[m]
  BY <1>1, <1>3, <1>4 DEF PMType
<1>9. PMType'
  BY <1>1, <1>6, <1>8 DEF PMType
<1> DEFINE At(k) == IF k < i + 1 THEN k ELSE k + 1
<1>10. \A k \in 1..Len(list') : /\ list'[k] = list[At(k)] /\ At(k) \in 1..Len(list) /\ At(k) # i + 1
                                /\ list'[k] \in Nodes
  BY <1>3, <1>6
<1>11. Owned'
  <2>1. \A k, j \in 1..Len(list') : list'[k] = list'[j] => k = j
    BY <1>3, <1>10
  <2>2. \A k \in 1..Len(list') : list'[k] \in heap /\ list'[k] \notin held
    BY <1>3, <1>4, <1>10 DEF Owned
  <2>3. \A n \in held : n # list[i] /\ n \in Nodes
    BY <1>3 DEF Owned, PMType
  <2>4. \A n \in held : n \in heap /\ next[n] = Null /\ dnext'[n] = Null
    BY <1>8, <2>3 DEF Owned
  <2> QED
    BY <1>1, <2>1, <2>2, <2>4 DEF Owned
<1>12. ASSUME NEW k \in 1..(Len(list') - 1) PROVE next[list'[k]] = list'[k + 1]
  <2>1. k \in 1..Len(list') /\ k + 1 \in 1..Len(list') /\ k \in 1..(Len(list) - 1) /\ k \in Nat
    BY <1>3, <1>6
  <2>2. CASE k < i
    BY <1>3, <1>4, <1>10, <2>1, <2>2
  <2>3. CASE k = i
    <3>1. i + 1 # Len(list) /\ list'[k] = list[i] /\ list'[k + 1] = list[i + 2]
      BY <1>3, <1>6, <1>10, <2>1, <2>3
    <3> QED
      BY <1>4, <3>1
  <2>4. CASE k > i
    <3>1. k + 1 \in 1..(Len(list) - 1) /\ k + 1 \notin {i, i + 1}
      BY <1>3, <1>6, <2>1, <2>4
    <3>2. list'[k] = list[k + 1] /\ list'[k + 1] = list[(k + 1) + 1]
      BY <1>3, <1>10, <2>1, <2>4
    <3> QED
      BY <1>4, <3>1, <3>2
  <2> QED
    BY <1>3, <2>1, <2>2, <2>3, <2>4
<1>13. list'[Len(list')] = list[IF i + 1 = Len(list) THEN i ELSE Len(list)] /\ list'[1] = list[1]
  BY <1>2, <1>3, <1>6, <1>7
<1>14. next[list'[Len(list')]] = Null
  BY <1>4, <1>13
<1>15. Linked(list', root', next')
  BY <1>1, <1>4, <1>6, <1>7, <1>12, <1>13, <1>14 DEF Linked
<1>16. ASSUME NEW k \in 1..Len(list') PROVE dnext'[list'[k]] = next[list'[k]]
  <2>1. PICK j \in 1..Len(list) : list'[k] = list[j] /\ j # i + 1 /\ list[j] \in Nodes
    BY <1>10
  <2>2. CASE j = i
    BY <1>8, <2>1, <2>2
  <2>3. CASE j # i
    <3>1. list[j] # list[i] /\ dnext'[list[j]] = dnext[list[j]]
      BY <1>3, <1>8, <2>1, <2>3
    <3>2. CASE j \in 1..(Len(list) - 1)
      <4>1. dnext[list[j]] = next[list[j]]
        BY <1>4, <2>1, <2>3, <3>2
      <4> QED
        BY <2>1, <3>1, <4>1
    <3>3. CASE j = Len(list)
      <4>1. i + 1 # Len(list)
        BY <2>1, <3>3
      <4> QED
        BY <1>4, <2>1, <3>1, <3>3, <4>1
    <3> QED
      BY <1>3, <3>2, <3>3
  <2> QED
    BY <2>2, <2>3
<1>17. AtRest'
  BY <1>1, <1>15, <1>16 DEF AtRest
<1>18. Unmade' /\ Constructing' /\ Adding' /\ Deleting'
  BY <1>1, <1>7 DEF Unmade, Constructing, Adding, Deleting
<1> QED
  BY <1>9, <1>11, <1>17, <1>18

-----------------------------------------------------------------------------
(* The end of the process, and the memory. *)

LEMMA CloseInv ==
  ASSUME PMInv, CloseGroup
  PROVE  ListInv'
<1> USE PMGroupAssumption DEF PMInv, ListInv, CloseGroup
<1>1. call = "idle" => list # <<>>
  BY DEF Unmade
<1>2. call = "listless" => list = <<>> /\ root = Empty /\ droot = Empty
  BY DEF RootMade
<1>3. PMType' /\ Owned'
  BY DEF PMType, Owned, pm
<1>4. AtRest' /\ Constructing' /\ Adding' /\ Deleting'
  BY <1>1, <1>2 DEF AtRest, Linked, Constructing, Adding, Deleting, pm
<1>5. Unmade'
  BY <1>1, <1>2 DEF Unmade, check_list_exist, Empty, pm
<1> QED
  BY <1>3, <1>4, <1>5

\* What a power failure leaves of a list at rest is that list.
LEMMA CrashInv ==
  ASSUME PMInv, CrashesSurvived, Crash
  PROVE  ListInv'
<1> USE PMGroupAssumption DEF PMInv, ListInv
<1>1. /\ call \in {"ctor", "idle", "listless"} /\ crashes < MaxCrashes /\ crashes' = crashes + 1
      /\ call \in CrashIn
      /\ root' = droot /\ next' = dnext /\ held' = {} /\ call' = "down" /\ step' = 0
      /\ UNCHANGED <<node, prev, pm, heap, list>>
  BY DEF Crash, CrashesSurvived
<1>2. PMType'
  BY <1>1 DEF PMType, pm
<1>3. Owned'
  BY <1>1 DEF Owned
<1>4. Constructing' /\ Adding' /\ Deleting'
  BY <1>1 DEF Constructing, Adding, Deleting
<1>5. CASE call = "idle"
  <2>1. list # <<>>
    BY <1>5 DEF Unmade
  <2>2. /\ Linked(list, root, next) /\ droot = root
        /\ \A k \in 1..Len(list) : dnext[list[k]] = next[list[k]]
    BY <1>5, <2>1 DEF AtRest
  <2>3. Len(list) \in Nat /\ Len(list) \in 1..Len(list)
    BY <2>1 DEF PMType
  <2>4. Linked(list, droot, dnext)
    BY <2>2, <2>3 DEF Linked
  <2>5. AtRest'
    BY <1>1, <2>2, <2>4 DEF AtRest, pm
  <2>6. Unmade'
    BY <1>1, <2>1 DEF Unmade
  <2> QED
    BY <1>2, <1>3, <1>4, <2>5, <2>6
<1>6. CASE call = "ctor"
  <2>1. list = <<>> /\ MayCrash /\ ~MayCrash'
    BY <1>1, <1>6 DEF Unmade, MayCrash, CrashesSurvived, PMType
  <2>2. AtRest'
    BY <1>1, <2>1 DEF AtRest
  <2>3. check_list_exist' =>
          /\ droot.node_count = 1 /\ droot.head = droot.tail /\ droot.head \in heap
          /\ dnext[droot.head] = Null
    BY <1>1, <1>6, <2>1 DEF Constructing, check_list_exist
  <2>4. Unmade'
    BY <1>1, <2>1, <2>3 DEF Unmade, pm
  <2> QED
    BY <1>2, <1>3, <1>4, <2>2, <2>4
<1>7. CASE call = "listless"
  <2>1. list = <<>> /\ droot = Empty
    BY <1>7 DEF RootMade
  <2>2. AtRest' /\ Unmade'
    BY <1>1, <2>1 DEF AtRest, Unmade, check_list_exist, Empty, pm
  <2> QED
    BY <1>2, <1>3, <1>4, <2>2
<1> QED
  BY <1>1, <1>5, <1>6, <1>7

LEMMA EvictInv ==
  ASSUME PMInv, EvictLine
  PROVE  ListInv'
<1> USE PMGroupAssumption DEF PMInv, ListInv
<1>1. UNCHANGED <<call, step, node, prev, root, next, heap, held, list, crashes>>
  BY DEF EvictLine
<1>2. /\ droot' \in RootType
      /\ dnext' \in [Nodes -> Oid] /\ \A m \in Nodes : dnext'[m] \in {dnext[m], next[m]}
      /\ droot'.tail \in {droot.tail, root.tail}
      /\ \/ droot'.node_count = root.node_count /\ droot'.head = root.head
         \/ droot'.node_count = droot.node_count /\ droot'.head = droot.head
      /\ droot = root => droot' = root
  <2>1. CASE /\ droot' = [droot EXCEPT !.node_count = root.node_count, !.head = root.head]
             /\ UNCHANGED dnext
    BY <2>1 DEF PMType, RootType
  <2>2. CASE droot' = [droot EXCEPT !.tail = root.tail] /\ UNCHANGED dnext
    BY <2>2 DEF PMType, RootType
  <2>3. CASE (\E n \in Nodes : dnext' = [dnext EXCEPT ![n] = next[n]]) /\ UNCHANGED droot
    BY <2>3 DEF PMType
  <2> QED
    BY <2>1, <2>2, <2>3 DEF EvictLine
<1>3. PMType'
  BY <1>1, <1>2 DEF PMType
<1>4. Owned'
  BY <1>1, <1>2 DEF Owned, PMType
<1>5. \A k \in 1..Len(list) : list[k] \in Nodes /\ (dnext[list[k]] = next[list[k]] => dnext'[list[k]] = next[list[k]])
  BY <1>2 DEF PMType
<1>6. AtRest'
  BY <1>1, <1>2, <1>5 DEF AtRest
<1>7. Unmade'
  BY <1>1, <1>2 DEF Unmade, check_list_exist, MayCrash, PMType
<1>8. Constructing'
  BY <1>1, <1>2 DEF Constructing, MayCrash, PMType
<1>9. Adding'
  BY <1>1, <1>2, <1>5 DEF Adding, Linked, PMType
<1>10. Deleting'
  <2> SUFFICES ASSUME NEW i \in 1..(Len(list) - 1), DeletingAt(i) PROVE DeletingAt(i)'
    BY <1>1 DEF Deleting
  <2>1. Len(list) \in Nat /\ Len(list) \in 1..Len(list) /\ \A k \in 1..(Len(list) - 1) : k \in 1..Len(list)
    BY DEF PMType
  <2>2. \A k \in 1..(Len(list) - 1) :
          k \notin {i, i + 1} => next[list[k]] = list[k + 1] /\ dnext'[list[k]] = next[list[k]]
    BY <1>5, <2>1 DEF DeletingAt
  <2>3. i + 1 # Len(list) => next[list[Len(list)]] = Null /\ dnext'[list[Len(list)]] = Null
    BY <1>5, <2>1 DEF DeletingAt
  <2> QED
    BY <1>1, <2>2, <2>3 DEF DeletingAt
<1> QED
  BY <1>3, <1>4, <1>6, <1>7, <1>8, <1>9, <1>10

LEMMA PMNextInv ==
  ASSUME PMInv, CrashesSurvived, [PMNext]_pmVars
  PROVE  ListInv'
<1>1. CASE UNCHANGED pmVars
  BY <1>1 DEF pmVars, pm, PMInv, ListInv, PMType, Owned, AtRest, Linked, Unmade, check_list_exist, MayCrash,
              Constructing, Adding, Deleting, DeletingAt
<1> QED
  BY <1>1, ConstructInv, NoRootInv, ConstructorInv, AllocInv, AddInv, AddPersistInv, DeleteInv, DeleteFreeInv,
     DeletePersistInv, CloseInv, EvictInv, CrashInv DEF PMNext, Failed

\* Nothing is stored through a root that is not there, or is too small.
LEMMA RootMadeInv ==
  ASSUME PMInv, CrashesSurvived, [PMNext]_pmVars
  PROVE  RootMade'
<1> USE DEF PMInv, ListInv, NodeBytes, RootBytes
<1>1. /\ call \in {"idle", "add", "delete", "ctor"} => rootSize = 2
      /\ rootSize \in 0..2
  BY DEF RootMade, Unmade
<1>2. CASE UNCHANGED pmVars
  BY <1>2 DEF pmVars, pm, RootMade
<1>3. CASE Construct
  <2>1. rootSize < 2 => ~check_list_exist
    BY DEF RootMade, check_list_exist, Empty
  <2>2. CASE check_list_exist
    <3>1. rootSize = 2 /\ rootSize' = 2 /\ call' = "idle"
      BY <1>1, <1>3, <2>1, <2>2 DEF Construct
    <3> QED
      BY <3>1 DEF RootMade
  <2>3. CASE ~check_list_exist
    <3>1. rootSize' = 2 /\ call' = "ctor"
      BY <1>3, <2>3 DEF Construct
    <3> QED
      BY <3>1 DEF RootMade
  <2> QED
    BY <2>2, <2>3
<1>4. CASE ConstructNoRoot \/ AddWithoutList
  BY <1>4 DEF ConstructNoRoot, AddWithoutList, RootMade, pm
<1>5. CASE ConstructAlloc \/ ConstructFails \/ ConstructLink \/ ConstructPersist
  BY <1>1, <1>5 DEF ConstructAlloc, ConstructFails, ConstructLink, ConstructPersist, RootMade
<1>6. CASE alloc_node \/ free_node \/ CloseGroup
  BY <1>6 DEF alloc_node, free_node, CloseGroup, RootMade, pm
<1>7. CASE add_node_to_tail \/ AddPersist \/ delete_node_from_list \/ DeleteFree \/ DeletePersist
  <2>1. rootSize' = 2 /\ call' \in {"idle", "add", "delete"}
    BY <1>1, <1>7 DEF add_node_to_tail, AddPersist, delete_node_from_list, DeleteFree, DeletePersist
  <2> QED
    BY <2>1 DEF RootMade
<1>8. CASE EvictLine
  <2>1. ASSUME rootSize < 2 PROVE droot' = Empty
    <3>1. root = Empty /\ droot = Empty
      BY <2>1 DEF RootMade
    <3> QED
      BY <1>8, <3>1 DEF EvictLine, Empty
  <2> QED
    BY <1>8, <2>1 DEF EvictLine, RootMade
<1>9. CASE Crash
  BY <1>9 DEF Crash, RootMade, pm
<1>10. CASE Failed
  BY <1>10 DEF Failed, pmVars, pm, RootMade
<1> QED
  BY <1>2, <1>3, <1>4, <1>5, <1>6, <1>7, <1>8, <1>9, <1>10 DEF PMNext

-----------------------------------------------------------------------------
(* A traversal from the head meets the nodes of the list. Walk is a recursive *)
(* function: that it has the values of the list is shown by the first place   *)
(* where it would not.                                                        *)

LEMMA LeastNumber ==
  ASSUME NEW T, T \subseteq Nat, T # {}
  PROVE  \E x \in T : \A y \in T : x <= y
<1>1. PICK x \in T : \A y \in T : ~(<<y, x>> \in OpToRel(<, Nat))
  BY WFMin, NatLessThanWellFounded
<1>2. ASSUME NEW y \in T PROVE x <= y
  <2>1. x \in Nat /\ y \in Nat
    OBVIOUS
  <2>2. y < x => <<y, x>> \in OpToRel(<, Nat)
    BY <2>1 DEF OpToRel
  <2>3. ~(<<y, x>> \in OpToRel(<, Nat))
    BY <1>1, Zenon
  <2>4. ~(y < x)
    BY <2>2, <2>3, Zenon
  <2> QED
    BY <2>1, <2>4
<1> QED
  BY <1>2

LEMMA ListFits ==
  ASSUME PMInv
  PROVE  Cardinality(Nodes) \in Nat /\ Len(list) <= Cardinality(Nodes)
<1>1. Cardinality(Nodes) \in Nat
  BY PMGroupAssumption, FS_CardinalityType
<1>2. list \in [1..Len(list) -> Nodes] /\ Len(list) \in Nat
  BY DEF PMInv, ListInv, PMType
<1>3. IsFiniteSet(1..Len(list)) /\ Cardinality(1..Len(list)) = Len(list)
  <2>1. 1 \in Int /\ Len(list) \in Int
    BY <1>2
  <2>2. IsFiniteSet(1..Len(list)) /\ Cardinality(1..Len(list)) = IF 1 > Len(list) THEN 0 ELSE Len(list) - 1 + 1
    BY <2>1, FS_Interval, Zenon
  <2> QED
    BY <1>2, <2>2
<1>4. ~(Cardinality(Nodes) < Len(list))
  <2> SUFFICES ASSUME Cardinality(Nodes) < Len(list) PROVE FALSE
    OBVIOUS
  <2>1. PICK i, j \in 1..Len(list) : i # j /\ list[i] = list[j]
    BY <1>2, <1>3, PMGroupAssumption, FS_PigeonHole
  <2> QED
    BY <2>1 DEF PMInv, ListInv, Owned
<1> QED
  BY <1>1, <1>2, <1>4

LEMMA WalkFollows ==
  ASSUME PMInv, list # <<>>, Linked(list, root, next), NEW k \in 1..Len(list)
  PROVE  Walk[k] = list[k]
<1> USE PMGroupAssumption
<1>1. list \in Seq(Nodes) /\ Len(list) \in Nat /\ k \in 1..(Cardinality(Nodes) + 1)
  BY ListFits DEF PMInv, ListInv, PMType
<1> DEFINE Step(w, i) == IF i = 1 THEN root.head
                         ELSE IF w[i - 1] = Null THEN Null
                         ELSE next[w[i - 1]]
           g == [i \in 1..k |-> list[i]]
           W == CHOOSE w : w = [i \in 1..k |-> Step(w, i)]
<1>2. g = [i \in 1..k |-> Step(g, i)]
  <2> SUFFICES ASSUME NEW i \in 1..k PROVE list[i] = Step(g, i)
    OBVIOUS
  <2>1. CASE i = 1
    BY <2>1 DEF Linked
  <2>2. CASE i # 1
    <3>1. i - 1 \in 1..k /\ i - 1 \in 1..(Len(list) - 1) /\ i - 1 \in 1..Len(list) /\ (i - 1) + 1 = i
      BY <1>1, <2>2
    <3>2. g[i - 1] = list[i - 1] /\ list[i - 1] # Null
      BY <1>1, <3>1
    <3>3. next[list[i - 1]] = list[i]
      BY <3>1 DEF Linked
    <3> QED
      BY <2>2, <3>2, <3>3
  <2> QED
    BY <2>1, <2>2
<1>3. W = [i \in 1..k |-> Step(W, i)]
  <2>1. \E w : w = [i \in 1..k |-> Step(w, i)]
    BY <1>2
  <2> QED
    BY <2>1
<1>4. Walk[k] = W[k]
  BY <1>1 DEF Walk
<1> HIDE DEF W
<1>5. \A i \in 1..k : W[i] = list[i]
  <2> DEFINE T == {i \in 1..k : W[i] # list[i]}
  <2> SUFFICES ASSUME T # {} PROVE FALSE
    OBVIOUS
  <2>1. PICK i \in T : \A j \in T : i <= j
    <3>1. T \subseteq Nat
      BY <1>1
    <3> HIDE DEF T
    <3> QED
      BY <3>1, LeastNumber
  <2>2. i \in 1..k /\ W[i] # list[i] /\ W[i] = Step(W, i)
    BY <1>3, <2>1
  <2>3. CASE i = 1
    BY <2>2, <2>3 DEF Linked
  <2>4. CASE i # 1
    <3>1. i - 1 \in 1..k /\ ~(i <= i - 1) /\ i - 1 \in 1..(Len(list) - 1) /\ i - 1 \in 1..Len(list) /\ (i - 1) + 1 = i
      BY <1>1, <2>2, <2>4
    <3>2. W[i - 1] = list[i - 1] /\ list[i - 1] # Null
      BY <1>1, <2>1, <3>1
    <3>3. next[list[i - 1]] = list[i]
      BY <3>1 DEF Linked
    <3> QED
      BY <2>2, <2>4, <3>2, <3>3
  <2> QED
    BY <2>3, <2>4
<1> QED
  BY <1>1, <1>4, <1>5

LEMMA AtRestIsSound ==
  ASSUME PMInv
  PROVE  ListMatchesCalls /\ ReturnedIsDurable /\ ListIsSound
<1>0. call = "listless" => root = Empty /\ list = <<>>
  BY DEF PMInv, RootMade
<1> SUFFICES ASSUME call = "idle" PROVE ListMatchesCalls /\ ReturnedIsDurable /\ ListIsSound
  BY <1>0 DEF ListMatchesCalls, ReturnedIsDurable, ListIsSound
<1>1. /\ list # <<>> /\ Linked(list, root, next) /\ droot = root
      /\ \A k \in 1..Len(list) : dnext[list[k]] = next[list[k]]
  BY DEF PMInv, ListInv, Unmade, AtRest
<1>2. \A k \in 1..Len(list) : Walk[k] = list[k]
  BY <1>1, WalkFollows
<1>3. ListMatchesCalls /\ ReturnedIsDurable
  BY <1>1, <1>2 DEF ListMatchesCalls, ReturnedIsDurable, Linked
<1>4. Len(list) \in Nat /\ Len(list) \in 1..Len(list) /\ Len(list) \in 1..Cardinality(Nodes)
  BY <1>1, ListFits DEF PMInv, ListInv, PMType
<1>5. \A k \in 1..Len(list) : list[k] \in heap
  BY DEF PMInv, ListInv, Owned
<1>6. ListIsSound
  BY <1>0, <1>1, <1>2, <1>4, <1>5 DEF ListIsSound, Linked
<1> QED
  BY <1>3, <1>6

\* Every power failure the constructor and a list at rest survive keeps the
\* inductive invariant.
THEOREM PMInvariant ==
  ASSUME CrashesSurvived
  PROVE  PMSpec => []PMInv
<1>1. PMInv /\ [PMNext]_pmVars => PMInv'
  BY PMNextInv, RootMadeInv DEF PMInv
<1> QED
  BY <1>1, PMInitInv, PTL DEF PMSpec

\* The list of a partition is the one the calls describe: what add_node_to_tail
\* appended and delete_node_from_list has not removed, in order, for every size
\* of the pool (groupManager.cc:93-132).
THEOREM ListMatchesCallsHolds ==
  ASSUME CrashesSurvived
  PROVE  PMSpec => []ListMatchesCalls
<1>1. PMInv => ListMatchesCalls
  BY AtRestIsSound
<1> QED
  BY <1>1, PMInvariant, PTL

\* A call of a partition that has returned is durable (groupManager.cc:39, 107,
\* 129).
THEOREM ReturnedIsDurableHolds ==
  ASSUME CrashesSurvived
  PROVE  PMSpec => []ReturnedIsDurable
<1>1. PMInv => ReturnedIsDurable
  BY AtRestIsSound
<1> QED
  BY <1>1, PMInvariant, PTL

\* A traversal of a partition's list ends after node_count nodes, all of them
\* allocated, at the tail (what test_main.cc:65-78 expects of it).
THEOREM ListIsSoundHolds ==
  ASSUME CrashesSurvived
  PROVE  PMSpec => []ListIsSound
<1>1. PMInv => ListIsSound
  BY AtRestIsSound
<1> QED
  BY <1>1, PMInvariant, PTL

=============================================================================
