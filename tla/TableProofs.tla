----------------------------- MODULE TableProofs -----------------------------
(***************************************************************************)
(* Proofs about tables (Table): what TableBuilder wrote, InternalGet finds. *)
(***************************************************************************)
EXTENDS Table, TLAPS, SequenceTheorems, NaturalsInduction, WellFoundedInduction

-----------------------------------------------------------------------------
(* A table in the making, given entries g, with builder r, filters fb and   *)
(* blocks b in the file.                                                    *)

InternalKeys == [key : Nat, seq : Nat]
Entries == [key : TableKeys, seq : 1 .. MaxTableEntries]
IndexEntries == [key : InternalKeys, handle : Nat]

Reps == [offset : Nat, ok : BOOLEAN, data_block : Seq(Entries), index_block : Seq(IndexEntries),
         last_key : InternalKeys, pending_index_entry : BOOLEAN, pending_handle : Nat,
         closed : {"no", "Finish", "Abandon"}]

Filters == [len : Nat, bits : SUBSET Nat]
FilterBuilders == [keys : Seq(TableKeys), result : Seq(Filters)]

Has(s, e) == \E j \in 1 .. Len(s) : s[j] = e

Increasing(s) == \A i, j \in 1 .. Len(s) : i < j => InternalLess(s[i], s[j])

\* The blocks of the file are sorted and before the end.
BlocksInv(r, b) ==
    /\ DOMAIN b \subseteq Nat
    /\ \A o \in DOMAIN b : b[o] \in Seq(Entries) /\ Increasing(b[o]) /\ o < r.offset
    /\ \A i \in 1 .. Len(r.index_block) : r.index_block[i].handle \in DOMAIN b

\* Entry e is in the block of index entry c, in the block that has no index
\* entry yet, or in the block that is being filled.
Indexed(r, b, c, e) == c \in 1 .. Len(r.index_block) /\ Has(b[r.index_block[c].handle], e)
Pending(r, b, e) == r.pending_index_entry /\ Has(b[r.pending_handle], e)
Later(r, b, c, e) ==
    (\E d \in 1 .. Len(r.index_block) : c < d /\ Indexed(r, b, d, e)) \/ Pending(r, b, e) \/ Has(r.data_block, e)
InTable(r, b, e) == (\E c \in 1 .. Len(r.index_block) : Indexed(r, b, c, e)) \/ Pending(r, b, e) \/ Has(r.data_block, e)

Holds(g, r, b) == \A e : Has(g, e) <=> InTable(r, b, e)

\* The key of index entry c parts its block from entry e, also in a search
\* for a user key.
Parts(r, b, c, e) ==
    LET sep == r.index_block[c].key
    IN  InternalLess(sep, e) /\ (Indexed(r, b, c, sep) \/ sep.key < e.key)

Separates(r, b) ==
    \A c \in 1 .. Len(r.index_block) : \A e :
        /\ Indexed(r, b, c, e) => ~InternalLess(r.index_block[c].key, e)
        /\ Later(r, b, c, e) => Parts(r, b, c, e)

\* The keys of the blocks are in their filters, or wait for them.
Filtered(fb, o, key) ==
    LET index == o \div kFilterBase + 1
    IN  /\ index <= Len(fb.result) => PolicyMayMatch(key, fb.result[index])
        /\ index > Len(fb.result) => Has(fb.keys, key)

Building(g, r, fb, b) ==
    /\ BlocksInv(r, b) /\ Holds(g, r, b) /\ Separates(r, b)
    /\ Increasing(r.data_block)
    /\ r.pending_index_entry => r.data_block = <<>> /\ r.pending_handle \in DOMAIN b /\ Len(g) > 0
    /\ Len(g) > 0 => r.last_key = g[Len(g)]
    /\ \A c \in 1 .. Len(r.index_block) : Len(g) > 0 /\ Parts(r, b, c, g[Len(g)])
    /\ fb \in FilterBuilders /\ Len(fb.result) = r.offset \div kFilterBase
    /\ \A o \in DOMAIN b : \A e : Has(b[o], e) => Filtered(fb, o, e.key)
    /\ \A e : Has(r.data_block, e) => Has(fb.keys, e.key)

Built(g, r, fb, b) ==
    /\ BlocksInv(r, b) /\ Holds(g, r, b) /\ Separates(r, b)
    /\ r.data_block = <<>> /\ ~r.pending_index_entry
    /\ \A o \in DOMAIN b : \A e : Has(b[o], e) =>
          LET index == o \div kFilterBase + 1
          IN  index \in DOMAIN fb.result => PolicyMayMatch(e.key, fb.result[index])

TableInv ==
    /\ given \in Seq(Entries) /\ Increasing(given) /\ rep \in Reps
    /\ table.open => rep.ok /\ rep.closed = "Finish"
    /\ rep.ok /\ rep.closed = "no" => Building(given, rep, filters, blocks)
    /\ rep.ok /\ rep.closed = "Finish" => Built(given, rep, filters, blocks)

-----------------------------------------------------------------------------
(* Keys, filters and searches.                                              *)

LEMMA TableConst ==
  /\ TableKeys \subseteq Nat /\ AddedKeys \subseteq TableKeys /\ BlockSizes \subseteq Nat \ {0} /\ kBlockTrailerSize \in Nat
  /\ kFilterBase \in Nat /\ kFilterBase > 0 /\ BitsPerKey \in Nat /\ Probes \in [TableKeys -> SUBSET Nat]
  /\ MaxTableEntries \in Nat /\ kMaxSequenceNumber = MaxTableEntries + 1
  BY TableAssumption DEF kMaxSequenceNumber

LEMMA EntriesAreKeys == Entries \subseteq InternalKeys
<1> SUFFICES ASSUME NEW e \in Entries PROVE e \in InternalKeys
  OBVIOUS
<1>1. e = [key |-> e.key, seq |-> e.seq] /\ e.key \in TableKeys /\ e.seq \in 1 .. MaxTableEntries
  BY DEF Entries
<1>2. e.key \in Nat /\ e.seq \in Nat
  BY <1>1, TableConst
<1> QED
  BY <1>1, <1>2 DEF InternalKeys

LEMMA LessTrans ==
  ASSUME NEW x \in InternalKeys, NEW y \in InternalKeys, NEW z \in InternalKeys,
         InternalLess(x, y), InternalLess(y, z)
  PROVE  InternalLess(x, z)
  BY DEF InternalLess, InternalKeys

LEMMA LessTransWeak ==
  ASSUME NEW x \in InternalKeys, NEW y \in InternalKeys, NEW z \in InternalKeys
  PROVE  /\ ~InternalLess(y, x) /\ InternalLess(y, z) => InternalLess(x, z)
         /\ InternalLess(x, y) /\ ~InternalLess(z, y) => InternalLess(x, z)
         /\ ~InternalLess(y, x) /\ ~InternalLess(z, y) => ~InternalLess(z, x)
  BY DEF InternalLess, InternalKeys

LEMMA LessAsym ==
  ASSUME NEW x \in InternalKeys, NEW y \in InternalKeys
  PROVE  /\ ~InternalLess(x, x) /\ (InternalLess(x, y) => ~InternalLess(y, x))
         /\ ~InternalLess(x, y) /\ ~InternalLess(y, x) => x = y
         /\ InternalLess(x, y) => x.key <= y.key
<1>1. x = [key |-> x.key, seq |-> x.seq] /\ y = [key |-> y.key, seq |-> y.seq]
  BY DEF InternalKeys
<1>2. x.key \in Nat /\ x.seq \in Nat /\ y.key \in Nat /\ y.seq \in Nat
  BY DEF InternalKeys
<1>3. ~InternalLess(x, y) /\ ~InternalLess(y, x) => x.key = y.key /\ x.seq = y.seq
  BY <1>2 DEF InternalLess
<1> QED
  BY <1>1, <1>2, <1>3 DEF InternalLess

LEMMA FilterShape ==
  ASSUME NEW keys \in Seq(TableKeys)
  PROVE  \E bytes \in Nat : /\ bytes >= 8
                            /\ CreateFilter(keys) =
                                  [len |-> bytes + 1,
                                   bits |-> {p % (bytes * 8) : p \in UNION {Probes[x] : x \in ToSet(keys)}}]
<1> USE TableConst
<1>1. Len(keys) \in Nat
  BY LenProperties
<1>2. PICK n \in Nat : n = Len(keys) * BitsPerKey
  BY <1>1
<1>3. Max({n, 64}) \in Nat /\ Max({n, 64}) >= 64
  <2>1. \E x \in {n, 64} : \A y \in {n, 64} : x >= y
    BY <1>2
  <2>2. Max({n, 64}) \in {n, 64} /\ \A y \in {n, 64} : Max({n, 64}) >= y
    BY <2>1 DEF Max
  <2> QED
    BY <2>2
<1>4. PICK m \in Nat : m = Max({n, 64}) /\ m >= 64
  BY <1>3
<1>5. PICK bytes : bytes = (m + 7) \div 8
  OBVIOUS
<1>6. bytes \in Nat /\ bytes >= 8
  BY <1>4, <1>5
<1>7. CreateFilter(keys) = [len |-> bytes + 1,
                            bits |-> {p % (bytes * 8) : p \in UNION {Probes[x] : x \in ToSet(keys)}}]
  BY <1>2, <1>4, <1>5 DEF CreateFilter
<1> QED
  BY <1>6, <1>7

\* A filter has the keys it was made of.
LEMMA FilterMatches ==
  ASSUME NEW keys \in Seq(TableKeys), NEW k, Has(keys, k)
  PROVE  PolicyMayMatch(k, CreateFilter(keys))
<1>1. PICK bytes \in Nat : /\ bytes >= 8
                           /\ CreateFilter(keys) =
                                [len |-> bytes + 1,
                                 bits |-> {p % (bytes * 8) : p \in UNION {Probes[x] : x \in ToSet(keys)}}]
  BY FilterShape
<1>2. k \in ToSet(keys)
  BY DEF Has, ToSet
<1>3. PICK d : d = bytes * 8
  OBVIOUS
<1>4. PICK f : f = CreateFilter(keys)
  OBVIOUS
<1>5. f.len = bytes + 1 /\ (f.len - 1) * 8 = d /\ f.len >= 2
  BY <1>1, <1>3, <1>4
<1>6. f.bits = {p % d : p \in UNION {Probes[x] : x \in ToSet(keys)}}
  BY <1>1, <1>3, <1>4
<1>7. \A p \in Probes[k] : p \in UNION {Probes[x] : x \in ToSet(keys)}
  BY <1>2
<1>8. \A p \in Probes[k] : p % d \in f.bits
  BY <1>6, <1>7, Zenon
<1> QED
  BY <1>4, <1>5, <1>8 DEF PolicyMayMatch

LEMMA FilterType ==
  ASSUME NEW keys \in Seq(TableKeys)
  PROVE  CreateFilter(keys) \in Filters /\ EmptyFilter \in Filters
<1> USE TableConst
<1>1. PICK bytes \in Nat : /\ bytes >= 8
                           /\ CreateFilter(keys) =
                                [len |-> bytes + 1,
                                 bits |-> {p % (bytes * 8) : p \in UNION {Probes[x] : x \in ToSet(keys)}}]
  BY FilterShape
<1>2. PICK d \in Nat : d = bytes * 8 /\ d > 0
  BY <1>1
<1>3. \A x \in ToSet(keys) : x \in TableKeys /\ Probes[x] \subseteq Nat
  <2>1. \A i \in 1 .. Len(keys) : keys[i] \in TableKeys
    BY ElementOfSeq
  <2> QED
    BY <2>1 DEF ToSet
<1>4. \A p \in Nat : p % d \in Nat
  BY <1>2
<1>5. \A p \in UNION {Probes[x] : x \in ToSet(keys)} : p \in Nat
  BY <1>3
<1>6. {p % d : p \in UNION {Probes[x] : x \in ToSet(keys)}} \subseteq Nat
  BY <1>4, <1>5
<1>7. CreateFilter(keys) = [len |-> bytes + 1, bits |-> {p % d : p \in UNION {Probes[x] : x \in ToSet(keys)}}]
  BY <1>1, <1>2
<1>8. PICK B : B = {p % d : p \in UNION {Probes[x] : x \in ToSet(keys)}}
  OBVIOUS
<1>9. CreateFilter(keys) = [len |-> bytes + 1, bits |-> B] /\ bytes + 1 \in Nat /\ B \in SUBSET Nat
  <2>1. CreateFilter(keys) = [len |-> bytes + 1, bits |-> B]
    BY <1>7, <1>8, Zenon
  <2>2. B \in SUBSET Nat
    BY <1>6, <1>8, Zenon
  <2>3. bytes + 1 \in Nat
    OBVIOUS
  <2> QED
    BY <2>1, <2>2, <2>3, Zenon
<1>10. EmptyFilter \in Filters
  BY DEF Filters, EmptyFilter
<1> QED
  BY <1>9, <1>10 DEF Filters

LEMMA MinOf ==
  ASSUME NEW S, S \subseteq Nat, S # {}
  PROVE  Min(S) \in S /\ \A y \in S : Min(S) <= y
<1>1. PICK x \in S : \A y \in S : ~(<<y, x>> \in OpToRel(<, Nat))
  BY WFMin, NatLessThanWellFounded
<1>2. ASSUME NEW y \in S PROVE x <= y
  <2>1. x \in Nat /\ y \in Nat
    OBVIOUS
  <2>2. y < x => <<y, x>> \in OpToRel(<, Nat)
    BY <2>1 DEF OpToRel
  <2>3. ~(<<y, x>> \in OpToRel(<, Nat))
    BY <1>1, Zenon
  <2>4. ~(y < x)
    BY <2>2, <2>3, Zenon
  <2> QED
    BY <2>1, <2>4
<1>3. \E z \in S : \A y \in S : z <= y
  BY <1>2
<1> QED
  BY <1>3 DEF Min

-----------------------------------------------------------------------------
(* What InternalGet finds in a table that is built.                         *)

\* i is the first place of s with a key that is not before t.
FirstFrom(s, t, i) ==
    \/ i = 0 /\ \A j \in 1 .. Len(s) : InternalLess(s[j], t)
    \/ /\ i \in 1 .. Len(s) /\ ~InternalLess(s[i], t)
       /\ \A j \in 1 .. Len(s) : ~InternalLess(s[j], t) => i <= j

LEMMA SeekFinds ==
  ASSUME NEW s \in Seq(Entries), NEW t
  PROVE  FirstFrom(s, t, SeekIn(s, LAMBDA x : x, t))
<1> DEFINE from == {i \in 1 .. Len(s) : ~InternalLess(s[i], t)}
<1>1. DOMAIN s = 1 .. Len(s) /\ Len(s) \in Nat
  BY LenProperties
<1>2. SeekIn(s, LAMBDA x : x, t) = IF from = {} THEN 0 ELSE Min(from)
  BY <1>1 DEF SeekIn
<1>3. CASE from = {}
  BY <1>2, <1>3 DEF FirstFrom
<1>4. CASE from # {}
  <2>1. from \subseteq Nat
    BY <1>1
  <2>2. Min(from) \in from /\ \A y \in from : Min(from) <= y
    <3> HIDE DEF from
    <3> QED
      BY <1>4, <2>1, MinOf
  <2> QED
    BY <1>2, <1>4, <2>2 DEF FirstFrom
<1> QED
  BY <1>3, <1>4

LEMMA IndexSeekFinds ==
  ASSUME rep \in Reps, NEW t
  PROVE  LET N == Len(rep.index_block)
             c == IndexSeek(t)
         IN  \/ c = 0 /\ \A j \in 1 .. N : InternalLess(rep.index_block[j].key, t)
             \/ /\ c \in 1 .. N /\ ~InternalLess(rep.index_block[c].key, t)
                /\ \A j \in 1 .. N : ~InternalLess(rep.index_block[j].key, t) => c <= j
<1>0. PICK s : s = rep.index_block
  OBVIOUS
<1> DEFINE from == {i \in 1 .. Len(s) : ~InternalLess(s[i].key, t)}
<1>1. s \in Seq(IndexEntries) /\ DOMAIN s = 1 .. Len(s) /\ Len(s) \in Nat
  <2>1. s \in Seq(IndexEntries)
    BY <1>0 DEF Reps
  <2> QED
    BY <2>1, LenProperties
<1>2. IndexSeek(t) = IF from = {} THEN 0 ELSE Min(from)
  BY <1>0, <1>1 DEF IndexSeek, SeekIn
<1>3. CASE from = {}
  BY <1>0, <1>2, <1>3
<1>4. CASE from # {}
  <2>1. from \subseteq Nat
    BY <1>1
  <2>2. Min(from) \in from /\ \A y \in from : Min(from) <= y
    <3> HIDE DEF from
    <3> QED
      BY <1>4, <2>1, MinOf
  <2> QED
    BY <1>0, <1>2, <1>4, <2>2
<1> QED
  BY <1>3, <1>4

\* What should be found.
LEMMA NewestIs ==
  ASSUME given \in Seq(Entries), Increasing(given), NEW key, NEW seq, KeyAt(key, seq) \in InternalKeys
  PROVE  LET t == KeyAt(key, seq)
         IN  /\ \A x : /\ Has(given, x) /\ ~InternalLess(x, t)
                       /\ \A y : Has(given, y) /\ ~InternalLess(y, t) => ~InternalLess(y, x)
                       => NewestAt(key, seq) = SaveValue(key, x)
             /\ (\A y : Has(given, y) /\ ~InternalLess(y, t) => y.key # key) => NewestAt(key, seq) = NoTableEntry
<1> DEFINE t == KeyAt(key, seq)
<1>1. PICK i : i = SeekIn(given, LAMBDA x : x, t)
  OBVIOUS
<1>2. FirstFrom(given, t, i)
  BY <1>1, SeekFinds
<1>3. NewestAt(key, seq) = IF i = 0 THEN NoTableEntry ELSE SaveValue(key, given[i])
  BY <1>1 DEF NewestAt
<1> HIDE DEF t
<1>4. Len(given) \in Nat
  BY LenProperties
<1>5. ASSUME NEW x, Has(given, x), ~InternalLess(x, t),
             \A y : Has(given, y) /\ ~InternalLess(y, t) => ~InternalLess(y, x)
      PROVE  NewestAt(key, seq) = SaveValue(key, x)
  <2>1. PICK k \in 1 .. Len(given) : given[k] = x
    BY <1>5 DEF Has
  <2>2. i \in 1 .. Len(given) /\ ~InternalLess(given[i], t) /\ i <= k
    BY <1>2, <1>5, <2>1 DEF FirstFrom
  <2>3. ~InternalLess(given[i], x)
    BY <1>5, <2>2 DEF Has
  <2>4. ~(i < k)
    BY <2>1, <2>2, <2>3 DEF Increasing
  <2>5. i = k /\ i # 0
    BY <1>4, <2>1, <2>2, <2>4
  <2> QED
    BY <1>3, <2>1, <2>5
<1>6. ASSUME \A y : Has(given, y) /\ ~InternalLess(y, t) => y.key # key
      PROVE  NewestAt(key, seq) = NoTableEntry
  <2>1. CASE i = 0
    BY <1>3, <2>1
  <2>2. CASE i # 0
    <3>1. i \in 1 .. Len(given) /\ ~InternalLess(given[i], t)
      BY <1>2, <2>2 DEF FirstFrom
    <3>2. given[i].key # key
      BY <1>6, <3>1 DEF Has
    <3> QED
      BY <1>3, <2>2, <3>2 DEF SaveValue
  <2> QED
    BY <2>1, <2>2
<1> QED
  BY <1>5, <1>6 DEF t

LEMMA BuiltFinds ==
  ASSUME given \in Seq(Entries), Increasing(given), rep \in Reps, Built(given, rep, filters, blocks),
         NEW key \in TableKeys, NEW seq \in 1 .. kMaxSequenceNumber
  PROVE  InternalGet(key, seq).ok => InternalGet(key, seq).found = NewestAt(key, seq)
<1> USE TableConst
<1> DEFINE N == Len(rep.index_block)
           ib == rep.index_block
<1>1. PICK t : t = KeyAt(key, seq)
  OBVIOUS
<1>2. t \in InternalKeys /\ t.key = key
  <2>1. key \in Nat /\ seq \in Nat
    OBVIOUS
  <2> QED
    BY <1>1, <2>1 DEF InternalKeys, KeyAt
<1>3. PICK c : c = IndexSeek(t)
  OBVIOUS
<1>4. ib \in Seq(IndexEntries) /\ N \in Nat
  <2>1. ib \in Seq(IndexEntries)
    BY DEF Reps
  <2> QED
    BY <2>1, LenProperties
<1>5. \A j \in 1 .. N : ib[j].key \in InternalKeys
  <2>1. \A j \in 1 .. N : ib[j] \in IndexEntries
    BY <1>4, ElementOfSeq
  <2> QED
    BY <2>1 DEF IndexEntries
<1>6. \/ c = 0 /\ \A j \in 1 .. N : InternalLess(ib[j].key, t)
      \/ /\ c \in 1 .. N /\ ~InternalLess(ib[c].key, t)
         /\ \A j \in 1 .. N : ~InternalLess(ib[j].key, t) => c <= j
  BY <1>3, IndexSeekFinds
<1>7. ASSUME NEW y, Has(given, y)
      PROVE  y \in InternalKeys /\ \E d \in 1 .. N : Indexed(rep, blocks, d, y) /\ ~InternalLess(ib[d].key, y)
  <2>1. y \in InternalKeys
    <3>1. PICK k \in 1 .. Len(given) : given[k] = y
      BY <1>7 DEF Has
    <3>2. given[k] \in Entries
      BY ElementOfSeq
    <3> QED
      BY <3>1, <3>2, EntriesAreKeys
  <2>2. InTable(rep, blocks, y)
    BY <1>7 DEF Built, Holds
  <2>3. ~Pending(rep, blocks, y) /\ ~Has(rep.data_block, y)
    BY DEF Built, Pending, Has
  <2>4. PICK d \in 1 .. N : Indexed(rep, blocks, d, y)
    BY <2>2, <2>3 DEF InTable
  <2>5. ~InternalLess(ib[d].key, y)
    BY <2>4 DEF Built, Separates
  <2> QED
    BY <2>1, <2>4, <2>5
<1>8. ASSUME NEW y, Has(given, y), ~InternalLess(y, t)
      PROVE  /\ c \in 1 .. N /\ y \in InternalKeys
             /\ Indexed(rep, blocks, c, y) \/ Parts(rep, blocks, c, y)
  <2>1. PICK d \in 1 .. N : Indexed(rep, blocks, d, y) /\ ~InternalLess(ib[d].key, y)
    BY <1>7, <1>8
  <2>2. y \in InternalKeys
    BY <1>7, <1>8
  <2>3. ~InternalLess(ib[d].key, t)
    BY <1>2, <1>5, <1>8, <2>1, <2>2, LessTransWeak
  <2>4. c \in 1 .. N /\ c <= d
    BY <1>6, <2>3
  <2>5. CASE c = d
    BY <2>1, <2>2, <2>4, <2>5
  <2>6. CASE c # d
    <3>1. c < d
      BY <1>4, <2>4, <2>6
    <3>2. Later(rep, blocks, c, y)
      BY <2>1, <3>1 DEF Later
    <3> QED
      BY <2>2, <2>4, <3>2 DEF Built, Separates
  <2> QED
    BY <2>5, <2>6
<1>9. CASE c = 0
  <2>1. \A y : Has(given, y) /\ ~InternalLess(y, t) => y.key # key
    BY <1>8, <1>9
  <2>2. NewestAt(key, seq) = NoTableEntry
    BY <1>1, <1>2, <2>1, NewestIs
  <2>3. InternalGet(key, seq).found = NoTableEntry
    BY <1>1, <1>3, <1>9 DEF InternalGet
  <2> QED
    BY <2>2, <2>3
<1>10. CASE c # 0
  <2>1. c \in 1 .. N /\ ~InternalLess(ib[c].key, t)
    BY <1>6, <1>10
  <2>2. PICK h : h = ib[c].handle
    OBVIOUS
  <2>3. h \in DOMAIN blocks /\ blocks[h] \in Seq(Entries)
    BY <2>1, <2>2 DEF Built, BlocksInv
  <2>4. PICK at : at = BlockSeekTo(h, t)
    OBVIOUS
  <2>5. FirstFrom(blocks[h], t, at)
    BY <2>3, <2>4, SeekFinds DEF BlockSeekTo
  <2>6. \A e : Indexed(rep, blocks, c, e) <=> Has(blocks[h], e)
    BY <2>1, <2>2 DEF Indexed
  <2>7. InternalGet(key, seq) =
          IF table.filter /\ ~KeyMayMatch(h, key) THEN [found |-> NoTableEntry, ok |-> TRUE]
          ELSE IF ~Readable(h) THEN [found |-> NoTableEntry, ok |-> FALSE]
          ELSE [found |-> IF at = 0 THEN NoTableEntry ELSE SaveValue(key, blocks[h][at]), ok |-> TRUE]
    BY <1>1, <1>3, <1>10, <2>2, <2>4 DEF InternalGet
  <2>8. CASE at = 0
    <3>1. ASSUME NEW y, Has(given, y), ~InternalLess(y, t) PROVE y.key # key
      <4>1. y \in InternalKeys /\ (Indexed(rep, blocks, c, y) \/ Parts(rep, blocks, c, y))
        BY <1>8, <3>1
      <4>2. ~Indexed(rep, blocks, c, y)
        BY <2>5, <2>6, <2>8, <3>1 DEF FirstFrom, Has
      <4>3. ~Indexed(rep, blocks, c, ib[c].key)
        BY <2>1, <2>5, <2>6, <2>8 DEF FirstFrom, Has
      <4>4. ib[c].key.key < y.key
        BY <4>1, <4>2, <4>3 DEF Parts
      <4>5. ib[c].key \in InternalKeys
        BY <1>5, <2>1
      <4>6. ~(ib[c].key.key < t.key)
        BY <2>1 DEF InternalLess
      <4> QED
        BY <1>2, <4>1, <4>4, <4>5, <4>6 DEF InternalKeys
    <3>2. NewestAt(key, seq) = NoTableEntry
      BY <1>1, <1>2, <3>1, NewestIs
    <3> QED
      BY <2>7, <2>8, <3>2
  <2>9. CASE at # 0
    <3>1. PICK x : x = blocks[h][at]
      OBVIOUS
    <3>2. at \in 1 .. Len(blocks[h]) /\ ~InternalLess(x, t) /\ Has(blocks[h], x)
      BY <2>5, <2>9, <3>1 DEF FirstFrom, Has
    <3>3. Indexed(rep, blocks, c, x) /\ x \in InternalKeys
      <4>1. blocks[h][at] \in Entries
        BY <2>3, <3>2, ElementOfSeq
      <4> QED
        BY <2>6, <3>1, <3>2, <4>1, EntriesAreKeys
    <3>4. Has(given, x) /\ ~InternalLess(ib[c].key, x)
      BY <2>1, <3>3 DEF Built, Holds, InTable, Separates
    <3>5. ASSUME NEW y, Has(given, y), ~InternalLess(y, t) PROVE ~InternalLess(y, x)
      <4>1. y \in InternalKeys /\ (Indexed(rep, blocks, c, y) \/ Parts(rep, blocks, c, y))
        BY <1>8, <3>5
      <4>2. CASE Indexed(rep, blocks, c, y)
        <5>1. PICK j \in 1 .. Len(blocks[h]) : blocks[h][j] = y
          BY <2>6, <4>2 DEF Has
        <5>2. at <= j
          BY <2>5, <2>9, <3>5, <5>1 DEF FirstFrom
        <5>3. Increasing(blocks[h])
          BY <2>3 DEF Built, BlocksInv
        <5>4. at = j \/ at < j
          <6>1. Len(blocks[h]) \in Nat
            BY <2>3, LenProperties
          <6> QED
            BY <3>2, <5>1, <5>2, <6>1
        <5>5. x = y \/ InternalLess(x, y)
          BY <3>1, <3>2, <5>1, <5>3, <5>4 DEF Increasing
        <5> QED
          BY <3>3, <4>1, <5>5, LessAsym
      <4>3. CASE Parts(rep, blocks, c, y)
        <5>1. InternalLess(ib[c].key, y)
          BY <4>3 DEF Parts
        <5>2. InternalLess(x, y)
          BY <1>5, <2>1, <3>3, <3>4, <4>1, <5>1, LessTransWeak
        <5> QED
          BY <3>3, <4>1, <5>2, LessAsym
      <4> QED
        BY <4>1, <4>2, <4>3
    <3>6. NewestAt(key, seq) = SaveValue(key, x)
      BY <1>1, <1>2, <3>2, <3>4, <3>5, NewestIs
    <3>7. CASE ~KeyMayMatch(h, key)
      <4>1. x.key # key
        BY <2>3, <3>2, <3>7 DEF Built, KeyMayMatch
      <4> QED
        BY <2>7, <2>9, <3>1, <3>6, <4>1 DEF SaveValue
    <3>8. CASE KeyMayMatch(h, key)
      BY <2>7, <2>9, <3>1, <3>6, <3>8
    <3> QED
      BY <3>7, <3>8
  <2> QED
    BY <2>8, <2>9
<1> QED
  BY <1>9, <1>10

-----------------------------------------------------------------------------
(* Index entries.                                                           *)

Placed(g, r, b) == BlocksInv(r, b) /\ Holds(g, r, b) /\ Separates(r, b)

\* r1 is r with an index entry for the block that waited for one.
IndexAdded(r, r1, sep) ==
    /\ r1 \in Reps /\ r1.offset = r.offset /\ r1.ok = r.ok /\ r1.data_block = r.data_block /\ r1.last_key = r.last_key
    /\ r1.closed = r.closed /\ r1.pending_index_entry = FALSE
    /\ Len(r1.index_block) = Len(r.index_block) + 1
    /\ \A c \in 1 .. Len(r.index_block) : r1.index_block[c] = r.index_block[c]
    /\ r1.index_block[Len(r.index_block) + 1].key = sep
    /\ r1.index_block[Len(r.index_block) + 1].handle = r.pending_handle

LEMMA IndexLen ==
  ASSUME NEW r \in Reps
  PROVE  /\ r.index_block \in Seq(IndexEntries) /\ Len(r.index_block) \in Nat
         /\ \A c \in 1 .. Len(r.index_block) :
              r.index_block[c] \in IndexEntries /\ r.index_block[c].key \in InternalKeys /\ r.index_block[c].handle \in Nat
<1>1. r.index_block \in Seq(IndexEntries)
  BY DEF Reps
<1>2. \A c \in 1 .. Len(r.index_block) : r.index_block[c] \in IndexEntries
  BY <1>1, ElementOfSeq
<1> QED
  BY <1>1, <1>2, LenProperties DEF IndexEntries

LEMMA WithIndexEntryAdds ==
  ASSUME NEW r \in Reps, NEW sep \in InternalKeys, r.pending_index_entry
  PROVE  IndexAdded(r, WithIndexEntry(r, sep), sep)
<1>1. r.index_block \in Seq(IndexEntries) /\ Len(r.index_block) \in Nat
  BY IndexLen
<1>2. PICK x : x = [key |-> sep, handle |-> r.pending_handle]
  OBVIOUS
<1>3. x \in IndexEntries /\ x.key = sep /\ x.handle = r.pending_handle
  BY <1>2 DEF IndexEntries, Reps
<1>4. PICK s : s = Append(r.index_block, x)
  OBVIOUS
<1>5. /\ s \in Seq(IndexEntries) /\ Len(s) = Len(r.index_block) + 1 /\ s[Len(r.index_block) + 1] = x
      /\ \A c \in 1 .. Len(r.index_block) : s[c] = r.index_block[c]
  BY <1>1, <1>3, <1>4, AppendProperties
<1>6. PICK r1 : r1 = WithIndexEntry(r, sep)
  OBVIOUS
<1>7. r1 = [r EXCEPT !.index_block = s, !.pending_index_entry = FALSE]
  BY <1>2, <1>4, <1>6 DEF WithIndexEntry
<1>8. r1 \in Reps
  BY <1>5, <1>7 DEF Reps
<1>9. /\ r1.offset = r.offset /\ r1.ok = r.ok /\ r1.data_block = r.data_block /\ r1.last_key = r.last_key
      /\ r1.closed = r.closed /\ r1.pending_index_entry = FALSE /\ r1.index_block = s
  BY <1>7 DEF Reps
<1> QED
  BY <1>3, <1>5, <1>6, <1>8, <1>9 DEF IndexAdded

LEMMA IndexStep ==
  ASSUME NEW r \in Reps, NEW b, NEW g, Placed(g, r, b), r.pending_index_entry, r.data_block = <<>>,
         r.pending_handle \in DOMAIN b, NEW sep \in InternalKeys,
         \A y : Pending(r, b, y) => ~InternalLess(sep, y),
         NEW r1, IndexAdded(r, r1, sep)
  PROVE  /\ Placed(g, r1, b)
         /\ \A c \in 1 .. Len(r.index_block) : \A y : Indexed(r1, b, c, y) <=> Indexed(r, b, c, y)
         /\ \A y : Indexed(r1, b, Len(r.index_block) + 1, y) <=> Pending(r, b, y)
<1> DEFINE N == Len(r.index_block)
<1>1. N \in Nat
  BY IndexLen
<1>2. /\ Len(r1.index_block) = N + 1 /\ r1.pending_index_entry = FALSE /\ r1.data_block = <<>> /\ r1.offset = r.offset
      /\ \A c \in 1 .. N : r1.index_block[c] = r.index_block[c]
      /\ r1.index_block[N + 1].key = sep /\ r1.index_block[N + 1].handle = r.pending_handle
  BY DEF IndexAdded
<1>3. \A c \in 1 .. N : \A y : Indexed(r1, b, c, y) <=> Indexed(r, b, c, y)
  BY <1>1, <1>2 DEF Indexed
<1>4. \A y : Indexed(r1, b, N + 1, y) <=> Pending(r, b, y)
  BY <1>1, <1>2 DEF Indexed, Pending
<1>5. \A y : ~Pending(r1, b, y) /\ ~Has(r1.data_block, y) /\ ~Has(r.data_block, y)
  BY <1>2 DEF Pending, Has
<1>6. \A y : InTable(r1, b, y) <=> InTable(r, b, y)
  <2> TAKE y
  <2>1. \A c \in 1 .. N + 1 : c \in 1 .. N \/ c = N + 1
    BY <1>1
  <2>2. \A c \in 1 .. N : c \in 1 .. N + 1
    BY <1>1
  <2>3. N + 1 \in 1 .. N + 1
    BY <1>1
  <2>4. ASSUME InTable(r1, b, y) PROVE InTable(r, b, y)
    <3>1. PICK c \in 1 .. N + 1 : Indexed(r1, b, c, y)
      BY <1>2, <1>5, <2>4 DEF InTable
    <3> QED
      BY <1>3, <1>4, <2>1, <3>1 DEF InTable
  <2>5. ASSUME InTable(r, b, y) PROVE InTable(r1, b, y)
    <3>1. Pending(r, b, y) \/ \E c \in 1 .. N : Indexed(r, b, c, y)
      BY <1>5, <2>5 DEF InTable
    <3>2. CASE Pending(r, b, y)
      BY <1>2, <1>4, <2>3, <3>2 DEF InTable
    <3>3. CASE \E c \in 1 .. N : Indexed(r, b, c, y)
      <4>1. PICK c \in 1 .. N : Indexed(r, b, c, y)
        BY <3>3
      <4>2. Indexed(r1, b, c, y) /\ c \in 1 .. Len(r1.index_block)
        BY <1>2, <1>3, <2>2, <4>1
      <4> QED
        BY <4>2 DEF InTable
    <3> QED
      BY <3>1, <3>2, <3>3
  <2> QED
    BY <2>4, <2>5
<1>7. Holds(g, r1, b)
  BY <1>6 DEF Placed, Holds
<1>8. BlocksInv(r1, b)
  <2>1. ASSUME NEW c \in 1 .. Len(r1.index_block) PROVE r1.index_block[c].handle \in DOMAIN b
    <3>1. c \in 1 .. N \/ c = N + 1
      BY <1>1, <1>2
    <3> QED
      BY <1>2, <3>1 DEF Placed, BlocksInv
  <2> QED
    BY <1>2, <2>1 DEF Placed, BlocksInv
<1>9. Separates(r1, b)
  <2> SUFFICES ASSUME NEW c \in 1 .. Len(r1.index_block), NEW y
               PROVE  /\ Indexed(r1, b, c, y) => ~InternalLess(r1.index_block[c].key, y)
                      /\ Later(r1, b, c, y) => Parts(r1, b, c, y)
    BY DEF Separates
  <2>1. CASE c = N + 1
    <3>1. Indexed(r1, b, c, y) => ~InternalLess(r1.index_block[c].key, y)
      BY <1>2, <1>4, <2>1
    <3>2. ~Later(r1, b, c, y)
      BY <1>1, <1>2, <1>5, <2>1 DEF Later
    <3> QED
      BY <3>1, <3>2
  <2>2. CASE c \in 1 .. N
    <3>1. Indexed(r1, b, c, y) => ~InternalLess(r1.index_block[c].key, y)
      BY <1>2, <1>3, <2>2 DEF Placed, Separates
    <3>2. ASSUME Later(r1, b, c, y) PROVE Later(r, b, c, y)
      <4>1. PICK d \in 1 .. N + 1 : c < d /\ Indexed(r1, b, d, y)
        BY <1>2, <1>5, <3>2 DEF Later
      <4>2. CASE d = N + 1
        BY <1>4, <4>1, <4>2 DEF Later
      <4>3. CASE d \in 1 .. N
        BY <1>3, <4>1, <4>3 DEF Later
      <4> QED
        BY <1>1, <4>2, <4>3
    <3>3. Later(r, b, c, y) => Parts(r, b, c, y)
      BY <2>2 DEF Placed, Separates
    <3>4. Parts(r, b, c, y) => Parts(r1, b, c, y)
      BY <1>2, <1>3, <2>2 DEF Parts
    <3> QED
      BY <3>1, <3>2, <3>3, <3>4
  <2> QED
    BY <1>1, <1>2, <2>1, <2>2
<1> QED
  BY <1>3, <1>4, <1>7, <1>8, <1>9 DEF Placed

-----------------------------------------------------------------------------
(* An entry is added.                                                       *)

\* r2 is r1 with entry e in its data block.
EntryAdded(r1, r2, e) ==
    /\ r2 \in Reps /\ r2.offset = r1.offset /\ r2.ok = r1.ok /\ r2.index_block = r1.index_block /\ r2.last_key = e
    /\ r2.closed = r1.closed /\ r2.pending_index_entry = r1.pending_index_entry
    /\ r2.data_block = Append(r1.data_block, e)

LEMMA HasAppend ==
  ASSUME NEW S, NEW s \in Seq(S), NEW e \in S
  PROVE  /\ \A y : Has(Append(s, e), y) <=> Has(s, y) \/ y = e
         /\ Len(Append(s, e)) = Len(s) + 1 /\ Len(s) \in Nat /\ Append(s, e)[Len(s) + 1] = e
         /\ \A i \in 1 .. Len(s) : Append(s, e)[i] = s[i]
<1>1. /\ Len(Append(s, e)) = Len(s) + 1 /\ Append(s, e)[Len(s) + 1] = e
      /\ \A i \in 1 .. Len(s) : Append(s, e)[i] = s[i]
  BY AppendProperties
<1>2. Len(s) \in Nat
  BY LenProperties
<1>3. ASSUME NEW y PROVE Has(Append(s, e), y) <=> Has(s, y) \/ y = e
  <2> PICK s1 : s1 = Append(s, e)
    OBVIOUS
  <2>1. ASSUME Has(s1, y) PROVE Has(s, y) \/ y = e
    <3>1. PICK j \in 1 .. Len(s) + 1 : s1[j] = y
      BY <1>1, <2>1 DEF Has
    <3> QED
      BY <1>1, <1>2, <3>1 DEF Has
  <2>2. ASSUME Has(s, y) PROVE Has(s1, y)
    <3>1. PICK j \in 1 .. Len(s) : s[j] = y
      BY <2>2 DEF Has
    <3>2. j \in 1 .. Len(s1) /\ s1[j] = y
      BY <1>1, <1>2, <3>1
    <3> QED
      BY <3>2 DEF Has
  <2>3. ASSUME y = e PROVE Has(s1, y)
    <3>1. Len(s) + 1 \in 1 .. Len(s1) /\ s1[Len(s) + 1] = y
      BY <1>1, <1>2, <2>3
    <3> QED
      BY <3>1 DEF Has
  <2> QED
    BY <2>1, <2>2, <2>3
<1> QED
  BY <1>1, <1>2, <1>3

\* Entries that come after all the others keep a sequence increasing.
LEMMA IncreasingAppend ==
  ASSUME NEW s \in Seq(Entries), Increasing(s), NEW e \in Entries, \A y : Has(s, y) => InternalLess(y, e)
  PROVE  Increasing(Append(s, e))
<1>1. /\ Len(Append(s, e)) = Len(s) + 1 /\ Len(s) \in Nat /\ Append(s, e)[Len(s) + 1] = e
      /\ \A i \in 1 .. Len(s) : Append(s, e)[i] = s[i]
  BY HasAppend
<1> SUFFICES ASSUME NEW i \in 1 .. Len(Append(s, e)), NEW j \in 1 .. Len(Append(s, e)), i < j
             PROVE  InternalLess(Append(s, e)[i], Append(s, e)[j])
  BY DEF Increasing
<1>2. i \in 1 .. Len(s)
  BY <1>1
<1>3. CASE j \in 1 .. Len(s)
  BY <1>1, <1>2, <1>3 DEF Increasing
<1>4. CASE j = Len(s) + 1
  BY <1>1, <1>2, <1>4 DEF Has
<1> QED
  BY <1>1, <1>3, <1>4

\* The last entry is not before any other.
LEMMA LastIsGreatest ==
  ASSUME NEW g \in Seq(Entries), Increasing(g), NEW y, Has(g, y)
  PROVE  /\ Len(g) \in Nat /\ Len(g) > 0 /\ g[Len(g)] \in Entries /\ Has(g, g[Len(g)]) /\ y \in Entries
         /\ ~InternalLess(g[Len(g)], y)
<1>1. PICK k \in 1 .. Len(g) : g[k] = y
  BY DEF Has
<1>2. Len(g) \in Nat
  BY LenProperties
<1>3. Len(g) > 0 /\ Len(g) \in 1 .. Len(g)
  BY <1>1, <1>2
<1>4. g[Len(g)] \in Entries /\ y \in Entries
  BY <1>1, <1>3, ElementOfSeq
<1>5. k = Len(g) \/ k < Len(g)
  BY <1>1, <1>2
<1>6. y = g[Len(g)] \/ InternalLess(y, g[Len(g)])
  BY <1>1, <1>3, <1>5 DEF Increasing
<1>7. ~InternalLess(g[Len(g)], y)
  BY <1>4, <1>6, EntriesAreKeys, LessAsym
<1> QED
  BY <1>2, <1>3, <1>4, <1>7 DEF Has

LEMMA EntryStep ==
  ASSUME NEW g \in Seq(Entries), Increasing(g), NEW r \in Reps, NEW b, Placed(g, r, b), ~r.pending_index_entry,
         Increasing(r.data_block), NEW e \in Entries, Len(g) > 0 => InternalLess(g[Len(g)], e),
         \A c \in 1 .. Len(r.index_block) : Parts(r, b, c, e),
         NEW r2, EntryAdded(r, r2, e)
  PROVE  /\ Placed(Append(g, e), r2, b) /\ Increasing(r2.data_block) /\ Increasing(Append(g, e))
         /\ \A c \in 1 .. Len(r2.index_block) : Parts(r2, b, c, e)
<1>1. /\ r2.offset = r.offset /\ r2.index_block = r.index_block /\ ~r2.pending_index_entry
      /\ r2.data_block = Append(r.data_block, e)
  BY DEF EntryAdded
<1>2. r.data_block \in Seq(Entries)
  BY DEF Reps
<1>3. \A y : Has(r2.data_block, y) <=> Has(r.data_block, y) \/ y = e
  BY <1>1, <1>2, HasAppend
<1>4. \A y : Has(Append(g, e), y) <=> Has(g, y) \/ y = e
  BY HasAppend
<1>5. \A y : ~Pending(r, b, y) /\ ~Pending(r2, b, y)
  BY <1>1 DEF Pending
<1>6. \A c, y : Indexed(r2, b, c, y) <=> Indexed(r, b, c, y)
  BY <1>1 DEF Indexed
<1>7. Holds(Append(g, e), r2, b)
  <2> SUFFICES ASSUME NEW y PROVE Has(Append(g, e), y) <=> InTable(r2, b, y)
    BY DEF Holds
  <2>1. Has(g, y) <=> InTable(r, b, y)
    BY DEF Placed, Holds
  <2>2. InTable(r2, b, y) <=> InTable(r, b, y) \/ y = e
    BY <1>1, <1>3, <1>5, <1>6 DEF InTable
  <2> QED
    BY <1>4, <2>1, <2>2
<1>8. BlocksInv(r2, b)
  BY <1>1 DEF Placed, BlocksInv
<1>9. \A c, y : Parts(r, b, c, y) <=> Parts(r2, b, c, y)
  BY <1>1, <1>6 DEF Parts
<1>10. Separates(r2, b)
  <2> SUFFICES ASSUME NEW c \in 1 .. Len(r.index_block), NEW y
               PROVE  /\ Indexed(r2, b, c, y) => ~InternalLess(r2.index_block[c].key, y)
                      /\ Later(r2, b, c, y) => Parts(r2, b, c, y)
    BY <1>1 DEF Separates
  <2>1. Later(r2, b, c, y) => Later(r, b, c, y) \/ y = e
    BY <1>1, <1>3, <1>5, <1>6 DEF Later
  <2>2. /\ Indexed(r, b, c, y) => ~InternalLess(r.index_block[c].key, y)
        /\ Later(r, b, c, y) => Parts(r, b, c, y)
    BY DEF Placed, Separates
  <2> QED
    BY <1>1, <1>6, <1>9, <2>1, <2>2
<1>11. \A y : Has(g, y) => InternalLess(y, e)
  <2> SUFFICES ASSUME NEW y, Has(g, y) PROVE InternalLess(y, e)
    OBVIOUS
  <2>1. Len(g) > 0 /\ g[Len(g)] \in Entries /\ y \in Entries /\ ~InternalLess(g[Len(g)], y)
    BY LastIsGreatest
  <2> QED
    BY <2>1, EntriesAreKeys, LessTransWeak
<1>12. Increasing(Append(g, e))
  BY <1>11, IncreasingAppend
<1>13. Increasing(r2.data_block)
  <2>1. \A y : Has(r.data_block, y) => InternalLess(y, e)
    BY <1>11 DEF Placed, Holds, InTable
  <2> QED
    BY <1>1, <1>2, <2>1, IncreasingAppend
<1> QED
  BY <1>1, <1>7, <1>8, <1>9, <1>10, <1>12, <1>13 DEF Placed

LEMMA AddKeeps ==
  ASSUME NEW g \in Seq(Entries), Increasing(g), NEW r \in Reps, NEW fb, NEW b, Building(g, r, fb, b),
         NEW e \in Entries, Len(g) > 0 => InternalLess(g[Len(g)], e),
         NEW sep, sep \in IF r.pending_index_entry THEN Separators(r.last_key, e) ELSE {e},
         NEW r2, r2 = [WithIndexEntry(r, sep) EXCEPT !.last_key = e, !.data_block = Append(@, e)],
         NEW fb2, fb2 = [fb EXCEPT !.keys = Append(@, e.key)]
  PROVE  /\ r2 \in Reps /\ r2.ok = r.ok /\ r2.closed = r.closed /\ r2.offset = r.offset
         /\ Len(r2.data_block) > 0 /\ Increasing(Append(g, e)) /\ Building(Append(g, e), r2, fb2, b)
<1> USE TableConst
<1>1. PICK r1 : r1 = WithIndexEntry(r, sep)
  OBVIOUS
<1>2. Placed(g, r, b) /\ Increasing(r.data_block)
  BY DEF Building, Placed
<1>3. e \in InternalKeys
  BY EntriesAreKeys
<1>4. ASSUME NEW c \in 1 .. Len(r.index_block) PROVE Parts(r, b, c, e)
  <2>1. Len(g) > 0 /\ Parts(r, b, c, g[Len(g)]) /\ InternalLess(g[Len(g)], e)
    BY DEF Building
  <2>2. g[Len(g)] \in InternalKeys
    <3>1. Len(g) \in 1 .. Len(g)
      BY <2>1, LenProperties
    <3>2. g[Len(g)] \in Entries
      BY <3>1, ElementOfSeq
    <3> QED
      BY <3>2, EntriesAreKeys
  <2>3. r.index_block[c].key \in InternalKeys
    BY IndexLen
  <2>4. InternalLess(r.index_block[c].key, e)
    BY <1>3, <2>1, <2>2, <2>3, LessTrans DEF Parts
  <2>5. g[Len(g)].key <= e.key
    BY <1>3, <2>1, <2>2, LessAsym
  <2>6. r.index_block[c].key.key < g[Len(g)].key => r.index_block[c].key.key < e.key
    <3>1. r.index_block[c].key.key \in Nat /\ g[Len(g)].key \in Nat /\ e.key \in Nat
      BY <1>3, <2>2, <2>3 DEF InternalKeys
    <3> QED
      BY <2>5, <3>1
  <2> QED
    BY <2>1, <2>4, <2>6 DEF Parts
<1>5. /\ r1 \in Reps /\ r1.ok = r.ok /\ r1.closed = r.closed /\ r1.offset = r.offset /\ ~r1.pending_index_entry
      /\ r1.data_block = r.data_block
      /\ Placed(g, r1, b) /\ \A c \in 1 .. Len(r1.index_block) : Parts(r1, b, c, e)
  <2>1. CASE ~r.pending_index_entry
    <3>1. r1 = r
      BY <1>1, <2>1 DEF WithIndexEntry
    <3> QED
      BY <1>2, <1>4, <2>1, <3>1
  <2>2. CASE r.pending_index_entry
    <3>1. r.data_block = <<>> /\ r.pending_handle \in DOMAIN b /\ Len(g) > 0 /\ r.last_key = g[Len(g)]
      BY <2>2 DEF Building
    <3>2. PICK last : last = g[Len(g)]
      OBVIOUS
    <3>3. last \in Entries /\ last \in InternalKeys /\ Has(g, last)
      <4>1. Len(g) \in 1 .. Len(g)
        BY <3>1, LenProperties
      <4>2. last \in Entries
        BY <3>2, <4>1, ElementOfSeq
      <4> QED
        BY <3>2, <4>1, <4>2, EntriesAreKeys DEF Has
    <3>4. sep = last \/ \E k \in TableKeys : sep = KeyAt(k, kMaxSequenceNumber) /\ last.key < k /\ k < e.key
      BY <2>2, <3>1, <3>2 DEF Separators
    <3>5. sep \in InternalKeys /\ ~InternalLess(sep, last)
      <4>1. CASE sep = last
        BY <3>3, <4>1, LessAsym
      <4>2. CASE sep # last
        <5>1. PICK k \in TableKeys : sep = KeyAt(k, kMaxSequenceNumber) /\ last.key < k /\ k < e.key
          BY <3>4, <4>2
        <5>2. k \in Nat /\ kMaxSequenceNumber \in Nat /\ last.key \in Nat
          BY <3>3 DEF InternalKeys
        <5>3. sep \in InternalKeys /\ sep.key = k
          BY <5>1, <5>2 DEF InternalKeys, KeyAt
        <5> QED
          BY <5>1, <5>2, <5>3 DEF InternalLess
      <4> QED
        BY <4>1, <4>2
    <3>6. \A y : Pending(r, b, y) => ~InternalLess(sep, y)
      <4> SUFFICES ASSUME NEW y, Pending(r, b, y) PROVE ~InternalLess(sep, y)
        OBVIOUS
      <4>1. Has(g, y)
        BY <1>2 DEF Placed, Holds, InTable
      <4>2. y \in InternalKeys /\ ~InternalLess(last, y)
        BY <3>2, <4>1, LastIsGreatest, EntriesAreKeys
      <4> QED
        BY <3>3, <3>5, <4>2, LessTransWeak
    <3>7. IndexAdded(r, r1, sep)
      BY <1>1, <2>2, <3>5, WithIndexEntryAdds
    <3>8. /\ Placed(g, r1, b)
          /\ \A c \in 1 .. Len(r.index_block) : \A y : Indexed(r1, b, c, y) <=> Indexed(r, b, c, y)
          /\ \A y : Indexed(r1, b, Len(r.index_block) + 1, y) <=> Pending(r, b, y)
      BY <1>2, <2>2, <3>1, <3>5, <3>6, <3>7, IndexStep
    <3>9. /\ r1 \in Reps /\ r1.ok = r.ok /\ r1.closed = r.closed /\ r1.offset = r.offset /\ ~r1.pending_index_entry
          /\ r1.data_block = r.data_block /\ Len(r1.index_block) = Len(r.index_block) + 1
          /\ \A c \in 1 .. Len(r.index_block) : r1.index_block[c] = r.index_block[c]
          /\ r1.index_block[Len(r.index_block) + 1].key = sep
      BY <3>7 DEF IndexAdded
    <3>10. Pending(r, b, last)
      <4>1. InTable(r, b, last)
        BY <1>2, <3>3 DEF Placed, Holds
      <4>2. ~Has(r.data_block, last)
        BY <3>1 DEF Has
      <4>3. ASSUME NEW c \in 1 .. Len(r.index_block), Indexed(r, b, c, last) PROVE FALSE
        <5>1. ~InternalLess(r.index_block[c].key, last)
          BY <1>2, <4>3 DEF Placed, Separates
        <5>2. InternalLess(r.index_block[c].key, last)
          BY <3>2 DEF Building, Parts
        <5> QED
          BY <5>1, <5>2
      <4> QED
        BY <4>1, <4>2, <4>3 DEF InTable
    <3>11. ASSUME NEW c \in 1 .. Len(r1.index_block) PROVE Parts(r1, b, c, e)
      <4>1. CASE c \in 1 .. Len(r.index_block)
        BY <1>4, <3>8, <3>9, <4>1 DEF Parts
      <4>2. CASE c = Len(r.index_block) + 1
        <5>1. CASE sep = last
          <6>1. InternalLess(sep, e) /\ Indexed(r1, b, c, sep)
            BY <3>1, <3>2, <3>8, <3>10, <4>2, <5>1
          <6> QED
            BY <3>9, <4>2, <6>1 DEF Parts
        <5>2. CASE sep # last
          <6>1. PICK k \in TableKeys : sep = KeyAt(k, kMaxSequenceNumber) /\ last.key < k /\ k < e.key
            BY <3>4, <5>2
          <6>2. sep.key < e.key
            BY <6>1 DEF KeyAt
          <6> QED
            BY <3>9, <4>2, <6>2 DEF Parts, InternalLess
        <5> QED
          BY <5>1, <5>2
      <4>3. Len(r.index_block) \in Nat
        BY IndexLen
      <4> QED
        BY <3>9, <4>1, <4>2, <4>3
    <3> QED
      BY <3>8, <3>9, <3>11
  <2> QED
    BY <2>1, <2>2
<1>6. EntryAdded(r1, r2, e)
  <2>1. PICK s : s = Append(r1.data_block, e)
    OBVIOUS
  <2>2. s \in Seq(Entries)
    BY <1>5, <2>1, AppendProperties DEF Reps
  <2>3. r2 = [r1 EXCEPT !.last_key = e, !.data_block = s]
    BY <1>1, <2>1
  <2>4. r2 \in Reps
    BY <1>3, <1>5, <2>2, <2>3, Zenon DEF Reps
  <2>5. /\ r2.offset = r1.offset /\ r2.ok = r1.ok /\ r2.index_block = r1.index_block /\ r2.last_key = e
        /\ r2.closed = r1.closed /\ r2.pending_index_entry = r1.pending_index_entry /\ r2.data_block = s
    BY <1>5, <2>3 DEF Reps
  <2> QED
    BY <2>1, <2>4, <2>5 DEF EntryAdded
<1>7. /\ Placed(Append(g, e), r2, b) /\ Increasing(r2.data_block) /\ Increasing(Append(g, e))
      /\ \A c \in 1 .. Len(r2.index_block) : Parts(r2, b, c, e)
  BY <1>2, <1>5, <1>6, EntryStep
<1>8. /\ r2 \in Reps /\ r2.ok = r.ok /\ r2.closed = r.closed /\ r2.offset = r.offset /\ r2.last_key = e
      /\ ~r2.pending_index_entry /\ r2.data_block = Append(r.data_block, e)
  BY <1>5, <1>6 DEF EntryAdded
<1>9. Len(Append(g, e)) > 0 /\ Append(g, e)[Len(Append(g, e))] = e
  BY HasAppend
<1>10. r.data_block \in Seq(Entries)
  BY DEF Reps
<1>11. Len(r2.data_block) > 0 /\ \A y : Has(r2.data_block, y) <=> Has(r.data_block, y) \/ y = e
  <2>1. Len(Append(r.data_block, e)) = Len(r.data_block) + 1 /\ Len(r.data_block) \in Nat
    BY <1>10, HasAppend
  <2>2. \A y : Has(Append(r.data_block, e), y) <=> Has(r.data_block, y) \/ y = e
    BY <1>10, HasAppend
  <2>3. Len(r2.data_block) > 0
    BY <1>8, <2>1
  <2> QED
    BY <1>8, <2>2, <2>3
<1>12. fb \in FilterBuilders /\ e.key \in TableKeys
  BY DEF Building, Entries
<1>13. /\ fb2 \in FilterBuilders /\ fb2.result = fb.result
       /\ \A k : Has(fb2.keys, k) <=> Has(fb.keys, k) \/ k = e.key
  <2>1. PICK s : s = Append(fb.keys, e.key)
    OBVIOUS
  <2>2. fb.keys \in Seq(TableKeys)
    BY <1>12 DEF FilterBuilders
  <2>3. s \in Seq(TableKeys) /\ \A k : Has(s, k) <=> Has(fb.keys, k) \/ k = e.key
    BY <1>12, <2>1, <2>2, AppendProperties, HasAppend
  <2>4. fb2 = [fb EXCEPT !.keys = s]
    BY <2>1
  <2>5. fb2 \in FilterBuilders /\ fb2.result = fb.result /\ fb2.keys = s
    BY <1>12, <2>3, <2>4 DEF FilterBuilders
  <2> QED
    BY <2>3, <2>5
<1>14. Len(fb2.result) = r2.offset \div kFilterBase
  BY <1>8, <1>13 DEF Building
<1>15. \A o \in DOMAIN b : \A y : Has(b[o], y) => Filtered(fb2, o, y.key)
  BY <1>13 DEF Building, Filtered
<1>16. \A y : Has(r2.data_block, y) => Has(fb2.keys, y.key)
  BY <1>11, <1>13 DEF Building
<1>17. \A c \in 1 .. Len(r2.index_block) : Len(Append(g, e)) > 0 /\ Parts(r2, b, c, Append(g, e)[Len(Append(g, e))])
  BY <1>7, <1>9
<1> QED
  BY <1>7, <1>8, <1>9, <1>11, <1>13, <1>14, <1>15, <1>16, <1>17 DEF Building, Placed

-----------------------------------------------------------------------------
(* A block is written.                                                      *)

LEMMA DivMonotone ==
  ASSUME NEW d \in Nat, d > 0, NEW x \in Nat, NEW y \in Nat, x <= y
  PROVE  x \div d \in Nat /\ y \div d \in Nat /\ x \div d <= y \div d
  OBVIOUS

\* Filters up to the one for the block that starts at offset.
LEMMA StartBlockKeeps ==
  ASSUME NEW fb \in FilterBuilders, NEW at \in Nat, Len(fb.result) = at \div kFilterBase,
         NEW offset \in Nat, at <= offset, NEW fb2, fb2 = StartBlock(fb, offset)
  PROVE  /\ fb2 \in FilterBuilders /\ Len(fb2.result) = offset \div kFilterBase
         /\ \A o \in Nat : \A key : o <= at /\ Filtered(fb, o, key) => Filtered(fb2, o, key)
<1> USE TableConst
<1>1. PICK L \in Nat : L = at \div kFilterBase
  BY DivMonotone
<1>2. PICK index \in Nat : index = offset \div kFilterBase /\ L <= index
  BY <1>1, DivMonotone
<1>3. fb.result \in Seq(Filters) /\ fb.keys \in Seq(TableKeys) /\ Len(fb.result) = L
  BY <1>1 DEF FilterBuilders
<1>4. CASE index <= L
  <2>1. fb2 = fb
    BY <1>2, <1>3, <1>4 DEF StartBlock
  <2> QED
    BY <1>2, <1>3, <1>4, <2>1
<1>5. CASE ~(index <= L)
  <2>1. PICK F : F = IF fb.keys = <<>> THEN EmptyFilter ELSE CreateFilter(fb.keys)
    OBVIOUS
  <2>2. F \in Filters /\ EmptyFilter \in Filters
    BY <1>3, <2>1, FilterType
  <2>3. PICK s : s = Append(fb.result, F)
    OBVIOUS
  <2>4. s \in Seq(Filters) /\ Len(s) = L + 1 /\ s[L + 1] = F /\ \A i \in 1 .. L : s[i] = fb.result[i]
    BY <1>3, <2>2, <2>3, AppendProperties
  <2>5. PICK m \in Nat : m = index - (L + 1)
    BY <1>5
  <2>6. PICK t : t = [i \in 1 .. m |-> EmptyFilter]
    OBVIOUS
  <2>7. t \in Seq(Filters) /\ Len(t) = m
    BY <2>2, <2>5, <2>6
  <2>8. /\ s \o t \in Seq(Filters) /\ Len(s \o t) = L + 1 + m
        /\ \A i \in 1 .. L + 1 : (s \o t)[i] = s[i]
    <3>1. /\ s \o t \in Seq(Filters) /\ Len(s \o t) = Len(s) + Len(t)
          /\ \A i \in 1 .. Len(s) + Len(t) : (s \o t)[i] = IF i <= Len(s) THEN s[i] ELSE t[i - Len(s)]
      BY <2>4, <2>7, ConcatProperties
    <3>2. Len(s) + Len(t) = L + 1 + m
      BY <2>4, <2>7
    <3>3. \A i \in 1 .. L + 1 : i \in 1 .. Len(s) + Len(t) /\ i <= Len(s)
      BY <2>4, <2>5, <2>7
    <3> QED
      BY <3>1, <3>2, <3>3
  <2>9. GenerateFilter(fb) = [keys |-> <<>>, result |-> s]
    BY <2>1, <2>3 DEF GenerateFilter
  <2>10. fb2 = [keys |-> <<>>, result |-> s \o t]
    <3>1. fb2 = [GenerateFilter(fb) EXCEPT !.result = @ \o [i \in 1 .. index - Len(@) |-> EmptyFilter]]
      BY <1>2, <1>3, <1>5 DEF StartBlock
    <3>2. fb2 = [[keys |-> <<>>, result |-> s] EXCEPT !.result = s \o [i \in 1 .. index - Len(s) |-> EmptyFilter]]
      BY <2>9, <3>1
    <3>3. index - Len(s) = m
      BY <2>4, <2>5
    <3>4. fb2 = [[keys |-> <<>>, result |-> s] EXCEPT !.result = s \o t]
      BY <2>6, <3>2, <3>3
    <3> QED
      BY <3>4
  <2>11. PICK u : u = s \o t
    OBVIOUS
  <2>12. fb2.keys = <<>> /\ fb2.result = u /\ fb2 = [keys |-> <<>>, result |-> u]
    BY <2>10, <2>11
  <2>13. u \in Seq(Filters) /\ Len(u) = index
    <3>1. L + 1 + m = index
      BY <2>5
    <3> QED
      BY <2>8, <2>11, <3>1
  <2>14. fb2 \in FilterBuilders
    <3>1. <<>> \in Seq(TableKeys)
      OBVIOUS
    <3> QED
      BY <2>12, <2>13, <3>1 DEF FilterBuilders
  <2>15. ASSUME NEW o \in Nat, NEW key, o <= at, Filtered(fb, o, key) PROVE Filtered(fb2, o, key)
    <3>1. PICK x \in Nat : x = o \div kFilterBase /\ x <= L
      BY <1>1, <2>15, DivMonotone
    <3>2. /\ x + 1 <= L => PolicyMayMatch(key, fb.result[x + 1])
          /\ x + 1 > L => Has(fb.keys, key)
      BY <1>3, <2>15, <3>1 DEF Filtered
    <3>3. CASE x + 1 <= L
      <4>1. u[x + 1] = fb.result[x + 1]
        <5>1. x + 1 \in 1 .. L /\ x + 1 \in 1 .. L + 1
          BY <3>1, <3>3
        <5> QED
          BY <2>4, <2>8, <2>11, <5>1
      <4>2. x + 1 <= index
        BY <1>2, <3>1, <3>3
      <4> QED
        BY <2>12, <2>13, <3>1, <3>2, <3>3, <4>1, <4>2 DEF Filtered
    <3>4. CASE ~(x + 1 <= L)
      <4>1. x = L /\ Has(fb.keys, key)
        BY <3>1, <3>2, <3>4
      <4>2. fb.keys # <<>>
        BY <4>1 DEF Has
      <4>3. PolicyMayMatch(key, F)
        BY <1>3, <2>1, <4>1, <4>2, FilterMatches
      <4>4. u[x + 1] = F
        <5>1. L + 1 \in 1 .. L + 1
          OBVIOUS
        <5> QED
          BY <2>4, <2>8, <2>11, <4>1, <5>1
      <4>5. x + 1 <= index
        BY <1>5, <4>1
      <4> QED
        BY <2>12, <2>13, <3>1, <4>3, <4>4, <4>5 DEF Filtered
    <3> QED
      BY <3>3, <3>4
  <2> QED
    BY <1>2, <2>12, <2>13, <2>14, <2>15
<1> QED
  BY <1>4, <1>5

\* A data block as Flush writes it, without a fault.
LEMMA FlushedFields ==
  ASSUME NEW r \in Reps, NEW flush \in Flushes, r.ok, r.data_block # <<>>
  PROVE  /\ Flushed(r, flush) \in Reps /\ Flushed(r, flush).closed = r.closed
         /\ Flushed(r, flush).last_key = r.last_key /\ Flushed(r, flush).index_block = r.index_block
         /\ Flushed(r, flush).data_block = <<>> /\ Flushed(r, flush).ok = (flush.fault = "none")
         /\ flush.fault = "none" => /\ Flushed(r, flush).pending_handle = r.offset /\ Flushed(r, flush).pending_index_entry
                                    /\ Flushed(r, flush).offset > r.offset
<1> USE TableConst
<1>1. flush.size \in Nat /\ flush.size > 0 /\ flush.fault \in {"none", "append", "flush"}
  <2>1. flush.size \in BlockSizes /\ flush.fault \in {"none", "append", "flush"}
    BY DEF Flushes
  <2>2. flush.size \in Nat /\ flush.size # 0
    BY <2>1
  <2> QED
    BY <2>1, <2>2
<1>2. PICK o : o = IF flush.fault = "append" THEN r.offset ELSE r.offset + flush.size + kBlockTrailerSize
  OBVIOUS
<1>3. o \in Nat /\ r.offset \in Nat /\ (flush.fault = "none" => o > r.offset)
  <2>1. r.offset \in Nat
    BY DEF Reps
  <2> QED
    BY <1>1, <1>2, <2>1
<1>4. PICK f \in BOOLEAN : f = (flush.fault = "none")
  OBVIOUS
<1>5. PICK p \in BOOLEAN : p = (flush.fault # "append")
  OBVIOUS
<1>6. PICK r2 : r2 = Flushed(r, flush)
  OBVIOUS
<1>7. r2 = [r EXCEPT !.data_block = <<>>, !.pending_handle = r.offset, !.ok = f, !.pending_index_entry = p, !.offset = o]
  BY <1>2, <1>4, <1>5, <1>6 DEF Flushed
<1>8. <<>> \in Seq(Entries)
  OBVIOUS
<1>9. r2 \in Reps
  BY <1>3, <1>7, <1>8, Zenon DEF Reps
<1>10. /\ r2.closed = r.closed /\ r2.last_key = r.last_key /\ r2.index_block = r.index_block /\ r2.data_block = <<>>
       /\ r2.ok = f /\ r2.pending_handle = r.offset /\ r2.pending_index_entry = p /\ r2.offset = o
  BY <1>7 DEF Reps
<1> QED
  BY <1>3, <1>4, <1>5, <1>6, <1>9, <1>10

LEMMA FlushKeeps ==
  ASSUME NEW g \in Seq(Entries), NEW r \in Reps, NEW fb, Building(g, r, fb, blocks), r.ok, r.data_block # <<>>,
         NEW flush \in Flushes, flush.fault = "none"
  PROVE  Building(g, Flushed(r, flush), FlushedFilters(fb, r, Flushed(r, flush)), FlushedBlocks(r, flush))
<1> USE TableConst
<1>1. PICK r2 : r2 = Flushed(r, flush)
  OBVIOUS
<1>2. /\ r2 \in Reps /\ r2.closed = r.closed /\ r2.last_key = r.last_key /\ r2.index_block = r.index_block
      /\ r2.data_block = <<>> /\ r2.pending_handle = r.offset /\ r2.pending_index_entry /\ r2.offset > r.offset
      /\ r.offset \in Nat /\ r2.offset \in Nat
  <2>1. r.offset \in Nat /\ (r2 \in Reps => r2.offset \in Nat)
    BY DEF Reps
  <2> QED
    BY <1>1, <2>1, FlushedFields
<1>3. PICK b : b = FlushedBlocks(r, flush)
  OBVIOUS
<1>4. b = [o \in DOMAIN blocks \cup {r.offset} |-> IF o = r.offset THEN r.data_block ELSE blocks[o]]
  BY <1>3 DEF FlushedBlocks
<1>5. /\ DOMAIN b = DOMAIN blocks \cup {r.offset} /\ b[r.offset] = r.data_block
      /\ \A o \in DOMAIN blocks : o < r.offset /\ o \in Nat /\ b[o] = blocks[o]
  <2>1. \A o \in DOMAIN blocks : o < r.offset /\ o \in Nat
    BY DEF Building, BlocksInv
  <2>2. \A o \in DOMAIN blocks : o # r.offset
    BY <1>2, <2>1
  <2> QED
    BY <1>4, <2>1, <2>2
<1>6. ~r.pending_index_entry
  BY DEF Building
<1>7. \A c, y : Indexed(r2, b, c, y) <=> Indexed(r, blocks, c, y)
  <2>1. \A c \in 1 .. Len(r.index_block) : b[r.index_block[c].handle] = blocks[r.index_block[c].handle]
    BY <1>5 DEF Building, BlocksInv
  <2> QED
    BY <1>2, <2>1 DEF Indexed
<1>8. \A y : /\ Pending(r2, b, y) <=> Has(r.data_block, y)
             /\ ~Has(r2.data_block, y) /\ ~Pending(r, blocks, y)
  BY <1>2, <1>5, <1>6 DEF Pending, Has
<1>9. BlocksInv(r2, b)
  <2>1. DOMAIN b \subseteq Nat
    BY <1>2, <1>5
  <2>2. ASSUME NEW o \in DOMAIN b PROVE b[o] \in Seq(Entries) /\ Increasing(b[o]) /\ o < r2.offset
    <3>1. CASE o \in DOMAIN blocks
      <4>1. blocks[o] \in Seq(Entries) /\ Increasing(blocks[o])
        BY <3>1 DEF Building, BlocksInv
      <4> QED
        BY <1>2, <1>5, <3>1, <4>1
    <3>2. CASE o = r.offset
      <4>1. r.data_block \in Seq(Entries) /\ Increasing(r.data_block)
        BY DEF Building, Reps
      <4> QED
        BY <1>2, <1>5, <3>2, <4>1
    <3> QED
      BY <1>5, <3>1, <3>2
  <2>3. \A i \in 1 .. Len(r2.index_block) : r2.index_block[i].handle \in DOMAIN b
    BY <1>2, <1>5 DEF Building, BlocksInv
  <2> QED
    BY <2>1, <2>2, <2>3 DEF BlocksInv
<1>10. Holds(g, r2, b)
  <2>1. \A y : InTable(r2, b, y) <=> InTable(r, blocks, y)
    BY <1>2, <1>7, <1>8 DEF InTable
  <2> QED
    BY <2>1 DEF Building, Holds
<1>11. \A c, y : Parts(r2, b, c, y) <=> Parts(r, blocks, c, y)
  BY <1>2, <1>7 DEF Parts
<1>12. Separates(r2, b)
  <2>1. \A c, y : Later(r2, b, c, y) <=> Later(r, blocks, c, y)
    BY <1>2, <1>7, <1>8 DEF Later
  <2> QED
    BY <1>2, <1>7, <1>11, <2>1 DEF Building, Separates
<1>13. Increasing(r2.data_block)
  BY <1>2 DEF Increasing
<1>14. Len(g) > 0
  <2>1. PICK y : Has(r.data_block, y)
    <3>1. r.data_block \in Seq(Entries)
      BY DEF Reps
    <3>2. 1 \in 1 .. Len(r.data_block)
      BY <3>1, EmptySeq, LenProperties
    <3> QED
      BY <3>2 DEF Has
  <2>2. Has(g, y)
    BY <2>1 DEF Building, Holds, InTable
  <2>3. Len(g) \in Nat
    BY LenProperties
  <2> QED
    BY <2>2, <2>3 DEF Has
<1>15. r2.last_key = g[Len(g)]
  BY <1>2, <1>14 DEF Building
<1>16. \A c \in 1 .. Len(r2.index_block) : Len(g) > 0 /\ Parts(r2, b, c, g[Len(g)])
  BY <1>2, <1>11, <1>14 DEF Building
<1>17. PICK fb2 : fb2 = StartBlock(fb, r2.offset)
  OBVIOUS
<1>18. FlushedFilters(fb, r, r2) = fb2
  BY <1>17 DEF FlushedFilters
<1>19. /\ fb2 \in FilterBuilders /\ Len(fb2.result) = r2.offset \div kFilterBase
       /\ \A o \in Nat : \A key : o <= r.offset /\ Filtered(fb, o, key) => Filtered(fb2, o, key)
  <2>1. fb \in FilterBuilders /\ Len(fb.result) = r.offset \div kFilterBase /\ r.offset <= r2.offset
    BY <1>2 DEF Building
  <2> QED
    BY <1>2, <1>17, <2>1, StartBlockKeeps
<1>20. ASSUME NEW o \in DOMAIN b, NEW y, Has(b[o], y) PROVE Filtered(fb2, o, y.key)
  <2>1. CASE o \in DOMAIN blocks
    <3>1. Filtered(fb, o, y.key) /\ o \in Nat /\ o <= r.offset
      BY <1>2, <1>5, <1>20, <2>1 DEF Building
    <3> QED
      BY <1>19, <3>1
  <2>2. CASE o = r.offset
    <3>1. Has(fb.keys, y.key)
      BY <1>5, <1>20, <2>2 DEF Building
    <3>2. Len(fb.result) = o \div kFilterBase /\ o \div kFilterBase \in Nat
      BY <1>2, <2>2, DivMonotone DEF Building
    <3>3. ~(o \div kFilterBase + 1 <= Len(fb.result))
      BY <3>2
    <3>4. Filtered(fb, o, y.key)
      BY <3>1, <3>3 DEF Filtered
    <3>5. o <= r.offset
      BY <1>2, <2>2
    <3> QED
      BY <1>2, <1>19, <2>2, <3>4, <3>5
  <2> QED
    BY <1>5, <2>1, <2>2
<1>21. \A y : Has(r2.data_block, y) => Has(fb2.keys, y.key)
  BY <1>8
<1>22. r2.pending_handle \in DOMAIN b
  BY <1>2, <1>5
<1>23. Building(g, r2, fb2, b)
  BY <1>2, <1>9, <1>10, <1>12, <1>13, <1>14, <1>15, <1>16, <1>19, <1>20, <1>21, <1>22 DEF Building
<1> QED
  BY <1>1, <1>3, <1>18, <1>23

-----------------------------------------------------------------------------
(* A table is finished.                                                     *)

LEMMA FinishFiltersKeeps ==
  ASSUME NEW fb \in FilterBuilders, NEW b,
         \A o \in DOMAIN b : \A e : Has(b[o], e) => Filtered(fb, o, e.key), DOMAIN b \subseteq Nat
  PROVE  \A o \in DOMAIN b : \A e : Has(b[o], e) =>
            LET index == o \div kFilterBase + 1
            IN  index \in DOMAIN FinishFilters(fb).result => PolicyMayMatch(e.key, FinishFilters(fb).result[index])
<1> USE TableConst
<1>1. /\ fb.result \in Seq(Filters) /\ fb.keys \in Seq(TableKeys) /\ Len(fb.result) \in Nat
      /\ DOMAIN fb.result = 1 .. Len(fb.result)
  <2>1. fb.result \in Seq(Filters) /\ fb.keys \in Seq(TableKeys)
    BY DEF FilterBuilders
  <2> QED
    BY <2>1, LenProperties
<1> SUFFICES ASSUME NEW o \in DOMAIN b, NEW e, Has(b[o], e), NEW index, index = o \div kFilterBase + 1,
                    index \in DOMAIN FinishFilters(fb).result
             PROVE  PolicyMayMatch(e.key, FinishFilters(fb).result[index])
  OBVIOUS
<1>2. index \in Nat
  BY DivMonotone
<1>3. /\ index <= Len(fb.result) => PolicyMayMatch(e.key, fb.result[index])
      /\ index > Len(fb.result) => Has(fb.keys, e.key)
  BY DEF Filtered
<1>4. CASE fb.keys = <<>>
  <2>1. FinishFilters(fb) = fb
    BY <1>4 DEF FinishFilters
  <2>2. index <= Len(fb.result)
    BY <1>1, <2>1
  <2> QED
    BY <1>3, <2>1, <2>2
<1>5. CASE fb.keys # <<>>
  <2>1. PICK F : F = CreateFilter(fb.keys)
    OBVIOUS
  <2>2. F \in Filters
    BY <1>1, <2>1, FilterType
  <2>3. PICK s : s = Append(fb.result, F)
    OBVIOUS
  <2>4. FinishFilters(fb).result = s
    BY <1>5, <2>1, <2>3 DEF FinishFilters, GenerateFilter
  <2>5. /\ s \in Seq(Filters) /\ Len(s) = Len(fb.result) + 1 /\ s[Len(fb.result) + 1] = F
        /\ \A i \in 1 .. Len(fb.result) : s[i] = fb.result[i]
    BY <1>1, <2>2, <2>3, AppendProperties
  <2>6. DOMAIN s = 1 .. Len(fb.result) + 1
    BY <2>5, LenProperties
  <2>7. CASE index \in 1 .. Len(fb.result)
    BY <1>1, <1>3, <2>4, <2>5, <2>7
  <2>8. CASE index = Len(fb.result) + 1
    <3>1. Has(fb.keys, e.key)
      BY <1>1, <1>3, <2>8
    <3>2. PolicyMayMatch(e.key, F)
      BY <1>1, <2>1, <3>1, FilterMatches
    <3> QED
      BY <2>4, <2>5, <2>8, <3>2
  <2> QED
    BY <1>1, <2>4, <2>6, <2>7, <2>8
<1> QED
  BY <1>4, <1>5

LEMMA FlushedType ==
  ASSUME NEW r \in Reps, NEW flush \in Flushes
  PROVE  Flushed(r, flush) \in Reps /\ (Flushed(r, flush).ok => r.ok)
<1>1. CASE ~r.ok \/ r.data_block = <<>>
  BY <1>1 DEF Flushed
<1>2. CASE r.ok /\ r.data_block # <<>>
  BY <1>2, FlushedFields
<1> QED
  BY <1>1, <1>2

LEMMA WithIndexEntryType ==
  ASSUME NEW r \in Reps, NEW sep \in InternalKeys
  PROVE  /\ WithIndexEntry(r, sep) \in Reps /\ WithIndexEntry(r, sep).ok = r.ok
         /\ WithIndexEntry(r, sep).closed = r.closed
<1>1. CASE r.pending_index_entry
  BY <1>1, WithIndexEntryAdds DEF IndexAdded
<1>2. CASE ~r.pending_index_entry
  BY <1>2 DEF WithIndexEntry
<1> QED
  BY <1>1, <1>2

LEMMA SuccessorKeys ==
  ASSUME NEW last \in InternalKeys, NEW s \in Successors(last)
  PROVE  s \in InternalKeys /\ ~InternalLess(s, last)
<1> USE TableConst
<1>1. CASE s = last
  BY <1>1, LessAsym
<1>2. CASE s # last
  <2>1. PICK k \in TableKeys : s = KeyAt(k, kMaxSequenceNumber) /\ last.key < k
    BY <1>2 DEF Successors
  <2>2. k \in Nat /\ kMaxSequenceNumber \in Nat /\ last.key \in Nat
    BY DEF InternalKeys
  <2>3. s \in InternalKeys /\ s.key = k
    BY <2>1, <2>2 DEF InternalKeys, KeyAt
  <2> QED
    BY <2>1, <2>2, <2>3 DEF InternalLess
<1> QED
  BY <1>1, <1>2

\* The table after Finish: the builder was r before the last index entry.
LEMMA FinishKeeps ==
  ASSUME NEW g \in Seq(Entries), Increasing(g), NEW f \in Reps, NEW fb, NEW b, Building(g, f, fb, b), f.data_block = <<>>,
         NEW r \in Reps, r.offset = f.offset, r.data_block = f.data_block, r.index_block = f.index_block,
         r.last_key = f.last_key, r.pending_index_entry = f.pending_index_entry, r.pending_handle = f.pending_handle,
         NEW s, s \in IF r.pending_index_entry THEN Successors(r.last_key) ELSE {r.last_key}
  PROVE  Built(g, WithIndexEntry(r, s), FinishFilters(fb), b)
<1>1. Placed(g, r, b)
  <2>1. \A c, y : Indexed(r, b, c, y) <=> Indexed(f, b, c, y)
    BY DEF Indexed
  <2>2. \A y : Pending(r, b, y) <=> Pending(f, b, y)
    BY DEF Pending
  <2>3. \A y : InTable(r, b, y) <=> InTable(f, b, y)
    BY <2>1, <2>2 DEF InTable
  <2>4. \A c, y : /\ Later(r, b, c, y) <=> Later(f, b, c, y)
                  /\ Parts(r, b, c, y) <=> Parts(f, b, c, y)
    BY <2>1, <2>2 DEF Later, Parts
  <2>5. BlocksInv(r, b)
    BY DEF Building, BlocksInv
  <2>6. Holds(g, r, b)
    BY <2>3 DEF Building, Holds
  <2>7. Separates(r, b)
    BY <2>1, <2>4 DEF Building, Separates
  <2> QED
    BY <2>5, <2>6, <2>7 DEF Placed
<1>2. \A o \in DOMAIN b : \A e : Has(b[o], e) =>
         LET index == o \div kFilterBase + 1
         IN  index \in DOMAIN FinishFilters(fb).result => PolicyMayMatch(e.key, FinishFilters(fb).result[index])
  <2>1. fb \in FilterBuilders /\ (\A o \in DOMAIN b : \A e : Has(b[o], e) => Filtered(fb, o, e.key)) /\ DOMAIN b \subseteq Nat
    BY DEF Building, BlocksInv
  <2> QED
    BY <2>1, FinishFiltersKeeps
<1>3. CASE ~r.pending_index_entry
  <2>1. WithIndexEntry(r, s) = r
    BY <1>3 DEF WithIndexEntry
  <2> QED
    BY <1>1, <1>2, <1>3, <2>1 DEF Built, Placed
<1>4. CASE r.pending_index_entry
  <2>1. PICK r1 : r1 = WithIndexEntry(r, s)
    OBVIOUS
  <2>2. r.last_key \in InternalKeys /\ s \in Successors(r.last_key)
    BY <1>4 DEF Reps
  <2>3. s \in InternalKeys /\ ~InternalLess(s, r.last_key)
    BY <2>2, SuccessorKeys
  <2>4. r.pending_handle \in DOMAIN b /\ Len(g) > 0 /\ r.last_key = g[Len(g)]
    BY <1>4 DEF Building
  <2>5. \A y : Pending(r, b, y) => ~InternalLess(s, y)
    <3> SUFFICES ASSUME NEW y, Pending(r, b, y) PROVE ~InternalLess(s, y)
      OBVIOUS
    <3>1. Has(g, y)
      BY <1>1 DEF Placed, Holds, InTable
    <3>2. y \in InternalKeys /\ ~InternalLess(r.last_key, y)
      BY <2>4, <3>1, LastIsGreatest, EntriesAreKeys
    <3> QED
      BY <2>2, <2>3, <3>2, LessTransWeak
  <2>6. IndexAdded(r, r1, s)
    BY <1>4, <2>1, <2>3, WithIndexEntryAdds
  <2>7. Placed(g, r1, b)
    BY <1>1, <1>4, <2>3, <2>4, <2>5, <2>6, IndexStep
  <2>8. r1.data_block = <<>> /\ ~r1.pending_index_entry
    BY <2>6 DEF IndexAdded
  <2> QED
    BY <1>2, <2>1, <2>7, <2>8 DEF Built, Placed
<1> QED
  BY <1>3, <1>4

-----------------------------------------------------------------------------
(* The steps.                                                               *)

LEMMA AddedEntries ==
  ASSUME TableInv, NEW key \in AddedKeys, NEW seq \in 1 .. MaxTableEntries
  PROVE  /\ KeyAt(key, seq) \in Entries /\ KeyAt(key, seq) \in InternalKeys
         /\ \A sep : Adding(KeyAt(key, seq), sep) =>
               /\ Len(given) > 0 => InternalLess(given[Len(given)], KeyAt(key, seq))
               /\ rep.closed = "no" /\ given' = Append(given, KeyAt(key, seq)) /\ table' = table
               /\ given' \in Seq(Entries) /\ Increasing(given')
               /\ sep \in IF rep.pending_index_entry THEN Separators(rep.last_key, KeyAt(key, seq)) ELSE {KeyAt(key, seq)}
<1>1. PICK e : e = KeyAt(key, seq)
  OBVIOUS
<1>2. e \in Entries /\ e \in InternalKeys
  <2>1. e \in Entries
    BY <1>1, TableConst DEF KeyAt, Entries
  <2> QED
    BY <2>1, EntriesAreKeys
<1>3. ASSUME NEW sep, Adding(e, sep)
      PROVE  /\ Len(given) > 0 => InternalLess(given[Len(given)], e)
             /\ rep.closed = "no" /\ given' = Append(given, e) /\ table' = table
             /\ given' \in Seq(Entries) /\ Increasing(given')
             /\ sep \in IF rep.pending_index_entry THEN Separators(rep.last_key, e) ELSE {e}
  <2>1. /\ given # <<>> => InternalLess(Last(given), e)
        /\ rep.closed = "no" /\ given' = Append(given, e) /\ table' = table
        /\ sep \in IF rep.pending_index_entry THEN Separators(rep.last_key, e) ELSE {e}
    BY <1>3 DEF Adding
  <2>2. given \in Seq(Entries) /\ Increasing(given)
    BY DEF TableInv
  <2>3. Len(given) > 0 => InternalLess(given[Len(given)], e)
    BY <2>1, <2>2 DEF Last
  <2>4. given' \in Seq(Entries)
    BY <1>2, <2>1, <2>2, AppendProperties
  <2>5. \A y : Has(given, y) => InternalLess(y, e)
    <3> SUFFICES ASSUME NEW y, Has(given, y) PROVE InternalLess(y, e)
      OBVIOUS
    <3>1. Len(given) > 0 /\ given[Len(given)] \in Entries /\ y \in Entries /\ ~InternalLess(given[Len(given)], y)
      BY <2>2, LastIsGreatest
    <3> QED
      BY <1>2, <2>3, <3>1, EntriesAreKeys, LessTransWeak
  <2>6. Increasing(given')
    BY <1>2, <2>1, <2>2, <2>5, IncreasingAppend
  <2> QED
    BY <2>1, <2>3, <2>4, <2>6
<1> QED
  BY <1>1, <1>2, <1>3

\* The entry comes to the builder, before a flush.
LEMMA AddingBuilds ==
  ASSUME TableInv, NEW e \in Entries, rep.ok, rep.closed = "no", Len(given) > 0 => InternalLess(given[Len(given)], e),
         NEW sep, sep \in IF rep.pending_index_entry THEN Separators(rep.last_key, e) ELSE {e}
  PROVE  /\ RepWith(e, sep) \in Reps /\ RepWith(e, sep).ok = rep.ok /\ RepWith(e, sep).closed = rep.closed
         /\ Len(RepWith(e, sep).data_block) > 0
         /\ Building(Append(given, e), RepWith(e, sep), FiltersWith(e), blocks)
<1>1. given \in Seq(Entries) /\ Increasing(given) /\ rep \in Reps /\ Building(given, rep, filters, blocks)
  BY DEF TableInv
<1>2. PICK r2 : r2 = RepWith(e, sep)
  OBVIOUS
<1>3. PICK fb2 : fb2 = FiltersWith(e)
  OBVIOUS
<1>4. /\ r2 = [WithIndexEntry(rep, sep) EXCEPT !.last_key = e, !.data_block = Append(@, e)]
      /\ fb2 = [filters EXCEPT !.keys = Append(@, e.key)]
  BY <1>2, <1>3 DEF RepWith, FiltersWith
<1>5. /\ r2 \in Reps /\ r2.ok = rep.ok /\ r2.closed = rep.closed
      /\ Len(r2.data_block) > 0 /\ Building(Append(given, e), r2, fb2, blocks)
  BY <1>1, <1>4, AddKeeps
<1> QED
  BY <1>2, <1>3, <1>5

LEMMA TableAddStep ==
  ASSUME TableInv, NEW key \in AddedKeys, NEW seq \in 1 .. MaxTableEntries, NEW sep, TableAdd(KeyAt(key, seq), sep)
  PROVE  TableInv'
<1>1. PICK e : e = KeyAt(key, seq)
  OBVIOUS
<1>2. /\ e \in Entries /\ (Len(given) > 0 => InternalLess(given[Len(given)], e))
      /\ rep.closed = "no" /\ given' = Append(given, e) /\ table' = table
      /\ given' \in Seq(Entries) /\ Increasing(given')
      /\ sep \in IF rep.pending_index_entry THEN Separators(rep.last_key, e) ELSE {e}
  BY <1>1, AddedEntries DEF TableAdd
<1>3. ~table'.open
  BY <1>2 DEF TableInv
<1>4. CASE rep.ok
  <2>1. rep' = RepWith(e, sep) /\ filters' = FiltersWith(e) /\ blocks' = blocks
    BY <1>1, <1>4 DEF TableAdd
  <2>2. /\ RepWith(e, sep) \in Reps /\ RepWith(e, sep).ok = rep.ok /\ RepWith(e, sep).closed = rep.closed
        /\ Building(Append(given, e), RepWith(e, sep), FiltersWith(e), blocks)
    BY <1>2, <1>4, AddingBuilds
  <2>3. rep' \in Reps /\ rep'.closed = "no" /\ Building(given', rep', filters', blocks')
    BY <1>2, <2>1, <2>2
  <2>4. (Increasing(given))' /\ (Building(given, rep, filters, blocks))'
    BY <1>2, <2>3
  <2> QED
    BY <1>2, <1>3, <2>3, <2>4 DEF TableInv
<1>5. CASE ~rep.ok
  <2>1. rep' = rep
    BY <1>5 DEF TableAdd
  <2>2. rep \in Reps
    BY DEF TableInv
  <2> QED
    BY <1>2, <1>3, <1>5, <2>1, <2>2 DEF TableInv
<1> QED
  BY <1>4, <1>5

LEMMA TableAddFullStep ==
  ASSUME TableInv, NEW key \in AddedKeys, NEW seq \in 1 .. MaxTableEntries, NEW sep, NEW flush \in Flushes,
         TableAddFull(KeyAt(key, seq), sep, flush)
  PROVE  TableInv'
<1>1. PICK e : e = KeyAt(key, seq)
  OBVIOUS
<1>2. /\ e \in Entries /\ (Len(given) > 0 => InternalLess(given[Len(given)], e))
      /\ rep.closed = "no" /\ given' = Append(given, e) /\ table' = table
      /\ given' \in Seq(Entries) /\ Increasing(given')
      /\ sep \in IF rep.pending_index_entry THEN Separators(rep.last_key, e) ELSE {e}
  BY <1>1, AddedEntries DEF TableAddFull
<1>3. ~table'.open
  BY <1>2 DEF TableInv
<1>4. PICK r : r = RepWith(e, sep)
  OBVIOUS
<1>5. /\ rep.ok /\ rep' = Flushed(r, flush) /\ filters' = FlushedFilters(FiltersWith(e), r, Flushed(r, flush))
      /\ blocks' = FlushedBlocks(r, flush)
  BY <1>1, <1>4 DEF TableAddFull
<1>6. /\ r \in Reps /\ r.ok /\ r.closed = "no" /\ r.data_block # <<>>
      /\ Building(Append(given, e), r, FiltersWith(e), blocks)
  <2>1. /\ r \in Reps /\ r.ok = rep.ok /\ r.closed = rep.closed /\ Len(r.data_block) > 0
        /\ Building(Append(given, e), r, FiltersWith(e), blocks)
    BY <1>2, <1>4, <1>5, AddingBuilds
  <2> QED
    BY <1>2, <1>5, <2>1
<1>7. rep' \in Reps /\ rep'.closed = "no" /\ (rep'.ok => flush.fault = "none")
  BY <1>5, <1>6, FlushedFields
<1>8. ASSUME rep'.ok PROVE Building(given', rep', filters', blocks')
  BY <1>2, <1>5, <1>6, <1>7, <1>8, FlushKeeps
<1>9. (Increasing(given))' /\ (rep'.ok => (Building(given, rep, filters, blocks))')
  BY <1>2, <1>8
<1> QED
  BY <1>2, <1>3, <1>7, <1>9 DEF TableInv

LEMMA TableFinishStep ==
  ASSUME TableInv, NEW successor \in Successors(rep.last_key), NEW flush \in Flushes, NEW late \in BOOLEAN,
         TableFinish(successor, flush, late)
  PROVE  TableInv'
<1>1. given \in Seq(Entries) /\ Increasing(given) /\ rep \in Reps /\ rep.closed = "no" /\ ~table.open
  BY DEF TableInv, TableFinish
<1>2. PICK f : f = Flushed(rep, flush)
  OBVIOUS
<1>3. f \in Reps /\ (f.ok => rep.ok) /\ f.ok \in BOOLEAN
  <2>1. f \in Reps /\ (f.ok => rep.ok)
    BY <1>1, <1>2, FlushedType
  <2> QED
    BY <2>1 DEF Reps
<1>4. PICK r : r = [f EXCEPT !.closed = "Finish", !.ok = @ /\ ~late]
  OBVIOUS
<1>5. /\ r \in Reps /\ r.closed = "Finish" /\ r.ok = (f.ok /\ ~late)
      /\ r.offset = f.offset /\ r.data_block = f.data_block /\ r.index_block = f.index_block
      /\ r.last_key = f.last_key /\ r.pending_index_entry = f.pending_index_entry /\ r.pending_handle = f.pending_handle
  BY <1>3, <1>4 DEF Reps
<1>6. PICK fb : fb = FlushedFilters(filters, rep, f)
  OBVIOUS
<1>7. /\ successor \in IF r.pending_index_entry THEN Successors(r.last_key) ELSE {r.last_key}
      /\ rep' = IF r.ok THEN WithIndexEntry(r, successor) ELSE r
      /\ filters' = IF f.ok THEN FinishFilters(fb) ELSE fb
      /\ blocks' = FlushedBlocks(rep, flush) /\ given' = given /\ table' = table
  BY <1>2, <1>4, <1>6 DEF TableFinish
<1>8. successor \in InternalKeys
  <2>1. rep.last_key \in InternalKeys
    BY <1>1 DEF Reps
  <2> QED
    BY <2>1, SuccessorKeys
<1>9. rep' \in Reps /\ rep'.closed = "Finish" /\ rep'.ok = r.ok
  BY <1>5, <1>7, <1>8, WithIndexEntryType
<1>10. ASSUME rep'.ok PROVE Built(given', rep', filters', blocks')
  <2>1. r.ok /\ f.ok /\ rep.ok
    BY <1>3, <1>5, <1>9, <1>10
  <2>2. Building(given, rep, filters, blocks)
    BY <1>1, <2>1 DEF TableInv
  <2>3. Building(given, f, fb, blocks') /\ f.data_block = <<>>
    <3>1. CASE rep.data_block = <<>>
      <4>1. f = rep /\ fb = filters /\ blocks' = blocks
        BY <1>2, <1>6, <1>7, <3>1 DEF Flushed, FlushedFilters, FlushedBlocks
      <4> QED
        BY <2>2, <3>1, <4>1
    <3>2. CASE rep.data_block # <<>>
      <4>1. f.data_block = <<>> /\ flush.fault = "none"
        BY <1>1, <1>2, <2>1, <3>2, FlushedFields
      <4> QED
        BY <1>1, <1>2, <1>6, <1>7, <2>1, <2>2, <3>2, <4>1, FlushKeeps
    <3> QED
      BY <3>1, <3>2
  <2>4. Built(given, WithIndexEntry(r, successor), FinishFilters(fb), blocks')
    BY <1>1, <1>3, <1>5, <1>7, <2>3, FinishKeeps
  <2> QED
    BY <1>7, <2>1, <2>4
<1>11. (Increasing(given))' /\ (rep'.ok => (Built(given, rep, filters, blocks))')
  BY <1>1, <1>7, <1>10
<1> QED
  BY <1>1, <1>7, <1>9, <1>11 DEF TableInv

LEMMA TableInvInit == TableInit => TableInv
<1> SUFFICES ASSUME TableInit PROVE TableInv
  OBVIOUS
<1>1. /\ given = <<>> /\ filters = [keys |-> <<>>, result |-> <<>>] /\ DOMAIN blocks = {} /\ ~table.open
      /\ rep = [offset |-> 0, ok |-> TRUE, data_block |-> <<>>, index_block |-> <<>>,
                last_key |-> NoTableEntry, pending_index_entry |-> FALSE, pending_handle |-> 0, closed |-> "no"]
  BY DEF TableInit
<1>2. NoTableEntry \in InternalKeys
  BY DEF NoTableEntry, KeyAt, InternalKeys
<1>3. rep \in Reps
  <2>1. <<>> \in Seq(Entries) /\ <<>> \in Seq(IndexEntries)
    OBVIOUS
  <2> QED
    BY <1>1, <1>2, <2>1 DEF Reps
<1>4. /\ rep.data_block = <<>> /\ rep.index_block = <<>> /\ rep.closed = "no" /\ ~rep.pending_index_entry
      /\ rep.offset = 0
  BY <1>1
<1>5. filters \in FilterBuilders /\ filters.result = <<>>
  BY <1>1 DEF FilterBuilders
<1>6. 0 \div kFilterBase = 0
  BY TableConst
<1>7. \A y : ~InTable(rep, blocks, y) /\ ~Has(given, y) /\ ~Has(rep.data_block, y)
  BY <1>1, <1>4 DEF InTable, Has, Pending
<1>8. BlocksInv(rep, blocks) /\ Holds(given, rep, blocks) /\ Separates(rep, blocks)
  <2>1. Len(rep.index_block) = 0 /\ 1 .. Len(rep.index_block) = {}
    BY <1>4
  <2>2. BlocksInv(rep, blocks)
    BY <1>1, <1>4, <2>1 DEF BlocksInv
  <2>3. Holds(given, rep, blocks)
    BY <1>7 DEF Holds
  <2>4. Separates(rep, blocks)
    BY <1>1, <1>4, <2>1 DEF Separates
  <2> QED
    BY <2>2, <2>3, <2>4
<1>9. Increasing(given) /\ Increasing(rep.data_block)
  BY <1>1, <1>4 DEF Increasing
<1>10. Building(given, rep, filters, blocks)
  BY <1>1, <1>4, <1>5, <1>6, <1>7, <1>8, <1>9 DEF Building
<1> QED
  BY <1>1, <1>3, <1>4, <1>9, <1>10 DEF TableInv

\* Steps that leave what was built alone.
LEMMA BuiltStays ==
  ASSUME TableInv, UNCHANGED <<given, rep, filters, blocks>>, table'.open => rep.ok /\ rep.closed = "Finish"
  PROVE  TableInv'
  BY DEF TableInv

LEMMA TableInvNext == TableInv /\ [TableNext]_tableVars => TableInv'
<1> SUFFICES ASSUME TableInv, [TableNext]_tableVars PROVE TableInv'
  OBVIOUS
<1>0. table.open => rep.ok /\ rep.closed = "Finish"
  BY DEF TableInv
<1>1. ASSUME NEW key \in AddedKeys, NEW seq \in 1 .. MaxTableEntries, NEW sep, TableAdd(KeyAt(key, seq), sep) PROVE TableInv'
  BY <1>1, TableAddStep
<1>2. ASSUME NEW key \in AddedKeys, NEW seq \in 1 .. MaxTableEntries, NEW sep, NEW flush \in Flushes,
             TableAddFull(KeyAt(key, seq), sep, flush)
      PROVE  TableInv'
  BY <1>2, TableAddFullStep
<1>3. ASSUME NEW flush \in Flushes, NEW late \in BOOLEAN, NEW successor \in Successors(rep.last_key),
             TableFinish(successor, flush, late)
      PROVE  TableInv'
  BY <1>3, TableFinishStep
<1>4. ASSUME TableAbandon PROVE TableInv'
  <2>1. /\ rep' = [rep EXCEPT !.closed = "Abandon"] /\ given' = given /\ table' = table /\ rep.closed = "no"
    BY <1>4 DEF TableAbandon
  <2>2. rep \in Reps /\ given \in Seq(Entries) /\ Increasing(given)
    BY DEF TableInv
  <2>3. rep' \in Reps /\ rep'.closed = "Abandon"
    BY <2>1, <2>2 DEF Reps
  <2>4. (Increasing(given))'
    BY <2>1, <2>2
  <2> QED
    BY <1>0, <2>1, <2>2, <2>3, <2>4 DEF TableInv
<1>5. ASSUME NEW filter \in BOOLEAN, TableOpen(filter) PROVE TableInv'
  BY <1>5, BuiltStays DEF TableOpen
<1>6. ASSUME NEW handle \in DOMAIN blocks, BlockReader(handle) \/ FileChanges(handle) PROVE TableInv'
  BY <1>0, <1>6, BuiltStays DEF BlockReader, FileChanges
<1>7. ASSUME UNCHANGED tableVars PROVE TableInv'
  BY <1>0, <1>7, BuiltStays DEF tableVars
<1> QED
  BY <1>1, <1>2, <1>3, <1>4, <1>5, <1>6, <1>7 DEF TableNext

\* A table that Finish returned OK for (table_builder.cc:213-268) answers
\* InternalGet (table.cc:211-242) with the newest entry that the sequence
\* number sees, or with an error, however its entries were cut into blocks,
\* whatever separators the comparator chose and with any filter policy.
THEOREM TableFindsWhatWasAdded == TableSpec => []TableFinds
<1>1. TableInv => TableFinds
  <2> SUFFICES ASSUME TableInv, table.open, NEW key \in TableKeys, NEW seq \in 1 .. kMaxSequenceNumber
               PROVE  InternalGet(key, seq).ok => InternalGet(key, seq).found = NewestAt(key, seq)
    BY DEF TableFinds
  <2>1. given \in Seq(Entries) /\ Increasing(given) /\ rep \in Reps /\ Built(given, rep, filters, blocks)
    BY DEF TableInv
  <2> QED
    BY <2>1, BuiltFinds
<1> QED
  BY <1>1, TableInvInit, TableInvNext, PTL DEF TableSpec

=============================================================================
