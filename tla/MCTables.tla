------------------------------- MODULE MCTables -------------------------------
(* What readers see, part by part: the tree of tables as the store of db.h,   *)
(* the tables themselves, their blocks, and iterators over all of them. A     *)
(* behaviour is one of one part; the others stay as they are, empty.          *)
EXTENDS MCLSMTree, Block, Table, DBIterator

VARIABLE part

tablesVars == <<part, vars, blockVars, tableVars, iterVars>>

\* Nothing for an iterator to see.
NoData == data = [i \in IterChildren |-> {}] /\ lost = {} /\ corrupt = {} /\ sequence = 0

TablesInit ==
    /\ part \in {"tree", "block", "table", "iterator"}
    /\ Init /\ TableInit
    /\ IF part = "block" THEN BlockInit ELSE contents = <<>> /\ NewBlock
    /\ IF part = "iterator" THEN IterInit ELSE NoData /\ NewIterator

TablesNext ==
    /\ UNCHANGED part
    /\ \/ part = "tree" /\ Next /\ UNCHANGED <<blockVars, tableVars, iterVars>>
       \/ part = "block" /\ BlockNextStep /\ UNCHANGED <<vars, tableVars, iterVars>>
       \/ part = "table" /\ TableNext /\ UNCHANGED <<vars, blockVars, iterVars>>
       \/ part = "iterator" /\ IterNext /\ UNCHANGED <<vars, blockVars, tableVars>>

TablesSpec == TablesInit /\ [][TablesNext]_tablesVars

\* Keys that share prefixes, in their order.
BlockKeys == << <<1>>, <<1, 1>>, <<1, 1, 1>>, <<1, 1, 2>>, <<1, 2>>, <<2>> >>

\* The probes of keys 1 and 3 wrap around in a filter of 64 bits.
TableProbes == [k \in TableKeys |-> {k * 7, k * 7 + 65}]
=============================================================================
