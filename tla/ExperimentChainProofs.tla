------------------------- MODULE ExperimentChainProofs -----------------------
(***************************************************************************)
(* For any number of processes: the chain is numbered without gaps, every  *)
(* commitment has its record, nothing written ever changes and nobody uses *)
(* a ledger with records that are not chained.  For one process: the chain *)
(* is linked, too, and never refused.  For the comparison of strategies:   *)
(* what it judges is kept, out of sample, and on equal terms.              *)
(***************************************************************************)
EXTENDS StrategyComparison, InductionLemmas

(* The greatest sequence number of a table numbered from 1. *)
LEMMA TopOf ==
  ASSUME NEW c, NEW k \in Nat, DOMAIN c = 1..k
  PROVE  Top(c) = k
<1>1. \A m \in DOMAIN c : m <= k
  OBVIOUS
<1>2. k \in DOMAIN c \union {0}
  OBVIOUS
<1>3. \A n \in DOMAIN c \union {0} : (\A m \in DOMAIN c : m <= n) => n = k
  OBVIOUS
<1> QED
  BY <1>1, <1>2, <1>3 DEF Top

(* Adding the next number to a numbered table. *)
LEMMA ExtendNumbered ==
  ASSUME NEW c, NEW k \in Nat, DOMAIN c = 1..k, NEW n \in 1..(k + 1), n \notin DOMAIN c, NEW e
  PROVE  /\ n = k + 1
         /\ DOMAIN Extended(c, n, e) = 1..(k + 1)
         /\ Top(Extended(c, n, e)) = k + 1
         /\ Extended(c, n, e)[n] = e
         /\ \A m \in DOMAIN c : Extended(c, n, e)[m] = c[m]
<1>1. n = k + 1
  OBVIOUS
<1>2. DOMAIN Extended(c, n, e) = 1..(k + 1)
  BY <1>1 DEF Extended
<1>3. Top(Extended(c, n, e)) = k + 1
  BY <1>2, TopOf
<1> QED
  BY <1>1, <1>2, <1>3 DEF Extended

(* Both tables of the file a ledger is opened on for the first time.       *)
LEMMA InitEstablishes == Init => IInv
<1> SUFFICES ASSUME Init PROVE IInv
  OBVIOUS
<1>1. DOMAIN NoChain = 1..0
  BY DEF NoChain
<1>2. Numbered(NoChain)
  BY <1>1, TopOf DEF Numbered
<1>3. TypeOK
  <2>1. DOMAIN NoLink = {"sequence", "previous"}
    BY DEF NoLink
  <2>2. DOMAIN link = Procs /\ \A p \in Procs : DOMAIN link[p] = {"sequence", "previous"}
    BY <2>1 DEF Init
  <2> QED
    BY <2>2 DEF Init, TypeOK, Locations, Outcomes, Calls
<1>4. Staging
  BY NoProcAssumption, <1>1 DEF Init, Staging, Kept
<1>5. SequenceOK /\ PendingOK
  BY DEF Init, SequenceOK, PendingOK, Calls
<1>6. Paired /\ Pairs(staged.records, staged.chain)
  BY <1>1 DEF Init, Paired, Pairs
<1> QED
  BY <1>2, <1>3, <1>4, <1>5, <1>6 DEF Init, IInv

(* A step that leaves the tables alone has little to preserve. *)
LEMMA TablesAlone ==
  ASSUME IInv, UNCHANGED tables, NEW p \in Procs,
         pc' = [pc EXCEPT ![p] = pc'[p]], pc'[p] \in Locations \ {"commit"},
         pc[p] # "insert", pc[p] # "commit",
         TypeOK', SequenceOK', PendingOK'
  PROVE  IInv'
<1>1. \A q \in Procs : q # p => pc'[q] = pc[q]
  BY DEF IInv, TypeOK
<1>2. writer # p
  BY DEF IInv, Staging
<1>3. Staging'
  BY <1>1, <1>2 DEF IInv, Staging, tables, Kept, Stored
<1>4. Paired' /\ Pairs(staged.records, staged.chain)'
  BY DEF IInv, Paired, Pairs, tables
<1>5. Numbered(chain)' /\ Numbered(staged.chain)'
  BY DEF IInv, Numbered, Top, tables
<1> QED
  BY <1>3, <1>4, <1>5 DEF IInv

(* What is committed is part of what the transaction sees. *)
LEMMA StagedIsLonger ==
  ASSUME IInv
  PROVE  Top(chain) <= Top(staged.chain)
<1>1. \A n \in 1..Top(chain) : n \in 1..Top(staged.chain)
  BY DEF IInv, Staging, Kept, Numbered
<1> QED
  BY <1>1 DEF IInv, Numbered

(* The INSERTs of one row add the next number and one more pair. *)
LEMMA InsertPreserves ==
  ASSUME IInv, NEW p \in Procs, Insert(p)
  PROVE  IInv'
<1>1. PICK row \in pending[p] :
        LET n     == link[p].sequence
            entry == [id |-> row.id, body |-> row.body, previous |-> link[p].previous]
            added == Extended(staged.chain, n, entry)
        IN  /\ ~Violates(p, row)
            /\ staged' = [records |-> [staged.records EXCEPT ![row.id] = row.body],
                          chain   |-> added]
            /\ link' = [link EXCEPT ![p] = [sequence |-> Top(added) + 1,
                                            previous |-> Digest(n, entry)]]
            /\ pending' = [pending EXCEPT ![p] = @ \ {row}]
            /\ IF pending[p] = {row} THEN Goto(p, "commit") ELSE UNCHANGED pc
  BY DEF Insert
<1> DEFINE n == link[p].sequence
           entry == [id |-> row.id, body |-> row.body, previous |-> link[p].previous]
           k == Top(staged.chain)
           added == Extended(staged.chain, n, entry)
<1>2. /\ pc[p] = "insert" /\ writer \in {NoProc, p} /\ writer' = p
      /\ UNCHANGED <<records, chain, call, view, outcome>>
      /\ staged' = [records |-> staged'.records, chain |-> staged'.chain]
      /\ staged'.chain = added
      /\ staged'.records = [staged.records EXCEPT ![row.id] = row.body]
  BY <1>1 DEF Insert
<1>3. row \in Rows /\ row.id \in Ids /\ row.body \in Bodies
  BY DEF IInv, TypeOK, Rows
<1>4. k \in Nat /\ DOMAIN staged.chain = 1..k
  BY DEF IInv, Numbered
<1>5. n \in 1..(k + 1) /\ n \notin DOMAIN staged.chain
  BY <1>1, <1>2 DEF IInv, SequenceOK, Staging, Violates
<1>6. /\ n = k + 1
      /\ DOMAIN added = 1..(k + 1)
      /\ Top(added) = k + 1
      /\ added[n] = entry
      /\ \A m \in DOMAIN staged.chain : added[m] = staged.chain[m]
  BY <1>4, <1>5, ExtendNumbered
<1>7. call[p].job = "append" => staged.records[row.id] = NoRow
  BY <1>1 DEF Violates
<1>8. staged.records[row.id] # NoRow => staged.records[row.id] = row.body
  <2>1. CASE call[p].job = "append"
    BY <1>7, <2>1
  <2>2. CASE call[p].job # "append"
    <3>1. records[row.id] = row.body
      BY <2>2 DEF IInv, PendingOK
    <3> QED
      BY <1>3, <3>1, NoRowAssumption DEF IInv, Staging, Kept, Stored
  <2> QED
    BY <2>1, <2>2
<1>9. \A i \in Ids : staged.records[i] # NoRow => staged'.records[i] = staged.records[i]
  BY <1>2, <1>3, <1>8 DEF IInv, Staging
<1>10. staged'.records \in [Ids -> Bodies \union {NoRow}] /\ staged'.records[row.id] = row.body
  BY <1>2, <1>3 DEF IInv, Staging
<1>11. pc' \in [Procs -> Locations] /\ pending' \in [Procs -> SUBSET Rows]
  BY <1>1 DEF IInv, TypeOK, Goto, Locations
<1>12. TypeOK'
  <2>1. link' = [link EXCEPT ![p] = [sequence |-> Top(added) + 1, previous |-> Digest(n, entry)]]
    BY <1>1
  <2>2. DOMAIN link' = Procs /\ \A q \in Procs : DOMAIN link'[q] = {"sequence", "previous"}
    BY <2>1 DEF IInv, TypeOK
  <2> QED
    BY <1>2, <1>11, <2>2 DEF IInv, TypeOK
<1>13. Kept(records, chain, staged.records, staged.chain)'
  <2>1. \A i \in Stored(records) : staged'.records[i] = records[i]
    BY <1>9 DEF IInv, Staging, Kept, Stored
  <2>2. \A m \in DOMAIN chain : m \in DOMAIN added /\ added[m] = chain[m]
    BY <1>4, <1>6 DEF IInv, Staging, Kept
  <2> QED
    BY <1>2, <2>1, <2>2 DEF Kept, Stored
<1>14. Staging'
  <2>1. \A q \in Procs : writer' = q => pc'[q] \in {"insert", "commit"}
    BY <1>1, <1>2 DEF IInv, TypeOK, Goto
  <2>2. \A q \in Procs : pc'[q] = "commit" => writer' = q
    BY <1>1, <1>2, NoProcAssumption DEF IInv, TypeOK, Goto, Staging
  <2> QED
    BY <1>2, <1>10, <1>13, <2>1, <2>2, NoProcAssumption DEF Staging
<1>15. SequenceOK'
  <2> SUFFICES ASSUME NEW q \in Procs, pc'[q] = "insert"
               PROVE  link'[q].sequence \in
                        1..(Top(IF writer' = q THEN staged'.chain ELSE chain') + 1)
    BY DEF SequenceOK
  <2>1. CASE q = p
    <3>1. link'[p] = [sequence |-> Top(added) + 1, previous |-> Digest(n, entry)]
      BY <1>1 DEF IInv, TypeOK
    <3>2. link'[p].sequence = k + 2
      BY <3>1, <1>4, <1>6
    <3> QED
      BY <1>2, <1>4, <1>6, <2>1, <3>2
  <2>2. CASE q # p
    BY <1>1, <1>2, <2>2, NoProcAssumption DEF IInv, SequenceOK, TypeOK, Goto
  <2> QED
    BY <2>1, <2>2
<1>16. PendingOK'
  <2>1. pending' = [pending EXCEPT ![p] = @ \ {row}]
    BY <1>1
  <2>2. /\ pending'[p] = pending[p] \ {row}
        /\ \A q \in Procs : q # p => pending'[q] = pending[q] /\ pc'[q] = pc[q]
    BY <1>1, <2>1 DEF IInv, TypeOK, Goto
  <2>3. pc'[p] = "insert" \/ (pc'[p] = "commit" /\ pending[p] = {row})
    <3>1. pc \in [Procs -> Locations] /\ pc[p] = "insert"
      BY <1>2 DEF IInv, TypeOK
    <3>2. CASE pending[p] = {row}
      BY <1>1, <3>1, <3>2 DEF Goto
    <3>3. CASE UNCHANGED pc
      BY <3>1, <3>3
    <3> QED
      BY <1>1, <3>2, <3>3
  <2>4. pc'[p] = "insert" \/ (pc'[p] = "commit" /\ pending'[p] = {})
    BY <2>2, <2>3
  <2>5. \A q \in Procs : pending'[q] \subseteq pending[q]
    BY <2>2
  <2> SUFFICES ASSUME NEW q \in Procs PROVE
        /\ pc'[q] = "rows" => call[q].job = "open"
        /\ pc'[q] \in {"chain", "count", "lookup"} => call[q].job # "open"
        /\ pc'[q] \notin {"previous", "sequence", "insert"} => pending'[q] = {}
        /\ \A r \in pending'[q] :
             IF call[q].job = "append" THEN r = [id |-> call[q].id, body |-> call[q].body]
             ELSE call[q].job = "open" /\ records[r.id] = r.body
    BY <1>2 DEF PendingOK
  <2>6. \A r \in pending'[q] :
           IF call[q].job = "append" THEN r = [id |-> call[q].id, body |-> call[q].body]
           ELSE call[q].job = "open" /\ records[r.id] = r.body
    BY <2>5 DEF IInv, PendingOK
  <2>7. CASE q = p
    BY <2>4, <2>6, <2>7
  <2>8. CASE q # p
    BY <2>2, <2>6, <2>8 DEF IInv, PendingOK
  <2> QED
    BY <2>7, <2>8
<1>17. Numbered(chain)' /\ Numbered(staged.chain)'
  <2>1. Numbered(chain)'
    BY <1>2 DEF IInv, Numbered, Top
  <2>2. Numbered(added)
    BY <1>4, <1>6 DEF Numbered
  <2> QED
    BY <1>2, <2>1, <2>2
<1>18. Paired'
  BY <1>2 DEF IInv, Paired, Pairs
<1>19. Pairs(staged.records, staged.chain)'
  <2>1. \A m \in DOMAIN staged.chain : staged.chain[m].id # row.id
    BY <1>1 DEF Violates
  <2>2. \A m \in DOMAIN staged.chain :
          /\ staged.chain[m].id \in Ids /\ staged.records[staged.chain[m].id] # NoRow
          /\ staged.records[staged.chain[m].id] = staged.chain[m].body
    BY DEF IInv, Pairs, Stored
  <2>3. DOMAIN added = DOMAIN staged.chain \union {n}
    BY DEF Extended
  <2>4. \A m \in DOMAIN staged.chain :
          staged'.records[added[m].id] = added[m].body /\ staged'.records[added[m].id] # NoRow
    BY <1>6, <1>9, <2>2
  <2>5. entry.id = row.id /\ entry.body = row.body
    OBVIOUS
  <2>6. staged'.records[added[n].id] = added[n].body /\ added[n].body # NoRow
    BY <1>3, <1>6, <1>10, <2>5, NoRowAssumption
  <2>7. \A m \in DOMAIN added : added[m].id \in Ids
    BY <1>3, <1>6, <2>2, <2>3, <2>5
  <2>8. \A m \in DOMAIN added : added[m].id \in Stored(staged'.records)
                                /\ staged'.records[added[m].id] = added[m].body
    BY <2>3, <2>4, <2>6, <2>7 DEF Stored
  <2>9. \A l, m \in DOMAIN staged.chain : added[l].id = added[m].id => l = m
    BY <1>6 DEF IInv, Pairs
  <2>10. \A l, m \in DOMAIN added : added[l].id = added[m].id => l = m
    BY <1>6, <2>1, <2>3, <2>5, <2>9
  <2> QED
    BY <1>2, <2>8, <2>10 DEF Pairs
<1> QED
  BY <1>12, <1>14, <1>15, <1>16, <1>17, <1>18, <1>19 DEF IInv

(* The commit makes what the transaction saw the committed tables. *)
LEMMA CommitPreserves ==
  ASSUME IInv, NEW p \in Procs, Commit(p)
  PROVE  IInv'
<1>1. /\ pc[p] = "commit" /\ writer = p
      /\ records' = staged.records /\ chain' = staged.chain /\ writer' = NoProc
      /\ pc' = [pc EXCEPT ![p] = "return"]
      /\ outcome' = [outcome EXCEPT ![p] = IF call[p].job = "open" THEN "opened" ELSE "stored"]
      /\ UNCHANGED <<staged, call, view, pending, link>>
  BY DEF Commit, EndWith, Goto, IInv, Staging
<1>2. TypeOK'
  <2>1. pc' \in [Procs -> Locations] /\ outcome' \in [Procs -> Outcomes]
    BY <1>1 DEF IInv, TypeOK, Locations, Outcomes
  <2>2. records' \in [Ids -> Bodies \union {NoRow}]
    BY <1>1 DEF IInv, Staging
  <2> QED
    BY <1>1, <2>1, <2>2 DEF IInv, TypeOK
<1>3. staged = [records |-> staged.records, chain |-> staged.chain]
  BY DEF IInv, Staging
<1>4. Staging'
  <2>1. \A q \in Procs : pc'[q] # "commit"
    BY <1>1 DEF IInv, TypeOK, Staging
  <2>2. Kept(records, chain, staged.records, staged.chain)'
    BY <1>1 DEF Kept
  <2> QED
    BY <1>1, <1>3, <2>1, <2>2, NoProcAssumption DEF IInv, Staging
<1>5. SequenceOK'
  <2> SUFFICES ASSUME NEW q \in Procs, pc'[q] = "insert"
               PROVE  link'[q].sequence \in
                        1..(Top(IF writer' = q THEN staged'.chain ELSE chain') + 1)
    BY DEF SequenceOK
  <2>1. q # p /\ pc[q] = "insert"
    BY <1>1 DEF IInv, TypeOK
  <2>2. link[q].sequence \in 1..(Top(chain) + 1)
    BY <1>1, <2>1 DEF IInv, SequenceOK
  <2>3. Top(chain) \in Nat /\ Top(staged.chain) \in Nat /\ Top(chain) <= Top(staged.chain)
    BY StagedIsLonger DEF IInv, Numbered
  <2>4. link[q].sequence \in 1..(Top(staged.chain) + 1)
    BY <2>2, <2>3
  <2> QED
    BY <1>1, <2>4, NoProcAssumption
<1>6. PendingOK'
  <2>1. \A i \in Ids : records[i] # NoRow => records'[i] = records[i]
    BY <1>1 DEF IInv, Staging, Kept, Stored
  <2>2. \A q \in Procs : \A row \in pending[q] :
          /\ row.id \in Ids /\ row.body # NoRow
          /\ IF call[q].job = "append" THEN row = [id |-> call[q].id, body |-> call[q].body]
             ELSE call[q].job = "open" /\ records'[row.id] = row.body
    BY <2>1, NoRowAssumption DEF IInv, PendingOK, TypeOK, Rows
  <2>3. \A q \in Procs : q # p => pc'[q] = pc[q]
    BY <1>1 DEF IInv, TypeOK
  <2>4. pc'[p] = "return" /\ pending'[p] = {}
    BY <1>1 DEF IInv, TypeOK, PendingOK
  <2> QED
    BY <1>1, <2>2, <2>3, <2>4 DEF IInv, PendingOK
<1>7. Numbered(chain)' /\ Numbered(staged.chain)'
  BY <1>1 DEF IInv, Numbered, Top
<1>8. Paired' /\ Pairs(staged.records, staged.chain)'
  BY <1>1 DEF IInv, Paired, Pairs
<1> QED
  BY <1>2, <1>4, <1>5, <1>6, <1>7, <1>8 DEF IInv

(* Undoing the transaction of a process that leaves. *)
LEMMA RollbackPreserves ==
  ASSUME IInv, NEW p \in Procs, Rollback(p), UNCHANGED <<records, chain, call>>,
         NEW where, where \in {"return", "closed"}, pc' = [pc EXCEPT ![p] = where],
         pending' = [pending EXCEPT ![p] = {}],
         link' = link \/ link' = [link EXCEPT ![p] = NoLink],
         outcome' \in [Procs -> Outcomes]
  PROVE  IInv'
<1>1. /\ \A q \in Procs : q # p => pc'[q] = pc[q] /\ link'[q] = link[q]
                                    /\ pending'[q] = pending[q]
      /\ pc'[p] = where /\ pending'[p] = {}
      /\ pc' \in [Procs -> Locations] /\ pending' \in [Procs -> SUBSET Rows]
  BY DEF IInv, TypeOK, Locations
<1>2. CASE writer = p
  <2>1. writer' = NoProc /\ staged' = [records |-> records, chain |-> chain]
    BY <1>2 DEF Rollback
  <2>2. TypeOK'
    <3>1. DOMAIN link' = Procs /\ \A q \in Procs : DOMAIN link'[q] = {"sequence", "previous"}
      BY DEF IInv, TypeOK, NoLink
    <3> QED
      BY <1>1, <2>1, <3>1 DEF IInv, TypeOK
  <2>3. staged'.records = records /\ staged'.chain = chain
    BY <2>1
  <2>4. Staging'
    <3>1. \A q \in Procs : pc'[q] # "commit"
      BY <1>1, <1>2 DEF IInv, Staging
    <3> QED
      BY <2>1, <2>3, <3>1, NoProcAssumption DEF IInv, Staging, Kept, TypeOK
  <2>5. SequenceOK'
    BY <1>1, <1>2, <2>1, NoProcAssumption DEF IInv, SequenceOK
  <2>6. PendingOK'
    BY <1>1 DEF IInv, PendingOK
  <2>7. Numbered(chain)' /\ Numbered(staged.chain)'
    BY <2>3 DEF IInv, Numbered, Top
  <2>8. Paired' /\ Pairs(staged.records, staged.chain)'
    BY <2>3 DEF IInv, Paired, Pairs
  <2> QED
    BY <2>2, <2>4, <2>5, <2>6, <2>7, <2>8 DEF IInv
<1>3. CASE writer # p
  <2>1. UNCHANGED <<writer, staged>>
    BY <1>3 DEF Rollback
  <2>2. TypeOK'
    <3>1. DOMAIN link' = Procs /\ \A q \in Procs : DOMAIN link'[q] = {"sequence", "previous"}
      BY DEF IInv, TypeOK, NoLink
    <3> QED
      BY <1>1, <2>1, <3>1 DEF IInv, TypeOK
  <2>3. Staging'
    BY <1>1, <1>3, <2>1 DEF IInv, Staging, Kept, Stored
  <2>4. SequenceOK'
    BY <1>1, <2>1 DEF IInv, SequenceOK
  <2>5. PendingOK'
    BY <1>1 DEF IInv, PendingOK
  <2>6. Numbered(chain)' /\ Numbered(staged.chain)'
    BY <2>1 DEF IInv, Numbered, Top
  <2>7. Paired' /\ Pairs(staged.records, staged.chain)'
    BY <2>1 DEF IInv, Paired, Pairs
  <2> QED
    BY <2>2, <2>3, <2>4, <2>5, <2>6, <2>7 DEF IInv
<1> QED
  BY <1>2, <1>3

(* The actions that only read. *)
LEMMA ReadingPreserves ==
  ASSUME IInv, NEW p \in Procs,
         \/ Open(p) \/ ReadRows(p) \/ Call(p) \/ ReadChain(p) \/ CountRecords(p)
         \/ LookupHits(p) \/ LookupMisses(p) \/ ReadPrevious(p) \/ ReadSequence(p) \/ Return(p)
  PROVE  IInv'
<1> USE DEF Goto, EndWith
<1>1. CASE Open(p)
  <2>1. TypeOK'
    <3>1. call' \in [Procs -> Calls]
      BY <1>1 DEF Open, IInv, TypeOK, Calls
    <3> QED
      BY <1>1, <3>1 DEF Open, IInv, TypeOK, Locations, Outcomes, tables
  <2>2. SequenceOK'
    BY <1>1 DEF Open, IInv, TypeOK, SequenceOK, tables
  <2>3. PendingOK'
    BY <1>1 DEF Open, IInv, TypeOK, PendingOK, tables, Calls
  <2> QED
    BY <1>1, <2>1, <2>2, <2>3, TablesAlone DEF Open, IInv, TypeOK, Locations
<1>2. CASE ReadRows(p)
  <2>1. TypeOK'
    BY <1>2 DEF ReadRows, IInv, TypeOK, Locations, Outcomes, tables
  <2>2. SequenceOK'
    BY <1>2 DEF ReadRows, IInv, TypeOK, SequenceOK, tables
  <2>3. PendingOK'
    BY <1>2 DEF ReadRows, IInv, TypeOK, PendingOK, tables
  <2> QED
    BY <1>2, <2>1, <2>2, <2>3, TablesAlone DEF ReadRows, IInv, TypeOK, Locations
<1>3. CASE Call(p)
  <2>1. TypeOK'
    BY <1>3 DEF Call, IInv, TypeOK, Locations, Outcomes, tables
  <2>2. SequenceOK'
    BY <1>3 DEF Call, IInv, TypeOK, SequenceOK, tables
  <2>3. PendingOK'
    BY <1>3 DEF Call, IInv, TypeOK, PendingOK, tables
  <2> QED
    BY <1>3, <2>1, <2>2, <2>3, TablesAlone DEF Call, IInv, TypeOK, Locations
<1>4. CASE ReadChain(p)
  <2>1. TypeOK'
    BY <1>4 DEF ReadChain, IInv, TypeOK, Locations, Outcomes, tables
  <2>2. SequenceOK'
    BY <1>4 DEF ReadChain, IInv, TypeOK, SequenceOK, tables
  <2>3. PendingOK'
    BY <1>4 DEF ReadChain, IInv, TypeOK, PendingOK, tables
  <2> QED
    BY <1>4, <2>1, <2>2, <2>3, TablesAlone DEF ReadChain, IInv, TypeOK, Locations
<1>5. CASE CountRecords(p)
  <2>1. TypeOK'
    BY <1>5 DEF CountRecords, IInv, TypeOK, Locations, Outcomes, tables
  <2>2. SequenceOK'
    BY <1>5 DEF CountRecords, IInv, TypeOK, SequenceOK, tables
  <2>3. PendingOK'
    BY <1>5 DEF CountRecords, IInv, TypeOK, PendingOK, tables
  <2> QED
    BY <1>5, <2>1, <2>2, <2>3, TablesAlone DEF CountRecords, IInv, TypeOK, Locations
<1>6. CASE LookupHits(p)
  <2>1. TypeOK'
    BY <1>6 DEF LookupHits, IInv, TypeOK, Locations, Outcomes, tables
  <2>2. SequenceOK'
    BY <1>6 DEF LookupHits, IInv, TypeOK, SequenceOK, tables
  <2>3. PendingOK'
    BY <1>6 DEF LookupHits, IInv, TypeOK, PendingOK, tables
  <2> QED
    BY <1>6, <2>1, <2>2, <2>3, TablesAlone DEF LookupHits, IInv, TypeOK, Locations
<1>7. CASE LookupMisses(p)
  <2>1. TypeOK'
    <3>1. [id |-> call[p].id, body |-> call[p].body] \in Rows
      BY DEF IInv, TypeOK, Calls, Rows
    <3>2. pending' \in [Procs -> SUBSET Rows]
      BY <1>7, <3>1 DEF LookupMisses, IInv, TypeOK
    <3> QED
      BY <1>7, <3>2 DEF LookupMisses, IInv, TypeOK, Locations, Outcomes, tables
  <2>2. SequenceOK'
    BY <1>7 DEF LookupMisses, IInv, TypeOK, SequenceOK, tables
  <2>3. PendingOK'
    BY <1>7 DEF LookupMisses, IInv, TypeOK, PendingOK, tables, Calls
  <2> QED
    BY <1>7, <2>1, <2>2, <2>3, TablesAlone DEF LookupMisses, IInv, TypeOK, Locations
<1>8. CASE ReadPrevious(p)
  <2>1. TypeOK'
    BY <1>8 DEF ReadPrevious, IInv, TypeOK, Locations, Outcomes, tables
  <2>2. SequenceOK'
    BY <1>8 DEF ReadPrevious, IInv, TypeOK, SequenceOK, tables
  <2>3. PendingOK'
    BY <1>8 DEF ReadPrevious, IInv, TypeOK, PendingOK, tables
  <2> QED
    BY <1>8, <2>1, <2>2, <2>3, TablesAlone DEF ReadPrevious, IInv, TypeOK, Locations
<1>9. CASE ReadSequence(p)
  <2>1. TypeOK'
    BY <1>9 DEF ReadSequence, IInv, TypeOK, Locations, Outcomes, tables
  <2>2. SequenceOK'
    <3>1. Top(chain) \in Nat /\ writer # p
      BY <1>9 DEF ReadSequence, IInv, Numbered, Staging
    <3>2. link'[p].sequence = Top(chain) + 1
      BY <1>9 DEF ReadSequence, IInv, TypeOK
    <3> QED
      BY <1>9, <3>1, <3>2 DEF ReadSequence, IInv, TypeOK, SequenceOK, tables
  <2>3. PendingOK'
    BY <1>9 DEF ReadSequence, IInv, TypeOK, PendingOK, tables
  <2> QED
    BY <1>9, <2>1, <2>2, <2>3, TablesAlone DEF ReadSequence, IInv, TypeOK, Locations
<1>10. CASE Return(p)
  <2>1. TypeOK'
    BY <1>10 DEF Return, IInv, TypeOK, Locations, Outcomes, tables, NoLink
  <2>2. SequenceOK'
    BY <1>10 DEF Return, IInv, TypeOK, SequenceOK, tables
  <2>3. PendingOK'
    BY <1>10 DEF Return, IInv, TypeOK, PendingOK, tables
  <2> QED
    BY <1>10, <2>1, <2>2, <2>3, TablesAlone DEF Return, IInv, TypeOK, Locations
<1> QED
  BY <1>1, <1>2, <1>3, <1>4, <1>5, <1>6, <1>7, <1>8, <1>9, <1>10

LEMMA StepPreserves == IInv /\ [Next]_vars => IInv'
<1> SUFFICES ASSUME IInv, [Next]_vars PROVE IInv'
  OBVIOUS
<1>1. CASE Next
  <2> PICK p \in Procs : Open(p) \/ Call(p) \/ Step(p) \/ Crash(p)
    BY <1>1 DEF Next
  <2>1. CASE Insert(p)
    BY <2>1, InsertPreserves
  <2>2. CASE Commit(p)
    BY <2>2, CommitPreserves
  <2>3. CASE InsertRejected(p) \/ Busy(p)
    <3>1. outcome' \in [Procs -> Outcomes]
      BY <2>3 DEF InsertRejected, Busy, EndWith, IInv, TypeOK, Outcomes
    <3> QED
      BY <2>3, <3>1, RollbackPreserves DEF InsertRejected, Busy, EndWith, Goto
  <2>4. CASE Crash(p)
    <3>1. outcome' \in [Procs -> Outcomes]
      BY <2>4 DEF Crash, IInv, TypeOK, Outcomes
    <3> QED
      BY <2>4, <3>1, RollbackPreserves DEF Crash, Goto
  <2>5. CASE \/ Open(p) \/ ReadRows(p) \/ Call(p) \/ ReadChain(p) \/ CountRecords(p)
             \/ LookupHits(p) \/ LookupMisses(p) \/ ReadPrevious(p) \/ ReadSequence(p) \/ Return(p)
    BY <2>5, ReadingPreserves
  <2> QED
    BY <2>1, <2>2, <2>3, <2>4, <2>5 DEF Step
<1>2. CASE UNCHANGED vars
  <2>1. TypeOK' /\ PendingOK'
    BY <1>2 DEF vars, IInv, TypeOK, PendingOK
  <2>2. Staging'
    BY <1>2 DEF vars, IInv, Staging, Kept, Stored
  <2>3. SequenceOK' /\ Numbered(chain)' /\ Numbered(staged.chain)'
    BY <1>2 DEF vars, IInv, SequenceOK, Numbered, Top
  <2>4. Paired' /\ Pairs(staged.records, staged.chain)'
    BY <1>2 DEF vars, IInv, Paired, Pairs, Stored
  <2> QED
    BY <2>1, <2>2, <2>3, <2>4 DEF IInv
<1> QED
  BY <1>1, <1>2

(* Whatever any number of processes do to one ledger file, and whichever of *)
(* them die in the middle, both tables stay as the inductive invariant says. *)
THEOREM Invariance == Spec => []IInv
<1> QED
  BY InitEstablishes, StepPreserves, PTL DEF Spec

(* The commitments are numbered without a gap. *)
THEOREM ChainIsContiguous == Spec => []Contiguous
<1>1. IInv => Contiguous
  BY DEF IInv, Contiguous
<1> QED
  BY <1>1, Invariance, PTL

(* A commitment has its record and a record at most one commitment. *)
THEOREM ChainIsPaired == Spec => []Paired
<1>1. IInv => Paired
  BY DEF IInv
<1> QED
  BY <1>1, Invariance, PTL

LEMMA StepKeeps == IInv /\ [Next]_vars => Kept(records, chain, records', chain')
<1> SUFFICES ASSUME IInv, [Next]_vars PROVE Kept(records, chain, records', chain')
  OBVIOUS
<1>1. CASE \E p \in Procs : Commit(p)
  BY <1>1 DEF Commit, IInv, Staging
<1>2. CASE UNCHANGED <<records, chain>>
  BY <1>2 DEF Kept, Stored
<1>3. (\E p \in Procs : Commit(p)) \/ UNCHANGED <<records, chain>>
  BY DEF Next, Step, vars, tables, Open, Call, ReadRows, ReadChain, CountRecords, LookupHits,
         LookupMisses, ReadPrevious, ReadSequence, Insert, InsertRejected, Busy, Return, Crash
<1> QED
  BY <1>1, <1>2, <1>3

(* "append-only": no step changes or removes a committed row. *)
THEOREM ChainIsAppendOnly == Spec => AppendOnly
<1>1. IInv /\ [Next]_vars => [Kept(records, chain, records', chain')]_vars
  BY StepKeeps
<1> QED
  BY <1>1, Invariance, PTL DEF Spec, AppendOnly

-----------------------------------------------------------------------------
(* One process alone never commits on top of anything but the tail. *)

(* A table that is linked stays so when the next entry names its tail. *)
LEMMA ExtendLinked ==
  ASSUME NEW c, NEW k \in Nat, DOMAIN c = 1..k, Linked(c), NEW e, e.previous = TailHash(c)
  PROVE  /\ Linked(Extended(c, k + 1, e))
         /\ TailHash(Extended(c, k + 1, e)) = Digest(k + 1, e)
<1> DEFINE d == Extended(c, k + 1, e)
<1>1. k + 1 \in 1..(k + 1) /\ k + 1 \notin DOMAIN c
  OBVIOUS
<1>2. DOMAIN d = 1..(k + 1) /\ Top(d) = k + 1 /\ d[k + 1] = e /\ \A m \in DOMAIN c : d[m] = c[m]
  BY <1>1, ExtendNumbered
<1>3. Top(c) = k
  BY TopOf
<1>4. TailHash(d) = Digest(k + 1, e)
  BY <1>2 DEF TailHash
<1>5. ASSUME NEW n \in DOMAIN d
      PROVE  d[n].previous = IF n = 1 THEN Genesis ELSE Digest(n - 1, d[n - 1])
  <2>1. CASE n \in DOMAIN c
    BY <1>2, <2>1 DEF Linked
  <2>2. CASE n = k + 1
    BY <1>2, <1>3, <2>2 DEF TailHash
  <2> QED
    BY <1>2, <2>1, <2>2
<1> QED
  BY <1>2, <1>4, <1>5 DEF Linked

LEMMA SerialInit == Init => SerialInv
<1> SUFFICES ASSUME Init PROVE SerialInv
  OBVIOUS
<1>1. DOMAIN NoChain = 1..0
  BY DEF NoChain
<1>2. Linked(NoChain)
  BY <1>1, TopOf DEF Linked
<1> QED
  BY <1>2, InitEstablishes DEF Init, SerialInv, LinkOK

LEMMA SerialStep ==
  ASSUME \A p, q \in Procs : p = q
  PROVE  SerialInv /\ [Next]_vars => SerialInv'
<1> SUFFICES ASSUME SerialInv, [Next]_vars PROVE SerialInv'
  OBVIOUS
<1>1. IInv /\ IInv'
  BY StepPreserves DEF SerialInv
<1>2. ASSUME NEW p \in Procs, Insert(p) PROVE SerialInv'
  <2> DEFINE k == Top(staged.chain)
  <2>0. PICK row \in pending[p] :
          LET n     == link[p].sequence
              entry == [id |-> row.id, body |-> row.body, previous |-> link[p].previous]
              added == Extended(staged.chain, n, entry)
          IN  /\ ~Violates(p, row)
              /\ staged' = [records |-> [staged.records EXCEPT ![row.id] = row.body],
                            chain   |-> added]
              /\ link' = [link EXCEPT ![p] = [sequence |-> Top(added) + 1,
                                              previous |-> Digest(n, entry)]]
              /\ pending' = [pending EXCEPT ![p] = @ \ {row}]
              /\ IF pending[p] = {row} THEN Goto(p, "commit") ELSE UNCHANGED pc
    BY <1>2 DEF Insert
  <2> DEFINE e == [id |-> row.id, body |-> row.body, previous |-> link[p].previous]
  <2>1. /\ staged'.chain = Extended(staged.chain, link[p].sequence, e)
        /\ link' = [link EXCEPT ![p] =
             [sequence |-> Top(Extended(staged.chain, link[p].sequence, e)) + 1,
              previous |-> Digest(link[p].sequence, e)]]
    BY <2>0
  <2>2. pc[p] = "insert" /\ UNCHANGED <<records, chain>>
    BY <1>2 DEF Insert
  <2>3. link[p].sequence = k + 1 /\ e.previous = TailHash(staged.chain)
    BY <2>2 DEF SerialInv, LinkOK
  <2>4. k \in Nat /\ DOMAIN staged.chain = 1..k
    BY <1>1 DEF IInv, Numbered
  <2>5. Linked(staged'.chain) /\ TailHash(staged'.chain) = Digest(k + 1, e)
    BY <2>1, <2>3, <2>4, ExtendLinked DEF SerialInv
  <2>6. link'[p] = [sequence |-> Top(staged'.chain) + 1, previous |-> TailHash(staged'.chain)]
    BY <1>1, <2>1, <2>3, <2>5 DEF IInv, TypeOK
  <2>7. pc'[p] # "sequence"
    BY <1>1, <1>2 DEF Insert, Goto, IInv, TypeOK
  <2>8. LinkOK'
    BY <2>6, <2>7 DEF LinkOK
  <2>9. Linked(chain)'
    BY <2>2 DEF SerialInv, Linked, Top, Digest
  <2> QED
    BY <1>1, <2>5, <2>8, <2>9 DEF SerialInv
<1>3. ASSUME NEW p \in Procs, Commit(p) PROVE SerialInv'
  BY <1>1, <1>3 DEF Commit, EndWith, Goto, SerialInv, LinkOK, IInv, TypeOK
<1>4. ASSUME NEW p \in Procs, InsertRejected(p) \/ Busy(p) \/ Crash(p) PROVE SerialInv'
  <2>1. Rollback(p) /\ UNCHANGED <<records, chain>> /\ pc'[p] \in {"return", "closed"}
    BY <1>1, <1>4 DEF InsertRejected, Busy, Crash, EndWith, Goto, IInv, TypeOK
  <2>2. staged'.chain = staged.chain \/ staged'.chain = chain
    BY <2>1 DEF Rollback
  <2>3. Linked(chain)' /\ Linked(staged.chain)'
    BY <2>1, <2>2 DEF SerialInv
  <2>4. LinkOK'
    BY <2>1 DEF LinkOK
  <2> QED
    BY <1>1, <2>3, <2>4 DEF SerialInv
<1>5. ASSUME NEW p \in Procs, ReadPrevious(p) PROVE SerialInv'
  <2>1. link'[p].previous = TailHash(chain) /\ pc'[p] = "sequence" /\ UNCHANGED tables
    BY <1>1, <1>5 DEF ReadPrevious, Goto, IInv, TypeOK
  <2>2. LinkOK'
    BY <2>1 DEF LinkOK, tables
  <2> QED
    BY <1>1, <2>1, <2>2 DEF SerialInv, tables
<1>6. ASSUME NEW p \in Procs, ReadSequence(p) PROVE SerialInv'
  <2>1. /\ link'[p].sequence = Top(chain) + 1 /\ link'[p].previous = link[p].previous
        /\ pc[p] = "sequence" /\ pc'[p] = "insert" /\ UNCHANGED tables
    BY <1>1, <1>6 DEF ReadSequence, Goto, IInv, TypeOK
  <2>2. writer = NoProc
    BY <1>1, <2>1 DEF IInv, Staging, TypeOK
  <2>3. staged.chain = chain
    BY <1>1, <2>2 DEF IInv, Staging
  <2>4. LinkOK'
    BY <2>1, <2>3 DEF SerialInv, LinkOK, tables
  <2> QED
    BY <1>1, <2>1, <2>4 DEF SerialInv, tables
<1>7. ASSUME NEW p \in Procs,
             \/ Open(p) \/ ReadRows(p) \/ Call(p) \/ ReadChain(p) \/ CountRecords(p)
             \/ LookupHits(p) \/ LookupMisses(p) \/ Return(p)
      PROVE  SerialInv'
  <2>1. UNCHANGED tables /\ pc'[p] \notin {"sequence", "insert"}
    BY <1>1, <1>7 DEF Open, ReadRows, Call, ReadChain, CountRecords, LookupHits, LookupMisses,
                      Return, EndWith, Goto, IInv, TypeOK, tables
  <2>2. LinkOK'
    BY <2>1 DEF LinkOK
  <2> QED
    BY <1>1, <2>1, <2>2 DEF SerialInv, tables
<1>8. CASE UNCHANGED vars
  BY <1>1, <1>8 DEF SerialInv, LinkOK, vars
<1> QED
  BY <1>2, <1>3, <1>4, <1>5, <1>6, <1>7, <1>8 DEF Next, Step

(* "a verified, append-only hash chain": a ledger file that only one process *)
(* ever has open at a time stays linked, whatever is rolled back and however *)
(* often that process dies and starts again.                                 *)
THEOREM SerialChainIsIntact ==
  ASSUME \A p, q \in Procs : p = q
  PROVE  Spec => []Intact
<1>1. Init => SerialInv
  BY SerialInit
<1>2. SerialInv /\ [Next]_vars => SerialInv'
  BY SerialStep
<1>3. SerialInv => Intact
  BY DEF SerialInv, Intact
<1> QED
  BY <1>1, <1>2, <1>3, PTL DEF Spec

-----------------------------------------------------------------------------
(***************************************************************************)
(* Nobody works with a ledger that has records without a commitment.       *)
(***************************************************************************)
Unchained == {i \in Stored(records) : ~Committed(i)}
InStaged(i) == \E n \in DOMAIN staged.chain : staged.chain[n].id = i

(* Only a new record is added with its commitment; an old one may wait for *)
(* the migration.  What a migration found bare may have been chained by    *)
(* another since, but nothing else can be bare when it commits.            *)
Migrated(p) ==
  /\ pc[p] = "idle" \/ Using(p) => Unchained = {}
  /\ pc[p] = "return" /\ outcome[p] = "opened" => Unchained = {}
  /\ pc[p] \in {"previous", "sequence", "insert"} /\ call[p].job = "open" =>
       \A i \in Unchained : \/ \E row \in pending[p] : row.id = i
                            \/ writer = p /\ InStaged(i)
  /\ pc[p] = "commit" /\ call[p].job = "open" => \A i \in Unchained : InStaged(i)

(* What an append is about to commit, and what it has committed or found.  *)
Appended(p) ==
  /\ pc[p] = "commit" /\ call[p].job # "open" =>
       staged.records[call[p].id] = call[p].body /\ InStaged(call[p].id)
  /\ pc[p] = "return" /\ outcome[p] = "stored" =>
       records[call[p].id] = call[p].body /\ Committed(call[p].id)

UseInv ==
  /\ IInv
  /\ \A i \in Stored(staged.records) : i \in Stored(records) \/ InStaged(i)
  /\ \A p \in Procs : Migrated(p) /\ Appended(p)

(* With one process, what is to be inserted is new and what a verification *)
(* has read is what there is.                                              *)
FreshOK ==
  /\ DOMAIN view = Procs
  /\ \A p \in Procs :
       /\ pc[p] = "count" => view[p] = chain
       /\ pc[p] \in {"previous", "sequence", "insert"} =>
            \A row \in pending[p] :
              ~InStaged(row.id) /\ (call[p].job = "append" => staged.records[row.id] = NoRow)

OpenInv == UseInv /\ SerialInv /\ FreshOK /\ NeverLocksOut

LEMMA UseInit == Init => UseInv
<1> SUFFICES ASSUME Init PROVE UseInv
  OBVIOUS
<1>1. \A p \in Procs : pc[p] = "closed"
  BY DEF Init
<1>2. staged.records = records
  BY DEF Init
<1> QED
  BY <1>1, <1>2, InitEstablishes DEF UseInv, Migrated, Appended, Using

(* One process moves and writes nothing.                                   *)
LEMMA OthersAgree ==
  ASSUME UseInv, IInv', NEW p \in Procs, UNCHANGED tables,
         \A q \in Procs \ {p} : /\ pc'[q] = pc[q] /\ call'[q] = call[q]
                                /\ pending'[q] = pending[q] /\ outcome'[q] = outcome[q],
         Migrated(p)', Appended(p)'
  PROVE  UseInv'
<1>1. /\ UNCHANGED <<records, chain, staged, writer>>
      /\ Unchained' = Unchained /\ \A i : InStaged(i)' <=> InStaged(i)
  BY DEF tables, Unchained, InStaged, Committed, Stored
<1>2. ASSUME NEW q \in Procs, q # p PROVE Migrated(q)' /\ Appended(q)'
  BY <1>1, <1>2 DEF UseInv, Migrated, Appended, Using, Committed
<1>3. \A i \in Stored(staged'.records) : i \in Stored(records') \/ InStaged(i)'
  BY <1>1 DEF UseInv, Stored
<1> QED
  BY <1>2, <1>3 DEF UseInv

(* A process that uses the ledger finds no bare record.                    *)
LEMMA NoneBare ==
  ASSUME UseInv, NEW p \in Procs, pc[p] = "idle" \/ Using(p)
  PROVE  \A i \in Stored(records) : Committed(i)
BY DEF UseInv, Migrated, Unchained

LEMMA ReadingUses ==
  ASSUME UseInv, IInv', NEW p \in Procs,
         \/ Open(p) \/ ReadRows(p) \/ Call(p) \/ ReadChain(p) \/ CountRecords(p)
         \/ LookupHits(p) \/ LookupMisses(p) \/ ReadPrevious(p) \/ ReadSequence(p) \/ Return(p)
  PROVE  UseInv'
<1> USE DEF Goto, EndWith
<1>0. /\ IInv /\ TypeOK /\ PendingOK /\ Migrated(p) /\ Appended(p)
      /\ pc \in [Procs -> Locations] /\ call \in [Procs -> Calls]
      /\ pending \in [Procs -> SUBSET Rows] /\ outcome \in [Procs -> Outcomes]
  BY DEF UseInv, IInv, TypeOK
<1>1. UNCHANGED tables
  BY DEF Open, ReadRows, Call, ReadChain, CountRecords, LookupHits, LookupMisses, ReadPrevious,
         ReadSequence, Return
<1>2. \A q \in Procs \ {p} : /\ pc'[q] = pc[q] /\ call'[q] = call[q]
                             /\ pending'[q] = pending[q] /\ outcome'[q] = outcome[q]
  BY <1>0 DEF Open, ReadRows, Call, ReadChain, CountRecords, LookupHits, LookupMisses,
              ReadPrevious, ReadSequence, Return
<1>3. /\ UNCHANGED <<records, chain, staged, writer>>
      /\ Unchained' = Unchained /\ \A i : InStaged(i)' <=> InStaged(i)
  BY <1>1 DEF tables, Unchained, InStaged, Committed, Stored
<1> SUFFICES Migrated(p)' /\ Appended(p)'
  BY <1>1, <1>2, OthersAgree
<1>4. CASE Open(p)
  <2>1. pc'[p] = "rows" /\ call'[p].job = "open"
    BY <1>0, <1>4 DEF Open
  <2> QED
    BY <2>1 DEF Migrated, Appended, Using
<1>5. CASE ReadRows(p)
  <2> DEFINE bare == {r \in Rows : records[r.id] = r.body /\ ~Committed(r.id)}
  <2>1. /\ pending'[p] = bare /\ call' = call /\ call[p].job = "open"
        /\ \/ bare = {} /\ pc'[p] = "return" /\ outcome'[p] = "opened"
           \/ pc'[p] = "previous"
    BY <1>0, <1>5 DEF ReadRows, PendingOK
  <2>2. \A i \in Unchained : \E row \in bare : row.id = i
    <3> TAKE i \in Unchained
    <3>1. i \in Ids /\ records[i] \in Bodies /\ ~Committed(i)
      BY <1>0 DEF Unchained, Stored, TypeOK
    <3> DEFINE row == [id |-> i, body |-> records[i]]
    <3>2. row \in bare /\ row.id = i
      BY <3>1 DEF Rows
    <3> QED
      BY <3>2
  <2> HIDE DEF bare
  <2> QED
    BY <1>3, <2>1, <2>2 DEF Migrated, Appended, Using
<1>6. CASE Call(p)
  <2>1. pc[p] = "idle" /\ pc'[p] = "chain" /\ call'[p].job # "open"
    BY <1>0, <1>6 DEF Call
  <2> QED
    BY <1>0, <1>3, <2>1 DEF Migrated, Appended
<1>7. CASE ReadChain(p) \/ CountRecords(p) \/ LookupMisses(p)
  <2>1. /\ Using(p) /\ call' = call /\ call[p].job # "open"
        /\ \/ pc'[p] \in {"count", "lookup", "previous"}
           \/ pc'[p] = "return" /\ outcome'[p] # "stored"
    BY <1>0, <1>7 DEF ReadChain, CountRecords, LookupMisses, PendingOK, Using, Calls, Outcomes
  <2> QED
    BY <1>0, <1>3, <2>1 DEF Migrated, Appended
<1>8. CASE LookupHits(p)
  <2>1. /\ Using(p) /\ call' = call /\ call[p].job # "open" /\ pc'[p] = "return"
        /\ records[call[p].id] # NoRow
        /\ outcome'[p] = "stored" => records[call[p].id] = call[p].body
    BY <1>0, <1>8 DEF LookupHits, PendingOK, Using
  <2>2. Committed(call[p].id)
    BY <1>0, <2>1, NoneBare DEF Calls, Stored
  <2>3. Committed(call[p].id)'
    BY <1>3, <2>1, <2>2 DEF Committed
  <2> QED
    BY <1>0, <1>3, <2>1, <2>3 DEF Migrated, Appended
<1>9. CASE ReadPrevious(p) \/ ReadSequence(p)
  <2>1. /\ pc[p] \in {"previous", "sequence"} /\ pc'[p] \in {"sequence", "insert"}
        /\ UNCHANGED <<call, pending>>
    BY <1>0, <1>9 DEF ReadPrevious, ReadSequence
  <2> QED
    BY <1>0, <1>3, <2>1 DEF Migrated, Appended, Using
<1>10. CASE Return(p)
  <2>1. /\ pc[p] = "return" /\ UNCHANGED <<call, pending, outcome>>
        /\ \/ pc'[p] = "closed"
           \/ pc'[p] = "idle" /\ (Using(p) \/ outcome[p] = "opened")
    BY <1>0, <1>10 DEF Return, Using
  <2> QED
    BY <1>0, <1>3, <2>1 DEF Migrated, Appended, Using
<1> QED
  BY <1>4, <1>5, <1>6, <1>7, <1>8, <1>9, <1>10

(* A row that is inserted is inserted with its commitment.                 *)
LEMMA InsertFacts ==
  ASSUME IInv, NEW p \in Procs, Insert(p)
  PROVE  \E row \in pending[p] :
           /\ row \in Rows /\ ~Violates(p, row)
           /\ staged'.records = [staged.records EXCEPT ![row.id] = row.body]
           /\ \A i : InStaged(i)' <=> InStaged(i) \/ i = row.id
           /\ link'[p].sequence \in Nat
           /\ pending' = [pending EXCEPT ![p] = @ \ {row}]
           /\ \/ pending[p] = {row} /\ pc' = [pc EXCEPT ![p] = "commit"]
              \/ pc' = pc
<1>1. PICK row \in pending[p] :
        LET n     == link[p].sequence
            entry == [id |-> row.id, body |-> row.body, previous |-> link[p].previous]
            added == Extended(staged.chain, n, entry)
        IN  /\ ~Violates(p, row)
            /\ staged' = [records |-> [staged.records EXCEPT ![row.id] = row.body],
                          chain   |-> added]
            /\ link' = [link EXCEPT ![p] = [sequence |-> Top(added) + 1,
                                            previous |-> Digest(n, entry)]]
            /\ pending' = [pending EXCEPT ![p] = @ \ {row}]
            /\ IF pending[p] = {row} THEN Goto(p, "commit") ELSE UNCHANGED pc
  BY DEF Insert
<1> DEFINE n == link[p].sequence
           entry == [id |-> row.id, body |-> row.body, previous |-> link[p].previous]
           k == Top(staged.chain)
           added == Extended(staged.chain, n, entry)
<1>2. row \in Rows
  BY DEF IInv, TypeOK
<1>3. k \in Nat /\ DOMAIN staged.chain = 1..k
  BY DEF IInv, Numbered
<1>4. n \in 1..(k + 1) /\ n \notin DOMAIN staged.chain
  BY <1>1 DEF Insert, IInv, SequenceOK, Staging, Violates
<1>5. /\ n = k + 1 /\ Top(added) = k + 1 /\ added[n] = entry
      /\ \A m \in DOMAIN staged.chain : added[m] = staged.chain[m]
  BY <1>3, <1>4, ExtendNumbered
<1>6. DOMAIN added = DOMAIN staged.chain \union {n}
  BY DEF Extended
<1>7. staged'.chain = added /\ staged'.records = [staged.records EXCEPT ![row.id] = row.body]
  BY <1>1
<1>8. entry.id = row.id
  OBVIOUS
<1> HIDE DEF entry
<1>9. \A i : InStaged(i)' <=> InStaged(i) \/ i = row.id
  BY <1>5, <1>6, <1>7, <1>8 DEF InStaged
<1>10. link'[p].sequence \in Nat
  <2>1. link'[p] = [sequence |-> Top(added) + 1, previous |-> Digest(n, entry)]
    BY <1>1 DEF IInv, TypeOK, entry
  <2> QED
    BY <1>3, <1>5, <2>1
<1> QED
  BY <1>1, <1>2, <1>7, <1>9, <1>10 DEF Goto

LEMMA InsertUses ==
  ASSUME UseInv, IInv', NEW p \in Procs, Insert(p)
  PROVE  UseInv'
<1>0. /\ IInv /\ pc \in [Procs -> Locations] /\ pending \in [Procs -> SUBSET Rows]
      /\ staged.records \in [Ids -> Bodies \union {NoRow}] /\ Migrated(p)
  BY DEF UseInv, IInv, TypeOK, Staging
<1>1. PICK row \in pending[p] :
        /\ row \in Rows /\ ~Violates(p, row)
        /\ staged'.records = [staged.records EXCEPT ![row.id] = row.body]
        /\ \A i : InStaged(i)' <=> InStaged(i) \/ i = row.id
        /\ pending' = [pending EXCEPT ![p] = @ \ {row}]
        /\ \/ pending[p] = {row} /\ pc' = [pc EXCEPT ![p] = "commit"]
           \/ pc' = pc
  BY <1>0, InsertFacts
<1>2. /\ pc[p] = "insert" /\ writer \in {NoProc, p} /\ writer' = p
      /\ UNCHANGED <<records, chain, call, outcome>>
  BY DEF Insert
<1>3. Unchained' = Unchained /\ \A i : Committed(i)' <=> Committed(i)
  BY <1>2 DEF Unchained, Committed, Stored
<1>4. row.id \in Ids /\ row.body \in Bodies
  BY <1>1 DEF Rows
<1>5. \A i \in Stored(staged'.records) : i \in Stored(records') \/ InStaged(i)'
  BY <1>0, <1>1, <1>2, <1>4 DEF UseInv, Stored
<1>6. ASSUME NEW q \in Procs, q # p PROVE Migrated(q)' /\ Appended(q)'
  <2>1. pc'[q] = pc[q] /\ pending'[q] = pending[q]
    BY <1>0, <1>1, <1>6
  <2>2. writer # q /\ writer' # q /\ pc[q] # "commit"
    BY <1>0, <1>2, <1>6, NoProcAssumption DEF IInv, Staging
  <2>3. Migrated(q) /\ Appended(q)
    BY DEF UseInv
  <2>4. Migrated(q)'
    BY <1>2, <1>3, <2>1, <2>2, <2>3 DEF Migrated, Using
  <2>5. Appended(q)'
    BY <1>2, <1>3, <2>1, <2>2, <2>3 DEF Appended
  <2> QED
    BY <2>4, <2>5
<1>7. pc'[p] = "insert" \/ (pc'[p] = "commit" /\ pending[p] = {row})
  BY <1>0, <1>1, <1>2
<1>8. ASSUME call[p].job = "open", NEW i \in Unchained
      PROVE  (\E r \in pending'[p] : r.id = i) \/ InStaged(i)'
  <2>1. (\E r \in pending[p] : r.id = i) \/ InStaged(i)
    BY <1>0, <1>2, <1>8 DEF Migrated
  <2>2. pending'[p] = pending[p] \ {row}
    BY <1>0, <1>1
  <2> QED
    BY <1>1, <2>1, <2>2
<1>9. pc'[p] = "commit" => pending'[p] = {}
  BY <1>0, <1>1, <1>7
<1>10. Migrated(p)'
  <2>1. Using(p)' <=> Using(p)
    BY <1>2, <1>7 DEF Using
  <2> QED
    BY <1>0, <1>2, <1>3, <1>7, <1>8, <1>9, <2>1 DEF Migrated
<1>11. Appended(p)'
  <2> SUFFICES ASSUME pc'[p] = "commit", call[p].job # "open"
               PROVE  staged'.records[call[p].id] = call[p].body /\ InStaged(call[p].id)'
    BY <1>2, <1>7 DEF Appended
  <2>1. row.id = call[p].id /\ row.body = call[p].body
    BY <1>0 DEF IInv, PendingOK
  <2> QED
    BY <1>0, <1>1, <1>2, <1>4, <2>1
<1> QED
  BY <1>5, <1>6, <1>10, <1>11 DEF UseInv

LEMMA CommitUses ==
  ASSUME UseInv, IInv', NEW p \in Procs, Commit(p)
  PROVE  UseInv'
<1>0. /\ IInv /\ pc \in [Procs -> Locations] /\ call \in [Procs -> Calls]
      /\ outcome \in [Procs -> Outcomes] /\ records \in [Ids -> Bodies \union {NoRow}]
      /\ Kept(records, chain, staged.records, staged.chain)
  BY DEF UseInv, IInv, TypeOK, Staging
<1>1. /\ pc[p] = "commit" /\ writer = p /\ writer' = NoProc
      /\ records' = staged.records /\ chain' = staged.chain /\ staged' = staged
      /\ pc' = [pc EXCEPT ![p] = "return"]
      /\ outcome' = [outcome EXCEPT ![p] = IF call[p].job = "open" THEN "opened" ELSE "stored"]
      /\ UNCHANGED <<call, pending>>
  BY <1>0 DEF Commit, EndWith, Goto, IInv, Staging
<1>2. \A i : Committed(i)' <=> InStaged(i)
  BY <1>1 DEF Committed, InStaged
<1>3. \A i : Committed(i) => Committed(i)'
  BY <1>0, <1>1 DEF Committed, Kept
<1>4. Unchained' = {i \in Unchained : ~InStaged(i)}
  <2>1. \A i \in Stored(records) : i \in Stored(records')
    BY <1>0, <1>1 DEF Kept, Stored
  <2>2. \A i \in Stored(records') : i \in Stored(records) \/ InStaged(i)
    BY <1>1 DEF UseInv
  <2> QED
    BY <1>2, <1>3, <2>1, <2>2 DEF Unchained
<1>5. \A i \in Stored(staged'.records) : i \in Stored(records') \/ InStaged(i)'
  BY <1>1
<1>6. \A i : InStaged(i)' <=> InStaged(i)
  BY <1>1 DEF InStaged
<1>7. ASSUME NEW q \in Procs, q # p PROVE Migrated(q)' /\ Appended(q)'
  <2>1. pc'[q] = pc[q] /\ outcome'[q] = outcome[q] /\ pc[q] # "commit" /\ writer # q
    BY <1>0, <1>1, <1>7 DEF IInv, Staging
  <2>2. Migrated(q) /\ Appended(q)
    BY DEF UseInv
  <2>3. Migrated(q)'
    BY <1>1, <1>4, <2>1, <2>2 DEF Migrated, Using
  <2>4. ASSUME pc[q] = "return", outcome[q] = "stored"
        PROVE  records'[call[q].id] = call[q].body
    <3>1. call[q].id \in Ids /\ call[q].body \in Bodies
      BY <1>0 DEF Calls
    <3>2. records[call[q].id] = call[q].body
      BY <2>2, <2>4 DEF Appended
    <3> QED
      BY <1>0, <1>1, <3>1, <3>2, NoRowAssumption DEF Kept, Stored
  <2>5. Appended(q)'
    BY <1>1, <1>3, <2>1, <2>2, <2>4 DEF Appended
  <2> QED
    BY <2>3, <2>5
<1>8. pc'[p] = "return" /\ outcome'[p] = IF call[p].job = "open" THEN "opened" ELSE "stored"
  BY <1>0, <1>1
<1>9. Migrated(p)'
  <2>1. call[p].job = "open" => \A i \in Unchained : InStaged(i)
    BY <1>1 DEF UseInv, Migrated
  <2>2. call[p].job # "open" => Unchained = {}
    BY <1>1 DEF UseInv, Migrated, Using
  <2>3. Unchained' = {}
    BY <1>4, <2>1, <2>2
  <2> QED
    BY <1>8, <2>3 DEF Migrated
<1>10. Appended(p)'
  <2> SUFFICES ASSUME call[p].job # "open"
               PROVE  records'[call[p].id] = call[p].body /\ Committed(call[p].id)'
    BY <1>1, <1>8 DEF Appended
  <2> QED
    BY <1>1, <1>2 DEF UseInv, Appended
<1> QED
  BY <1>5, <1>7, <1>9, <1>10 DEF UseInv

LEMMA RollbackUses ==
  ASSUME UseInv, IInv', NEW p \in Procs, InsertRejected(p) \/ Busy(p) \/ Crash(p)
  PROVE  UseInv'
<1>0. /\ IInv /\ pc \in [Procs -> Locations] /\ outcome \in [Procs -> Outcomes]
      /\ pending \in [Procs -> SUBSET Rows]
  BY DEF UseInv, IInv, TypeOK
<1>1. /\ Rollback(p) /\ UNCHANGED <<records, chain, call>> /\ pc[p] # "closed"
      /\ \/ pc'[p] = "closed"
         \/ pc'[p] = "return" /\ outcome'[p] \in {"unique", "busy"}
      /\ \A q \in Procs \ {p} : /\ pc'[q] = pc[q] /\ pending'[q] = pending[q]
                                /\ outcome'[q] = outcome[q]
  BY <1>0 DEF InsertRejected, Busy, Crash, EndWith, Goto
<1>2. Unchained' = Unchained /\ \A i : Committed(i)' <=> Committed(i)
  BY <1>1 DEF Unchained, Committed, Stored
<1>3. Migrated(p)' /\ Appended(p)'
  BY <1>1, <1>2 DEF UseInv, Migrated, Appended, Using
<1>4. CASE writer = p
  <2>1. staged'.records = records /\ writer' = NoProc
    BY <1>1, <1>4 DEF Rollback
  <2>2. \A q \in Procs : q # p => pc[q] # "commit" /\ writer # q
    BY <1>0, <1>4 DEF IInv, Staging
  <2>3. ASSUME NEW q \in Procs, q # p PROVE Migrated(q)' /\ Appended(q)'
    BY <1>1, <1>2, <2>2, <2>3 DEF UseInv, Migrated, Appended, Using
  <2> QED
    BY <1>1, <1>3, <2>1, <2>3 DEF UseInv, Stored
<1>5. CASE writer # p
  <2>1. UNCHANGED <<writer, staged>>
    BY <1>1, <1>5 DEF Rollback
  <2>2. \A i : InStaged(i)' <=> InStaged(i)
    BY <2>1 DEF InStaged
  <2>3. ASSUME NEW q \in Procs, q # p PROVE Migrated(q)' /\ Appended(q)'
    BY <1>1, <1>2, <2>1, <2>2, <2>3 DEF UseInv, Migrated, Appended, Using
  <2> QED
    BY <1>1, <1>3, <2>1, <2>2, <2>3 DEF UseInv, Stored
<1> QED
  BY <1>4, <1>5

LEMMA UseStep == UseInv /\ [Next]_vars => UseInv'
<1> SUFFICES ASSUME UseInv, [Next]_vars PROVE UseInv'
  OBVIOUS
<1>1. IInv'
  BY StepPreserves DEF UseInv
<1>2. CASE Next
  <2> PICK p \in Procs : Open(p) \/ Call(p) \/ Step(p) \/ Crash(p)
    BY <1>2 DEF Next
  <2> QED
    BY <1>1, ReadingUses, InsertUses, CommitUses, RollbackUses DEF Step
<1>3. CASE UNCHANGED vars
  BY <1>1, <1>3 DEF UseInv, Migrated, Appended, Using, Unchained, InStaged, Committed, Stored,
                    vars
<1> QED
  BY <1>2, <1>3

LEMMA UsedIsChained == UseInv => NoneUnchained /\ Acknowledged
BY DEF UseInv, Migrated, Appended, NoneUnchained, Acknowledged, Unchained

(* Nobody works with a ledger before its old records are chained, however  *)
(* many processes migrate it at once or die of it (_migrate).              *)
THEOREM NothingIsUnchained == Spec => []NoneUnchained
BY UseInit, UseStep, UsedIsChained, PTL DEF Spec

(* What append returned is stored and committed to, from then on.       *)
THEOREM AppendsAreAcknowledged == Spec => []Acknowledged
BY UseInit, UseStep, UsedIsChained, PTL DEF Spec

-----------------------------------------------------------------------------
(***************************************************************************)
(* Every step is one of a ledger that acts at once.                        *)
(***************************************************************************)

(* A transaction that is open is the migration of a file without           *)
(* commitments, or an append with all it inserts.                          *)
Migrating(p) ==
  call[p].job = "open" /\ staged.records = records /\ DOMAIN chain = {}
Appending(p) ==
  /\ pc[p] = "commit" /\ call[p].job = "append"
  /\ records[call[p].id] = NoRow
  /\ staged.records = [records EXCEPT ![call[p].id] = call[p].body]
  /\ DOMAIN staged.chain = 1..(Top(chain) + 1)
  /\ staged.chain[Top(chain) + 1].id = call[p].id

AtOnceInv ==
  /\ UseInv
  /\ Unchained # {} => DOMAIN chain = {}
  /\ \A p \in Procs : writer = p => Migrating(p) \/ Appending(p)

LEMMA AtOnceInit == Init => AtOnceInv
<1> SUFFICES ASSUME Init PROVE AtOnceInv
  OBVIOUS
<1>1. DOMAIN chain = {}
  BY DEF Init, NoChain
<1>2. \A p \in Procs : writer # p
  BY NoProcAssumption DEF Init
<1> QED
  BY <1>1, <1>2, UseInit DEF AtOnceInv

(* A step that leaves both tables and the transaction of the writer alone. *)
LEMMA AtOnceStays ==
  ASSUME AtOnceInv, UseInv', UNCHANGED tables,
         \A p \in Procs : writer = p => pc'[p] = pc[p] /\ call'[p] = call[p]
  PROVE  AtOnceInv'
<1>1. UNCHANGED <<records, chain, staged, writer>> /\ Unchained' = Unchained
  BY DEF tables, Unchained, Stored, Committed
<1>2. Top(chain)' = Top(chain)
  BY <1>1 DEF Top
<1> QED
  BY <1>1, <1>2 DEF AtOnceInv, Migrating, Appending

(* The INSERTs of a row: what a migration found bare and is not rejected   *)
(* is bare still, and the one row of an append fills its transaction.      *)
LEMMA AtOnceInsert ==
  ASSUME AtOnceInv, UseInv', NEW p \in Procs, Insert(p)
  PROVE  AtOnceInv'
<1>0. /\ IInv /\ pc \in [Procs -> Locations] /\ pending \in [Procs -> SUBSET Rows]
      /\ call \in [Procs -> Calls] /\ records \in [Ids -> Bodies \union {NoRow}]
  BY DEF AtOnceInv, UseInv, IInv, TypeOK
<1>1. PICK row \in pending[p] :
        LET n     == link[p].sequence
            entry == [id |-> row.id, body |-> row.body, previous |-> link[p].previous]
            added == Extended(staged.chain, n, entry)
        IN  /\ ~Violates(p, row)
            /\ staged' = [records |-> [staged.records EXCEPT ![row.id] = row.body],
                          chain   |-> added]
            /\ link' = [link EXCEPT ![p] = [sequence |-> Top(added) + 1,
                                            previous |-> Digest(n, entry)]]
            /\ pending' = [pending EXCEPT ![p] = @ \ {row}]
            /\ IF pending[p] = {row} THEN Goto(p, "commit") ELSE UNCHANGED pc
  BY DEF Insert
<1> DEFINE n == link[p].sequence
           entry == [id |-> row.id, body |-> row.body, previous |-> link[p].previous]
           added == Extended(staged.chain, n, entry)
<1>2. /\ pc[p] = "insert" /\ writer \in {NoProc, p} /\ writer' = p
      /\ UNCHANGED <<records, chain, call>>
      /\ staged'.records = [staged.records EXCEPT ![row.id] = row.body]
      /\ staged'.chain = added
  BY <1>1 DEF Insert
<1>3. /\ Unchained' = Unchained /\ DOMAIN chain' = DOMAIN chain
      /\ \A q \in Procs : writer' = q => q = p
  BY <1>2 DEF Unchained, Stored, Committed
<1>4. row.id \in Ids /\ row.body \in Bodies
  BY <1>0 DEF Rows
<1>5. CASE call[p].job = "open"
  <2>1. records[row.id] = row.body
    BY <1>0, <1>5 DEF IInv, PendingOK
  <2>2. staged.records = records /\ DOMAIN chain = {}
    <3>1. CASE writer = p
      BY <1>2, <3>1 DEF AtOnceInv, Migrating, Appending
    <3>2. CASE writer = NoProc
      <4>1. staged.records = records /\ staged.chain = chain
        BY <1>0, <3>2 DEF IInv, Staging
      <4>2. row.id \in Unchained
        BY <1>1, <1>4, <2>1, <4>1, NoRowAssumption DEF Violates, Unchained, Stored, Committed
      <4> QED
        BY <4>1, <4>2 DEF AtOnceInv
    <3> QED
      BY <1>2, <3>1, <3>2
  <2>3. staged'.records = records
    BY <1>0, <1>2, <1>4, <2>1, <2>2
  <2>4. Migrating(p)'
    BY <1>2, <1>5, <2>2, <2>3 DEF Migrating
  <2> QED
    BY <1>3, <2>4 DEF AtOnceInv
<1>6. CASE call[p].job # "open"
  <2>1. call[p].job = "append" /\ row = [id |-> call[p].id, body |-> call[p].body]
    BY <1>0, <1>6 DEF IInv, PendingOK
  <2>2. pending[p] = {row}
    BY <1>0, <1>6, <2>1 DEF IInv, PendingOK
  <2>3. pc'[p] = "commit"
    BY <1>0, <1>1, <2>2 DEF Goto
  <2>4. writer = NoProc
    BY <1>2, <1>6 DEF AtOnceInv, Migrating, Appending
  <2>5. staged.records = records /\ staged.chain = chain
    BY <1>0, <2>4 DEF IInv, Staging
  <2>6. records[call[p].id] = NoRow
    BY <1>1, <2>1, <2>5 DEF Violates
  <2>7. Top(chain) \in Nat /\ DOMAIN chain = 1..Top(chain)
    BY <1>0 DEF IInv, Numbered
  <2>8. n \in 1..(Top(chain) + 1) /\ n \notin DOMAIN chain
    BY <1>0, <1>1, <1>2, <2>4, <2>5, NoProcAssumption DEF IInv, SequenceOK, Violates
  <2>9. /\ n = Top(chain) + 1 /\ DOMAIN added = 1..(Top(chain) + 1) /\ added[n] = entry
    BY <2>5, <2>7, <2>8, ExtendNumbered
  <2>10. staged'.chain[Top(chain) + 1].id = call[p].id
    BY <1>2, <2>1, <2>9
  <2>11. Top(chain)' = Top(chain)
    BY <1>2 DEF Top
  <2> HIDE DEF n, entry, added
  <2>12. Appending(p)'
    BY <1>2, <2>1, <2>3, <2>5, <2>6, <2>9, <2>10, <2>11 DEF Appending
  <2> QED
    BY <1>3, <2>12 DEF AtOnceInv
<1> QED
  BY <1>5, <1>6

(* After a commit nothing is bare, be it the end of a migration or one of  *)
(* an append, which starts when nothing is.                                *)
LEMMA CommitLeavesNone ==
  ASSUME UseInv, UseInv', NEW p \in Procs, Commit(p)
  PROVE  Unchained' = {}
<1>1. /\ call' = call /\ pc'[p] = "return"
      /\ outcome'[p] = IF call[p].job = "open" THEN "opened" ELSE "stored"
  BY DEF Commit, EndWith, Goto, UseInv, IInv, TypeOK
<1> QED
  BY <1>1 DEF UseInv, Migrated, Using

LEMMA AtOnceStep == AtOnceInv /\ [Next]_vars => AtOnceInv'
<1> SUFFICES ASSUME AtOnceInv, [Next]_vars PROVE AtOnceInv'
  OBVIOUS
<1>0. UseInv /\ UseInv' /\ IInv /\ pc \in [Procs -> Locations] /\ call \in [Procs -> Calls]
  BY UseStep DEF AtOnceInv, UseInv, IInv, TypeOK
<1>1. CASE Next
  <2> PICK p \in Procs : Open(p) \/ Call(p) \/ Step(p) \/ Crash(p)
    BY <1>1 DEF Next
  <2>1. CASE Insert(p)
    BY <1>0, <2>1, AtOnceInsert
  <2>2. CASE Commit(p)
    <3>1. writer' = NoProc
      BY <2>2 DEF Commit
    <3> QED
      BY <1>0, <2>2, <3>1, CommitLeavesNone, NoProcAssumption DEF AtOnceInv
  <2>3. CASE InsertRejected(p) \/ Busy(p) \/ Crash(p)
    <3>1. /\ Rollback(p) /\ UNCHANGED <<records, chain, call>>
          /\ \A q \in Procs \ {p} : pc'[q] = pc[q]
      BY <1>0, <2>3 DEF InsertRejected, Busy, Crash, EndWith, Goto
    <3>2. CASE writer = p
      <4>1. writer' = NoProc /\ Unchained' = Unchained
        BY <3>1, <3>2 DEF Rollback, Unchained, Stored, Committed
      <4> QED
        BY <1>0, <3>1, <4>1, NoProcAssumption DEF AtOnceInv
    <3>3. CASE writer # p
      <4>1. UNCHANGED tables
        BY <3>1, <3>3 DEF Rollback, tables
      <4> QED
        BY <1>0, <3>1, <3>3, <4>1, AtOnceStays
    <3> QED
      BY <3>2, <3>3
  <2>4. CASE \/ Open(p) \/ ReadRows(p) \/ Call(p) \/ ReadChain(p) \/ CountRecords(p)
             \/ LookupHits(p) \/ LookupMisses(p) \/ ReadPrevious(p) \/ ReadSequence(p) \/ Return(p)
    <3>1. UNCHANGED tables
      BY <2>4 DEF Open, ReadRows, Call, ReadChain, CountRecords, LookupHits, LookupMisses,
                  ReadPrevious, ReadSequence, Return
    <3>2. pc[p] \notin {"insert", "commit"}
      BY <2>4 DEF Open, ReadRows, Call, ReadChain, CountRecords, LookupHits, LookupMisses,
                  ReadPrevious, ReadSequence, Return
    <3>3. writer # p
      BY <1>0, <3>2 DEF IInv, Staging
    <3>4. \A q \in Procs \ {p} : pc'[q] = pc[q] /\ call'[q] = call[q]
      BY <1>0, <2>4 DEF Goto, EndWith, Open, ReadRows, Call, ReadChain, CountRecords, LookupHits,
                        LookupMisses, ReadPrevious, ReadSequence, Return
    <3> QED
      BY <1>0, <3>1, <3>3, <3>4, AtOnceStays
  <2> QED
    BY <2>1, <2>2, <2>3, <2>4 DEF Step
<1>2. CASE UNCHANGED vars
  BY <1>0, <1>2, AtOnceStays DEF vars, tables
<1> QED
  BY <1>1, <1>2

-----------------------------------------------------------------------------
(* The experiments in the order of a table of commitments. *)
OrderOf(c) == [n \in DOMAIN c |-> c[n].id]

LEMMA OrderIsSequence ==
  ASSUME NEW c, NEW k \in Nat, DOMAIN c = 1..k, \A n \in DOMAIN c : c[n].id \in Ids
  PROVE  OrderOf(c) \in Seq(Ids) /\ Len(OrderOf(c)) = k /\ DOMAIN OrderOf(c) = 1..k
<1>1. OrderOf(c) \in [1..k -> Ids]
  BY DEF OrderOf
<1> QED
  BY <1>1

(* The commit of a migration is Migrate, that of an append is Record.      *)
LEMMA CommitIsAtomic ==
  ASSUME AtOnceInv, AtOnceInv', NEW p \in Procs, Commit(p)
  PROVE  AtOnce!Next
<1>1. /\ IInv /\ UseInv /\ UseInv' /\ pc[p] = "commit" /\ writer = p
      /\ records' = staged.records /\ chain' = staged.chain
  BY DEF Commit, AtOnceInv, UseInv, IInv, Staging
<1>2. Unchained' = {}
  BY <1>1, CommitLeavesNone
<1>3. /\ Top(chain) \in Nat /\ DOMAIN chain = 1..Top(chain)
      /\ Top(chain') \in Nat /\ DOMAIN chain' = 1..Top(chain')
      /\ Pairs(records, chain) /\ Pairs(records', chain')
  BY <1>1 DEF IInv, Numbered, Paired
<1>4. /\ \A n \in DOMAIN chain : chain[n].id \in Stored(records)
      /\ \A n \in DOMAIN chain' : chain'[n].id \in Stored(records')
      /\ \A m, n \in DOMAIN chain' : chain'[m].id = chain'[n].id => m = n
  BY <1>3 DEF Pairs
<1>5. Stored(records) \subseteq Ids /\ Stored(records') \subseteq Ids
  BY DEF Stored
<1>6. /\ OrderOf(chain) \in Seq(Ids) /\ Len(OrderOf(chain)) = Top(chain)
      /\ OrderOf(chain') \in Seq(Ids)
  <2>1. \A n \in DOMAIN chain : chain[n].id \in Ids
    BY <1>4, <1>5
  <2>2. \A n \in DOMAIN chain' : chain'[n].id \in Ids
    BY <1>4, <1>5
  <2> QED
    BY <1>3, <2>1, <2>2, OrderIsSequence
<1>7. AtOnce!Stored = Stored(records) /\ AtOnce!Stored' = Stored(records')
  BY DEF AtOnce!Stored, Stored
<1>8. CASE Migrating(p)
  <2>1. OrderOf(chain) = <<>>
    BY <1>8 DEF Migrating, OrderOf
  <2>2. IsInjective(OrderOf(chain'))
    BY <1>4 DEF IsInjective, OrderOf
  <2>3. ToSet(OrderOf(chain')) = Stored(records')
    BY <1>2, <1>4 DEF ToSet, OrderOf, Unchained, Committed
  <2>4. records' = records
    BY <1>1, <1>8 DEF Migrating
  <2>5. AtOnce!Migrate
    BY <1>6, <1>7, <2>1, <2>2, <2>3, <2>4
       DEF AtOnce!Migrate, AtOnce!ToSet, AtOnce!IsInjective, ToSet, IsInjective, OrderOf
  <2> QED
    BY <2>5 DEF AtOnce!Next
<1>9. CASE Appending(p)
  <2> DEFINE k == Top(chain)
  <2>1. PICK i \in Ids, b \in Bodies : i = call[p].id /\ b = call[p].body
    BY <1>1 DEF IInv, TypeOK, Calls
  <2>2. Unchained = {}
    BY <1>1, <1>9 DEF UseInv, Migrated, Using, Appending
  <2>3. ToSet(OrderOf(chain)) = Stored(records)
    BY <1>4, <2>2 DEF ToSet, OrderOf, Unchained, Committed
  <2>4. i \notin Stored(records) /\ records' = [records EXCEPT ![i] = b]
    BY <1>1, <1>9, <2>1 DEF Appending, Stored
  <2>5. /\ DOMAIN chain' = 1..(k + 1) /\ chain'[k + 1].id = i
        /\ \A n \in 1..k : chain'[n] = chain[n]
    BY <1>1, <1>3, <1>9, <2>1 DEF Appending, IInv, Staging, Kept
  <2>6. OrderOf(chain') = [n \in 1..(k + 1) |-> IF n <= k THEN OrderOf(chain)[n] ELSE i]
    BY <1>3, <2>5 DEF OrderOf
  <2>7. OrderOf(chain') = Append(OrderOf(chain), i)
    BY <1>3, <1>6, <2>1, <2>6
  <2>8. AtOnce!Record(i, b)
    BY <1>7, <2>3, <2>4, <2>7
       DEF AtOnce!Record, AtOnce!Committed, AtOnce!ToSet, ToSet, OrderOf
  <2> QED
    BY <2>8 DEF AtOnce!Next
<1> QED
  BY <1>1, <1>8, <1>9 DEF AtOnceInv

(* However the statements of any number of processes interleave, whoever is *)
(* rolled back or dies (_initialize, append): the committed tables change   *)
(* by the migration of an old file as a whole, once and before anything is  *)
(* appended, and by one append at a time.                                   *)
THEOREM LedgerActsAtOnce == Spec => ActsAtOnce
<1>1. Init => AtOnce!Init
  BY DEF Init, AtOnce!Init, NoChain
<1>2. AtOnceInv /\ AtOnceInv' /\ [Next]_vars => [AtOnce!Next]_(AtOnce!tables)
  <2> SUFFICES ASSUME AtOnceInv, AtOnceInv', [Next]_vars, ~ UNCHANGED <<records, chain>>
               PROVE  AtOnce!Next
    BY DEF AtOnce!tables
  <2>1. PICK p \in Procs : Commit(p)
    BY DEF Next, Step, vars, tables, Open, Call, ReadRows, ReadChain, CountRecords, LookupHits,
           LookupMisses, ReadPrevious, ReadSequence, Insert, InsertRejected, Busy, Return, Crash
  <2> QED
    BY <2>1, CommitIsAtomic
<1> QED
  BY <1>1, <1>2, AtOnceInit, AtOnceStep, PTL DEF Spec, ActsAtOnce, AtOnce!Spec

-----------------------------------------------------------------------------
(***************************************************************************)
(* One process never finds its own ledger broken.                          *)
(***************************************************************************)

(* A chain that names every record once has as many commitments as there   *)
(* are records.                                                            *)
LEMMA ChainedReconciles ==
  ASSUME IInv, \A i \in Stored(records) : Committed(i)
  PROVE  Reconciles(chain, records)
<1> DEFINE id == [n \in DOMAIN chain |-> chain[n].id]
<1>1. PICK k \in Nat : DOMAIN chain = 1..k
  BY DEF IInv, Numbered
<1>2. /\ \A n \in DOMAIN chain : /\ chain[n].id \in Stored(records)
                                  /\ records[chain[n].id] = chain[n].body
      /\ \A m, n \in DOMAIN chain : chain[m].id = chain[n].id => m = n
  BY DEF IInv, Paired, Pairs
<1>3. id \in Bijection(DOMAIN chain, Stored(records))
  <2>1. id \in [DOMAIN chain -> Stored(records)]
    BY <1>2
  <2>2. IsInjective(id)
    BY <1>2 DEF IsInjective
  <2>3. \A i \in Stored(records) : \E n \in DOMAIN chain : id[n] = i
    BY DEF Committed
  <2> HIDE DEF id
  <2> QED
    BY <2>1, <2>2, <2>3 DEF Bijection, Injection, Surjection
<1>4. IsFiniteSet(DOMAIN chain)
  BY <1>1, FS_Interval
<1>5. Cardinality(Stored(records)) = Cardinality(DOMAIN chain)
  <2> HIDE DEF id
  <2> QED
    BY <1>3, <1>4, FS_Bijection DEF ExistsBijection
<1> HIDE DEF id
<1> QED
  BY <1>2, <1>5, Zenon DEF Reconciles

LEMMA OpenInit == Init => OpenInv
<1> SUFFICES ASSUME Init PROVE OpenInv
  OBVIOUS
<1>1. FreshOK /\ NeverLocksOut
  BY DEF Init, FreshOK, NeverLocksOut
<1> QED
  BY <1>1, UseInit, SerialInit DEF OpenInv

LEMMA OpenStep ==
  ASSUME \A p, q \in Procs : p = q
  PROVE  OpenInv /\ [Next]_vars => OpenInv'
<1> SUFFICES ASSUME OpenInv, [Next]_vars PROVE OpenInv'
  OBVIOUS
<1>1. UseInv' /\ SerialInv'
  BY UseStep, SerialStep DEF OpenInv
<1>2. CASE UNCHANGED vars
  BY <1>1, <1>2 DEF OpenInv, FreshOK, NeverLocksOut, InStaged, vars
<1>3. CASE Next
  <2>1. PICK p \in Procs : Open(p) \/ Call(p) \/ Step(p) \/ Crash(p)
    BY <1>3 DEF Next
  <2>2. /\ UseInv /\ IInv /\ TypeOK /\ PendingOK /\ LinkOK /\ Linked(chain)
        /\ pc \in [Procs -> Locations] /\ call \in [Procs -> Calls]
        /\ pending \in [Procs -> SUBSET Rows] /\ outcome \in [Procs -> Outcomes]
        /\ \A q \in Procs : q = p
    BY DEF OpenInv, UseInv, IInv, TypeOK, SerialInv
  <2> DEFINE sound == /\ pc'[p] = "count" => view'[p] = chain'
                      /\ pc'[p] \in {"previous", "sequence", "insert"} =>
                           \A row \in pending'[p] :
                             /\ ~InStaged(row.id)'
                             /\ call'[p].job = "append" => staged'.records[row.id] = NoRow
                      /\ outcome'[p] \notin {"mismatch", "unreconciled", "unique"}
  <2>3. /\ outcome[p] \notin {"mismatch", "unreconciled", "unique"}
        /\ pc[p] = "count" => view[p] = chain
        /\ pc[p] \in {"previous", "sequence", "insert"} =>
             \A row \in pending[p] :
               ~InStaged(row.id) /\ (call[p].job = "append" => staged.records[row.id] = NoRow)
    BY DEF OpenInv, FreshOK, NeverLocksOut
  <2>15. DOMAIN view = Procs /\ DOMAIN view' = Procs
    <3>1. DOMAIN view = Procs
      BY DEF OpenInv, FreshOK
    <3>2. DOMAIN view' = DOMAIN view
      BY <2>1 DEF Step, Open, Call, ReadRows, ReadChain, CountRecords, LookupHits, LookupMisses,
           ReadPrevious, ReadSequence, Insert, InsertRejected, Commit, Busy, Return, Crash
    <3> QED
      BY <3>1, <3>2
  <2> SUFFICES sound
    BY <1>1, <2>2, <2>15 DEF OpenInv, FreshOK, NeverLocksOut
  <2>4. pc[p] \notin {"insert", "commit"} =>
          /\ staged.records = records /\ \A i : InStaged(i) <=> Committed(i)
    <3>1. pc[p] \notin {"insert", "commit"} => writer = NoProc
      BY <2>2 DEF IInv, Staging, TypeOK
    <3>2. writer = NoProc => staged.records = records /\ staged.chain = chain
      BY <2>2 DEF IInv, Staging
    <3> QED
      BY <3>1, <3>2 DEF InStaged, Committed
  <2>5. UNCHANGED tables => \A i : InStaged(i)' <=> InStaged(i)
    BY DEF tables, InStaged
  <2> USE DEF Goto, EndWith
  <2>6. CASE Open(p) \/ Call(p) \/ LookupHits(p) \/ Commit(p) \/ Busy(p) \/ Return(p) \/ Crash(p)
    <3>1. /\ pc'[p] \in {"rows", "chain", "return", "closed", "idle"}
          /\ outcome'[p] \in {"pending", "found", "stored", "conflict", "opened", "busy",
                              outcome[p]}
      BY <2>2, <2>6 DEF Open, Call, LookupHits, Commit, Busy, Return, Crash
    <3> QED
      BY <2>3, <3>1
  <2>7. CASE ReadRows(p)
    <3>1. /\ UNCHANGED tables /\ pc[p] = "rows" /\ call'[p] = call[p] /\ call[p].job = "open"
          /\ pending'[p] = {r \in Rows : records[r.id] = r.body /\ ~Committed(r.id)}
          /\ pc'[p] \in {"return", "previous"} /\ outcome'[p] \in {"opened", outcome[p]}
      BY <2>2, <2>7 DEF ReadRows, PendingOK
    <3>2. \A row \in pending'[p] : ~InStaged(row.id)'
      BY <2>4, <2>5, <3>1
    <3> QED
      BY <2>3, <3>1, <3>2
  <2>8. CASE ReadChain(p)
    <3>1. pc'[p] = "count" /\ view'[p] = chain /\ chain' = chain /\ outcome' = outcome
      BY <2>2, <2>8, <2>15 DEF ReadChain, tables
    <3> QED
      BY <2>3, <3>1
  <2>9. CASE CountRecords(p)
    <3>1. pc[p] = "count" /\ view[p] = chain /\ Using(p)
      BY <2>2, <2>3, <2>9 DEF CountRecords, Using, PendingOK
    <3>2. Reconciles(view[p], records)
      BY <2>2, <3>1, NoneBare, ChainedReconciles
    <3>3. pc'[p] = "lookup" /\ outcome' = outcome
      BY <2>2, <2>9, <3>2 DEF CountRecords
    <3> QED
      BY <2>3, <3>3
  <2>10. CASE LookupMisses(p)
    <3>1. /\ UNCHANGED tables /\ pc[p] = "lookup" /\ records[call[p].id] = NoRow
          /\ pc'[p] \in {"return", "previous"} /\ outcome'[p] \in {"unknown", outcome[p]}
          /\ pc'[p] = "previous" => pending'[p] = {[id |-> call[p].id, body |-> call[p].body]}
      BY <2>2, <2>10 DEF LookupMisses
    <3>2. ~Committed(call[p].id)
      BY <2>2, <3>1 DEF IInv, Paired, Pairs, Stored, Committed
    <3>3. ~InStaged(call[p].id) /\ staged'.records[call[p].id] = NoRow
      BY <2>4, <3>1, <3>2 DEF tables
    <3>4. pc'[p] = "previous" => \A row \in pending'[p] : row.id = call[p].id
      BY <3>1
    <3>5. pc'[p] = "previous" =>
            \A row \in pending'[p] : ~InStaged(row.id)' /\ staged'.records[row.id] = NoRow
      BY <2>5, <3>1, <3>3, <3>4
    <3> QED
      BY <2>3, <3>1, <3>5
  <2>11. CASE ReadPrevious(p) \/ ReadSequence(p)
    <3>1. /\ UNCHANGED tables /\ pc[p] \in {"previous", "sequence"}
          /\ pc'[p] \in {"sequence", "insert"} /\ UNCHANGED <<call, pending, outcome>>
      BY <2>2, <2>11 DEF ReadPrevious, ReadSequence
    <3>2. staged'.records = staged.records
      BY <3>1 DEF tables
    <3> QED
      BY <2>3, <2>5, <3>1, <3>2
  <2>12. CASE Insert(p)
    <3>1. PICK row \in pending[p] :
            /\ row \in Rows /\ ~Violates(p, row)
            /\ staged'.records = [staged.records EXCEPT ![row.id] = row.body]
            /\ \A i : InStaged(i)' <=> InStaged(i) \/ i = row.id
            /\ pending' = [pending EXCEPT ![p] = @ \ {row}]
            /\ \/ pending[p] = {row} /\ pc' = [pc EXCEPT ![p] = "commit"]
               \/ pc' = pc
      BY <2>2, <2>12, InsertFacts
    <3>2. pc[p] = "insert" /\ UNCHANGED <<call, outcome>>
      BY <2>12 DEF Insert
    <3>3. pc'[p] \in {"insert", "commit"} /\ pending'[p] = pending[p] \ {row}
      BY <2>2, <3>1, <3>2
    <3>4. ASSUME NEW r \in pending'[p] PROVE r.id # row.id /\ call[p].job # "append"
      <4>1. r \in pending[p] /\ r # row /\ r \in Rows
        BY <2>2, <3>3, <3>4
      <4>2. call[p].job # "append"
        BY <2>2, <3>1, <4>1 DEF PendingOK
      <4>3. records[r.id] = r.body /\ records[row.id] = row.body
        BY <2>2, <3>1, <4>1, <4>2 DEF PendingOK
      <4>4. r.id = row.id => r = row
        BY <3>1, <4>1, <4>3 DEF Rows
      <4> QED
        BY <4>1, <4>2, <4>4
    <3>5. \A r \in pending'[p] : ~InStaged(r.id)'
      BY <2>3, <3>1, <3>2, <3>3, <3>4
    <3> QED
      BY <2>3, <3>2, <3>3, <3>4, <3>5
  <2>13. ~InsertRejected(p)
    <3> SUFFICES ASSUME pc[p] = "insert", NEW row \in pending[p] PROVE ~Violates(p, row)
      BY DEF InsertRejected
    <3>1. link[p].sequence = Top(staged.chain) + 1
      BY <2>2 DEF LinkOK
    <3>2. link[p].sequence \notin DOMAIN staged.chain
      BY <2>2, <3>1 DEF IInv, Numbered
    <3> QED
      BY <2>3, <3>2 DEF Violates, InStaged
  <2> HIDE DEF sound
  <2> QED
    BY <2>1, <2>6, <2>7, <2>8, <2>9, <2>10, <2>11, <2>12, <2>13 DEF Step
<1> QED
  BY <1>2, <1>3

(* One process, however often it fails, dies and starts again, never finds *)
(* its ledger inconsistent and never violates a key (_verify_chain).       *)
THEOREM SerialUseIsNeverLockedOut ==
  ASSUME \A p, q \in Procs : p = q
  PROVE  Spec => []NeverLocksOut
<1>1. OpenInv => NeverLocksOut
  BY DEF OpenInv
<1> QED
  BY <1>1, OpenInit, OpenStep, PTL DEF Spec

-----------------------------------------------------------------------------
(***************************************************************************)
(* The comparison uses the ledger as any process does.                     *)
(***************************************************************************)
LEMMA LabStep == [LabNext]_<<vars, labVars>> => [Next]_vars
<1> SUFFICES ASSUME LabNext PROVE [Next]_vars
  BY DEF vars
<1>1. PICK p \in Procs : \/ Evaluate(p) \/ AppendNext(p) \/ AppendReturns(p)
                         \/ Judge(p) \/ LabCrash(p) \/ Elsewhere(p)
  BY DEF LabNext
<1>2. UNCHANGED vars \/ Open(p) \/ Call(p) \/ Step(p) \/ Crash(p)
  BY <1>1 DEF Evaluate, AppendNext, AppendReturns, Judge, LabCrash, Elsewhere, Step
<1> QED
  BY <1>2 DEF Next

(* What is proved of the ledger holds of the ledger of the comparison.     *)
THEOREM ComparisonUsesTheLedger == LabSpec => Spec
<1>1. LabInit => Init
  BY DEF LabInit
<1> QED
  BY <1>1, LabStep, PTL DEF LabSpec, Spec

(* What a judgement may rest on. *)
Retained(t) == records[t.id] = t.body /\ Committed(t.id)

LEMMA RetainedForGood ==
  ASSUME IInv, [Next]_vars, NEW t \in Trial, Retained(t)
  PROVE  Retained(t)'
<1>1. Kept(records, chain, records', chain')
  BY StepKeeps
<1>2. t.id \in Stored(records)
  BY NoRowAssumption DEF Trial, Retained, Stored
<1>3. records'[t.id] = t.body
  BY <1>1, <1>2 DEF Kept, Retained
<1>4. Committed(t.id)'
  BY <1>1 DEF Kept, Retained, Committed
<1> QED
  BY <1>3, <1>4 DEF Retained

(* The trials before the next one are in the ledger, and the process is    *)
(* between two appends or in the one of the next trial.                    *)
StudyOK ==
  /\ study.items \in Seq(Trial)
  /\ study.phase = "appending" =>
       /\ study.next \in Nat
       /\ \A n \in DOMAIN study.items : n < study.next => Retained(study.items[n])
       /\ \A p \in Procs :
            \/ pc[p] = "idle"
            \/ /\ pc[p] \notin {"closed", "rows"}
               /\ study.next <= Len(study.items)
               /\ call[p].job = "append"
               /\ call[p].id = study.items[study.next].id
               /\ call[p].body = study.items[study.next].body

LabInv == UseInv /\ StudyOK /\ judged \subseteq Trial /\ TrialsRetained

LEMMA LabInitEstablishes == LabInit => LabInv
<1> SUFFICES ASSUME LabInit PROVE LabInv
  OBVIOUS
<1>1. UseInv
  BY UseInit DEF LabInit
<1>2. Idle.items \in Seq(Trial) /\ Idle.phase = "idle"
  BY DEF Idle
<1> QED
  BY <1>1, <1>2 DEF LabInit, LabInv, StudyOK, TrialsRetained

LEMMA StudiesAreSequences ==
  ASSUME NEW s \in ReceiptStudies \union SeriesStudies
  PROVE  /\ s.items \in Seq(Trial) /\ s.next = 1 /\ s.phase = "appending"
<1>1. Cardinality(Strategies) \in Nat
  BY StrategiesAssumption, FS_CardinalityType
<1>2. \A n \in Nat : \A t \in [1..n -> Trial] : t \in Seq(Trial)
  OBVIOUS
<1>3. CASE s \in ReceiptStudies
  <2>1. PICK c \in Comparisons, t \in [1..Cardinality(Strategies) -> Trial] : s = Study(t, c)
    BY <1>3 DEF ReceiptStudies
  <2> QED
    BY <1>1, <1>2, <2>1 DEF Study
<1>4. CASE s \in SeriesStudies
  <2>1. PICK t \in BoundedSeq(Trial, Cardinality(Strategies)) : s = Study(t, NoComparison)
    BY <1>4 DEF SeriesStudies
  <2>2. PICK m \in 0..Cardinality(Strategies) : t \in [1..m -> Trial]
    BY <2>1 DEF BoundedSeq, SeqOf
  <2> QED
    BY <1>1, <1>2, <2>1, <2>2 DEF Study
<1> QED
  BY <1>3, <1>4

LEMMA LabPreserves ==
  ASSUME \A p, q \in Procs : p = q
  PROVE  LabInv /\ [LabNext]_<<vars, labVars>> => LabInv'
<1> SUFFICES ASSUME LabInv, [LabNext]_<<vars, labVars>> PROVE LabInv'
  OBVIOUS
<1>1. UseInv' /\ [Next]_vars
  BY LabStep, UseStep DEF LabInv
<1>2. \A t \in Trial : Retained(t) => Retained(t)'
  BY <1>1, RetainedForGood DEF LabInv, UseInv
<1>3. \A t \in judged : Retained(t)
  BY DEF LabInv, TrialsRetained, Retained
<1>4. judged' = judged => judged' \subseteq Trial /\ TrialsRetained'
  BY <1>2, <1>3 DEF LabInv, TrialsRetained, Retained
<1>5. CASE UNCHANGED <<vars, labVars>>
  <2>1. StudyOK'
    BY <1>5 DEF LabInv, StudyOK, Retained, Committed, vars, labVars
  <2> QED
    BY <1>1, <1>4, <1>5, <2>1 DEF LabInv, labVars
<1>6. CASE LabNext
  <2>1. PICK p \in Procs : \/ Evaluate(p) \/ AppendNext(p) \/ AppendReturns(p)
                           \/ Judge(p) \/ LabCrash(p) \/ Elsewhere(p)
    BY <1>6 DEF LabNext
  <2>2. /\ StudyOK /\ PendingOK /\ pc \in [Procs -> Locations] /\ call \in [Procs -> Calls]
        /\ outcome \in [Procs -> Outcomes] /\ \A q \in Procs : q = p
    BY DEF LabInv, UseInv, IInv, TypeOK
  <2>3. CASE Evaluate(p)
    <3>1. /\ pc[p] = "idle" /\ pc' = pc
          /\ judged' = judged
      BY <2>3 DEF Evaluate, Ready, vars
    <3>2. study'.items \in Seq(Trial) /\ study'.next = 1 /\ study'.phase = "appending"
      BY <2>3, StudiesAreSequences DEF Evaluate
    <3>3. StudyOK'
      BY <2>2, <3>1, <3>2 DEF StudyOK
    <3> QED
      BY <1>1, <1>4, <3>1, <3>3 DEF LabInv
  <2>4. CASE AppendNext(p)
    <3>1. /\ study' = study /\ judged' = judged /\ pc'[p] = "chain"
          /\ study.next <= Len(study.items) /\ call'[p].job = "append"
          /\ call'[p].id = study.items[study.next].id
          /\ call'[p].body = study.items[study.next].body
      BY <2>2, <2>4 DEF AppendNext, Call, Goto, labVars
    <3>2. \A n \in DOMAIN study.items : Retained(study.items[n]) => Retained(study.items[n])'
      BY <1>2, <2>2, <3>1 DEF StudyOK
    <3>3. StudyOK'
      BY <2>2, <3>1, <3>2 DEF StudyOK
    <3> QED
      BY <1>1, <1>4, <3>1, <3>3 DEF LabInv
  <2>5. CASE AppendReturns(p)
    <3>1. /\ judged' = judged /\ study.phase = "appending" /\ pc[p] = "return"
          /\ call[p].job = "append" /\ pc'[p] = "idle"
      BY <2>2, <2>5 DEF AppendReturns, Return, Goto
    <3>2. CASE outcome[p] = "stored"
      <4>1. study' = [study EXCEPT !.next = @ + 1]
        BY <2>5, <3>2 DEF AppendReturns
      <4>2. study.next \in DOMAIN study.items => Retained(study.items[study.next])
        BY <2>2, <3>1, <3>2 DEF LabInv, UseInv, Appended, StudyOK, Retained
      <4>3. /\ study'.items = study.items /\ study'.phase = study.phase
            /\ study'.next = study.next + 1
        BY <3>1, <4>1 DEF StudyOK
      <4>4. \A n \in DOMAIN study.items :
              n < study.next + 1 => Retained(study.items[n])'
        BY <1>2, <2>2, <3>1, <4>2, <4>3 DEF StudyOK
      <4>5. StudyOK'
        BY <2>2, <3>1, <4>3, <4>4 DEF StudyOK
      <4> QED
        BY <1>1, <1>4, <3>1, <4>5 DEF LabInv
    <3>3. CASE outcome[p] # "stored"
      <4>1. study' = Idle
        BY <2>5, <3>3 DEF AppendReturns
      <4>2. StudyOK'
        BY <4>1 DEF StudyOK, Idle
      <4> QED
        BY <1>1, <1>4, <3>1, <4>2 DEF LabInv
    <3> QED
      BY <3>2, <3>3
  <2>6. CASE Judge(p)
    <3>1. /\ study.phase = "appending" /\ study.next > Len(study.items)
          /\ judged' = judged \union ToSet(study.items)
          /\ \E verdict \in {"eligible", "rejected", "refused"} :
               study' = [study EXCEPT !.phase = verdict]
      BY <2>6 DEF Judge
    <3>2. \A t \in ToSet(study.items) : t \in Trial /\ Retained(t)
      BY <2>2, <3>1 DEF StudyOK, ToSet
    <3>3. judged' \subseteq Trial /\ TrialsRetained'
      <4>1. judged \subseteq Trial
        BY DEF LabInv
      <4>2. \A t \in judged' : t \in Trial /\ Retained(t)
        BY <1>3, <3>1, <3>2, <4>1
      <4> QED
        BY <1>2, <4>2 DEF TrialsRetained, Retained
    <3>4. study'.items = study.items /\ study'.phase # "appending"
      BY <3>1
    <3>5. StudyOK'
      BY <2>2, <3>4 DEF StudyOK
    <3> QED
      BY <1>1, <3>3, <3>5 DEF LabInv
  <2>7. CASE LabCrash(p)
    <3>1. study' = Idle /\ judged' = judged
      BY <2>7 DEF LabCrash
    <3>2. StudyOK'
      BY <3>1 DEF StudyOK, Idle
    <3> QED
      BY <1>1, <1>4, <3>1, <3>2 DEF LabInv
  <2>8. CASE Elsewhere(p)
    <3>1. study' = study /\ judged' = judged
      BY <2>8 DEF Elsewhere, labVars
    <3>2. study.phase = "appending" =>
            \/ pc'[p] = "idle" /\ pc[p] = "idle"
            \/ pc'[p] \notin {"closed", "rows"} /\ pc[p] # "idle" /\ call'[p] = call[p]
      <4>1. CASE Open(p)
        BY <2>2, <4>1 DEF Open, StudyOK
      <4>2. CASE Ready(p) /\ Call(p)
        BY <4>2 DEF Ready
      <4>3. CASE Step(p) /\ (pc[p] = "return" => study.phase # "appending")
        BY <2>2, <4>3 DEF Step, ReadRows, ReadChain, CountRecords, LookupHits, LookupMisses,
             ReadPrevious, ReadSequence, Insert, InsertRejected, Commit, Busy, Return,
             Goto, EndWith, StudyOK
      <4> QED
        BY <2>8, <4>1, <4>2, <4>3 DEF Elsewhere
    <3>3. \A n \in DOMAIN study.items : Retained(study.items[n]) => Retained(study.items[n])'
      BY <1>2, <2>2, <3>1 DEF StudyOK
    <3>4. StudyOK'
      BY <2>2, <3>1, <3>2, <3>3 DEF StudyOK
    <3> QED
      BY <1>1, <1>4, <3>1, <3>4 DEF LabInv
  <2> QED
    BY <2>1, <2>3, <2>4, <2>5, <2>6, <2>7, <2>8
<1> QED
  BY <1>5, <1>6
(* A trial that took part in a judgement is in the ledger and committed to *)
(* for good, through failed appends, crashes and restarts of the process   *)
(* (evaluate_predeclared_strategies).                                      *)
THEOREM JudgedTrialsAreRetained ==
  ASSUME \A p, q \in Procs : p = q
  PROVE  LabSpec => []TrialsRetained
<1>1. LabInv => TrialsRetained
  BY DEF LabInv
<1> QED
  BY <1>1, LabInitEstablishes, LabPreserves, PTL DEF LabSpec

-----------------------------------------------------------------------------
(***************************************************************************)
(* What the gates on the receipts let through: out of sample, and on equal *)
(* terms.  A comparison is Bindable when its evaluation begins, and does   *)
(* not change after.                                                       *)
(***************************************************************************)
LEMMA LeastOf ==
  ASSUME NEW T \in SUBSET Nat, T # {}
  PROVE  Min(T) \in T /\ \A n \in T : Min(T) <= n
<1>1. \E n \in T : \A m \in T : n <= m
  BY LeastNumber
<1> QED
  BY <1>1 DEF Min

(* The observations of a row are numbered from 0. *)
LEMMA SampleDomain ==
  ASSUME NEW c \in Comparisons, WellDeclared(c), NEW s \in Strategies
  PROVE  /\ ObservationCount(c, s) \in Nat \ {0}
         /\ DOMAIN Sample(c, s) = 0..(ObservationCount(c, s) - 1)
         /\ Size(Sample(c, s)) = ObservationCount(c, s)
         /\ DOMAIN c.rows[s].runs = 1..(ObservationCount(c, s) + 1)
<1>1. Len(c.rows[s].runs) \in Nat /\ DOMAIN c.rows[s].runs = 1..Len(c.rows[s].runs)
  BY ComparisonsAssumption DEF WellDeclared
<1>2. ObservationCount(c, s) \in Nat \ {0}
  <2> DEFINE n == Len(c.rows[s].runs)
  <2>1. n \in Nat /\ n - 1 >= 1
    BY <1>1 DEF WellDeclared, ObservationCount
  <2> HIDE DEF n
  <2>2. n - 1 \in Nat \ {0}
    BY <2>1
  <2> QED
    BY <2>2 DEF ObservationCount, n
<1>3. DOMAIN Sample(c, s) = 0..(ObservationCount(c, s) - 1)
  BY DEF Sample
<1>4. Cardinality(0..(ObservationCount(c, s) - 1)) = ObservationCount(c, s)
  BY <1>2, FS_Interval
<1> QED
  BY <1>1, <1>2, <1>3, <1>4 DEF Size, ObservationCount

(* A test block holds observations of the sample, whatever the division    *)
(* leaves for the last one.                                                *)
LEMMA BlockInSample ==
  ASSUME NEW n \in Nat, NEW m \in Int, NEW splits, WalkForwardFits(n, splits, m),
         NEW k \in 0..(splits - 1)
  PROVE  Block(n, splits, m, k) \subseteq 0..(n - 1)
<1> DEFINE size == (n - m) \div splits
           start == m + k * size
<1>1. splits \in Nat \ {0} /\ m \in Nat /\ n - m \in Nat
  BY DEF WalkForwardFits
<1>2. size \in Nat
  BY <1>1, Quotient
<1> HIDE DEF size
<1>3. k * size \in Nat
  BY <1>1, <1>2
<1>4. start \in Nat /\ start + size \in Nat
  BY <1>1, <1>2, <1>3
<1> HIDE DEF start
<1>5. Min({n, start + size}) \in Nat /\ Min({n, start + size}) <= n
  BY <1>4, LeastOf
<1> QED
  BY <1>1, <1>4, <1>5 DEF Block, size, start

(* An observation a walk-forward fold tests belongs to the sample, is not  *)
(* locked, and is predicted after every label the fold was trained on.     *)
LEMMA WalkForwardIsHonest ==
  ASSUME NEW sample, NEW n \in Nat, DOMAIN sample = 0..(n - 1), Size(sample) = n,
         \A i \in DOMAIN sample : sample[i].prediction \in Int /\ sample[i].label \in Int,
         NEW splits, NEW m \in Int, NEW embargo, NEW holdout,
         NEW f \in IntervalWalkForward(sample, splits, m, embargo, holdout),
         NEW i \in f.test
  PROVE  /\ i \in DOMAIN sample \ holdout
         /\ \A j \in f.train : j \notin holdout /\ sample[j].label < sample[i].prediction
<1> DEFINE block(k) == Block(Size(sample), splits, m, k)
           test(k)  == block(k) \ holdout
           train(k) == {j \in (0..(Min(block(k)) - 1)) \ holdout :
                          TrainsBefore(sample, j, Min(test(k)), embargo)}
<1>1. WalkForwardFits(n, splits, m) /\ WellTimed(sample)
  BY DEF IntervalWalkForward
<1>2. PICK k \in 0..(splits - 1) : f = Fold(train(k), test(k))
  BY DEF IntervalWalkForward, AllUsable
<1>3. f.train = train(k) /\ f.test = test(k)
  BY <1>2 DEF Fold
<1>4. block(k) \subseteq 0..(n - 1)
  BY <1>1, BlockInSample
<1>5. test(k) \in SUBSET Nat /\ test(k) # {} /\ i \in test(k)
  BY <1>3, <1>4
<1>6. Min(test(k)) \in test(k) /\ Min(test(k)) <= i
  BY <1>5, LeastOf
<1>7. i \in DOMAIN sample /\ i \notin holdout /\ Min(test(k)) \in DOMAIN sample
  BY <1>4, <1>5, <1>6
<1>8. sample[Min(test(k))].prediction <= sample[i].prediction
  <2> DEFINE a == Min(test(k))
  <2>1. a \in DOMAIN sample /\ a <= i
    BY <1>6, <1>7
  <2> HIDE DEF a
  <2>2. sample[a].prediction <= sample[i].prediction
    BY <1>1, <1>7, <2>1 DEF WellTimed
  <2> QED
    BY <2>2 DEF a
<1>9. ASSUME NEW j \in f.train
      PROVE  j \notin holdout /\ sample[j].label < sample[i].prediction
  <2>1. j \in train(k)
    BY <1>3, <1>9
  <2>2. j \in 0..(Min(block(k)) - 1) /\ j \notin holdout
        /\ sample[j].label < sample[Min(test(k))].prediction
    BY <2>1 DEF TrainsBefore
  <2>3. j \in DOMAIN sample
    <3>1. i \in block(k) /\ block(k) \in SUBSET Nat
      BY <1>4, <1>5
    <3>2. Min(block(k)) \in block(k)
      BY <3>1, LeastOf
    <3> QED
      BY <1>4, <2>2, <3>2
  <2> QED
    BY <1>7, <1>8, <2>2, <2>3
<1> QED
  BY <1>7, <1>9
(* A comparison that is bindable is out of sample. *)
LEMMA BindableIsOutOfSample ==
  ASSUME NEW c \in Comparisons, Bindable(c), NEW i \in MetricIndices(c)
  PROVE  /\ i \in DOMAIN Reference(c) /\ i \notin c.holdout
         /\ Reference(c)[i].label <= c.evaluated
         /\ \E f \in WalkForwardFolds(c) :
              /\ i \in f.test
              /\ \A j \in f.train :
                   j \notin c.holdout /\ Reference(c)[j].label < Reference(c)[i].prediction
<1>1. Aligned(c) /\ Resolves(c) /\ WellDeclared(c)
  BY DEF Bindable, Aligned, Resolves
<1>2. PICK s \in Strategies : Reference(c) = Sample(c, s)
  BY StrategiesAssumption DEF Reference
<1>3. PICK n \in Nat : DOMAIN Reference(c) = 0..(n - 1) /\ Size(Reference(c)) = n
  BY <1>1, <1>2, SampleDomain
<1>4. \A j \in DOMAIN Reference(c) :
        /\ Reference(c)[j].prediction \in Int /\ Reference(c)[j].label \in Int
        /\ Reference(c)[j].label <= c.evaluated
  <2> TAKE j \in DOMAIN Reference(c)
  <2>1. Reference(c)[j] = Interval(c, s, j) /\ j \in 0..(ObservationCount(c, s) - 1)
    BY <1>2 DEF Sample
  <2>2. j + 1 \in DOMAIN c.rows[s].runs /\ j + 2 \in DOMAIN c.rows[s].runs
    BY <1>1, <2>1, SampleDomain
  <2>3. RunsOf(c, s) \subseteq DOMAIN Receipt
    BY <1>1 DEF Resolves, Derivable
  <2>4. c.rows[s].runs[j + 1] \in DOMAIN Receipt /\ c.rows[s].runs[j + 2] \in DOMAIN Receipt
    BY <2>2, <2>3 DEF RunsOf, ToSet
  <2>5. Prediction(c, s, j).cutoff \in Int /\ Label(c, s, j).cutoff \in Int
    BY <2>4, ReceiptAssumption DEF Prediction, Label
  <2>6. Label(c, s, j).cutoff <= c.evaluated
    BY <1>1, <1>2 DEF Resolves
  <2> QED
    BY <2>1, <2>5, <2>6 DEF Interval
<1>5. PICK f \in WalkForwardFolds(c) : i \in f.test
  BY DEF MetricIndices
<1>6. /\ i \in DOMAIN Reference(c) \ c.holdout
      /\ \A j \in f.train :
           j \notin c.holdout /\ Reference(c)[j].label < Reference(c)[i].prediction
  <2> DEFINE r == Reference(c)
  <2>1. f \in IntervalWalkForward(r, c.splits, c.minimumTrain, c.embargo, c.holdout)
    BY <1>5 DEF WalkForwardFolds
  <2>2. c.minimumTrain \in Int
    BY ComparisonsAssumption
  <2>3. /\ DOMAIN r = 0..(n - 1) /\ Size(r) = n
        /\ \A j \in DOMAIN r : r[j].prediction \in Int /\ r[j].label \in Int
    BY <1>3, <1>4
  <2> HIDE DEF r
  <2>4. /\ i \in DOMAIN r \ c.holdout
        /\ \A j \in f.train : j \notin c.holdout /\ r[j].label < r[i].prediction
    BY <1>5, <2>1, <2>2, <2>3, WalkForwardIsHonest
  <2> QED
    BY <2>4 DEF r
<1> QED
  BY <1>4, <1>5, <1>6

(* A comparison that is bindable is on equal terms. *)
LEMMA RunsCountOnce ==
  ASSUME NEW c \in Comparisons, Bindable(c), NEW s \in Strategies, NEW t \in Strategies,
         NEW m \in DOMAIN c.rows[s].runs, NEW n \in DOMAIN c.rows[t].runs,
         c.rows[s].runs[m] = c.rows[t].runs[n]
  PROVE  s = t /\ m = n
<1>1. Resolves(c) /\ WellDeclared(c)
  BY DEF Bindable, Aligned, Resolves
<1>2. s = t
  <2>1. c.rows[s].runs[m] \in RunsOf(c, s) /\ c.rows[t].runs[n] \in RunsOf(c, t)
    BY DEF RunsOf, ToSet
  <2> QED
    BY <1>1, <2>1 DEF Resolves
<1>3. m = n
  BY <1>1, <1>2 DEF WellDeclared, IsInjective
<1> QED
  BY <1>2, <1>3

LEMMA OneValue ==
  ASSUME NEW T, NEW f, NEW a \in T, \A s \in T : f[s] = f[a]
  PROVE  Cardinality({f[s] : s \in T}) = 1
<1>1. {f[s] : s \in T} = {f[a]}
  OBVIOUS
<1> QED
  BY <1>1, FS_Singleton

LEMMA BindableIsEqual ==
  ASSUME NEW c \in Comparisons, Bindable(c)
  PROVE  /\ Cardinality({Terms[c.rows[s].mandate] : s \in Strategies}) = 1
         /\ \A i \in MetricIndices(c) :
              Cardinality({LET r == Prediction(c, s, i) IN <<r.cutoff, r.snapshot, r.bundle>> :
                             s \in Strategies}) = 1
<1>1. Aligned(c)
  BY DEF Bindable
<1>2. PICK a : a \in Strategies
  BY StrategiesAssumption
<1>3. Cardinality({Terms[c.rows[s].mandate] : s \in Strategies}) = 1
  <2> DEFINE f == [s \in Strategies |-> Terms[c.rows[s].mandate]]
  <2>1. \A s \in Strategies : f[s] = f[a]
    BY <1>1, <1>2 DEF Aligned, TermsOf
  <2>2. {Terms[c.rows[s].mandate] : s \in Strategies} = {f[s] : s \in Strategies}
    OBVIOUS
  <2> HIDE DEF f
  <2>3. Cardinality({f[s] : s \in Strategies}) = 1
    BY <1>2, <2>1, OneValue
  <2> QED
    BY <2>2, <2>3
<1>4. ASSUME NEW i \in MetricIndices(c)
      PROVE  Cardinality({LET r == Prediction(c, s, i) IN <<r.cutoff, r.snapshot, r.bundle>> :
                            s \in Strategies}) = 1
  <2> DEFINE seen(s) == LET r == Prediction(c, s, i) IN <<r.cutoff, r.snapshot, r.bundle>>
             f == [s \in Strategies |-> seen(s)]
  <2>1. i \in DOMAIN Reference(c)
    BY <1>4, BindableIsOutOfSample
  <2>2. \A s \in Strategies : i \in DOMAIN Sample(c, s) /\ Sample(c, s) = Sample(c, a)
    BY <1>1, <1>2, <2>1, StrategiesAssumption DEF Reference, Aligned, SameWorld
  <2>3. \A s \in Strategies :
          /\ Prediction(c, s, i).snapshot = Prediction(c, a, i).snapshot
          /\ Prediction(c, s, i).bundle = Prediction(c, a, i).bundle
    BY <1>1, <1>2, <2>2 DEF Aligned, SameWorld
  <2>4. \A s \in Strategies : Prediction(c, s, i).cutoff = Prediction(c, a, i).cutoff
    <3> TAKE s \in Strategies
    <3>1. Sample(c, s)[i] = Interval(c, s, i) /\ Sample(c, a)[i] = Interval(c, a, i)
      BY <1>2, <2>2 DEF Sample
    <3> QED
      BY <2>2, <3>1 DEF Interval
  <2>5. \A s \in Strategies : f[s] = f[a]
    BY <1>2, <2>3, <2>4
  <2>6. {seen(s) : s \in Strategies} = {f[s] : s \in Strategies}
    OBVIOUS
  <2> HIDE DEF f
  <2>7. Cardinality({f[s] : s \in Strategies}) = 1
    BY <1>2, <2>5, OneValue
  <2> QED
    BY <2>6, <2>7
<1> QED
  BY <1>3, <1>4

ComparisonOK == Governed => study.comparison \in Comparisons /\ Bindable(study.comparison)

LEMMA ComparisonInit == LabInit => ComparisonOK
BY DEF LabInit, ComparisonOK, Governed, Idle

LEMMA ComparisonStep == ComparisonOK /\ [LabNext]_<<vars, labVars>> => ComparisonOK'
<1> SUFFICES ASSUME ComparisonOK, [LabNext]_<<vars, labVars>> PROVE ComparisonOK'
  OBVIOUS
<1>1. CASE study'.comparison = study.comparison
  BY <1>1 DEF ComparisonOK, Governed
<1>2. CASE study' = Idle
  BY <1>2 DEF ComparisonOK, Governed, Idle
<1>3. CASE study' \in ReceiptStudies \union SeriesStudies
  <2>1. ASSUME NEW s \in ReceiptStudies
        PROVE  s.comparison \in Comparisons /\ Bindable(s.comparison)
    <3>1. PICK c \in {d \in Comparisons : Bindable(d)} :
            \E t \in [1..Cardinality(Strategies) -> Trial] : s = Study(t, c)
      BY <2>1 DEF ReceiptStudies
    <3> QED
      BY <3>1 DEF Study
  <2>2. ASSUME NEW s \in SeriesStudies PROVE s.comparison = NoComparison
    BY <2>2 DEF SeriesStudies, Study
  <2> QED
    BY <1>3, <2>1, <2>2 DEF ComparisonOK, Governed
<1>4. \/ study'.comparison = study.comparison
      \/ study' = Idle
      \/ study' \in ReceiptStudies \union SeriesStudies
  <2>1. CASE UNCHANGED <<vars, labVars>>
    BY <2>1 DEF labVars
  <2>2. CASE LabNext
    <3>1. PICK p \in Procs : \/ Evaluate(p) \/ AppendNext(p) \/ AppendReturns(p)
                             \/ Judge(p) \/ LabCrash(p) \/ Elsewhere(p)
      BY <2>2 DEF LabNext
    <3>2. CASE Evaluate(p) \/ AppendNext(p) \/ LabCrash(p) \/ Elsewhere(p)
      BY <3>2 DEF Evaluate, AppendNext, LabCrash, Elsewhere, labVars
    <3>3. CASE AppendReturns(p)
      BY <3>3 DEF AppendReturns
    <3>4. CASE Judge(p)
      BY <3>4 DEF Judge
    <3> QED
      BY <3>1, <3>2, <3>3, <3>4
  <2> QED
    BY <2>1, <2>2
<1> QED
  BY <1>1, <1>2, <1>3, <1>4

(* Before any trial is appended for it: each observation of a comparison   *)
(* was tested by a fold trained only on labels known before, none is       *)
(* locked, and every label was known when it was evaluated, whatever the   *)
(* receipts and the parameters of the folds (evaluate_receipt_comparison). *)
THEOREM EvidenceIsOutOfSample == LabSpec => []OutOfSample
<1>1. ComparisonOK => OutOfSample
  <2> SUFFICES ASSUME ComparisonOK, Governed, NEW i \in MetricIndices(study.comparison)
               PROVE  LET c == study.comparison
                      IN  /\ i \notin c.holdout
                          /\ Reference(c)[i].label <= c.evaluated
                          /\ \E f \in WalkForwardFolds(c) :
                               /\ i \in f.test
                               /\ \A j \in f.train :
                                    /\ j \notin c.holdout
                                    /\ Reference(c)[j].label < Reference(c)[i].prediction
    BY DEF OutOfSample, CommonSample
  <2> QED
    BY BindableIsOutOfSample DEF ComparisonOK
<1> QED
  BY <1>1, ComparisonInit, ComparisonStep, PTL DEF LabSpec

(* The strategies of a comparison saw the same data at the same times      *)
(* under the same terms, and no run counts twice, for any strategies,      *)
(* receipts and mandates (evaluate_receipt_comparison).                    *)
THEOREM StrategiesAreOnEqualTerms == LabSpec => []EqualTerms
<1>1. ComparisonOK => EqualTerms
  <2>0. ~Governed => EqualTerms
    BY Zenon DEF EqualTerms
  <2> SUFFICES ASSUME ComparisonOK, Governed PROVE EqualTerms
    BY <2>0
  <2>1. PICK c \in Comparisons : c = study.comparison /\ Bindable(c)
    BY DEF ComparisonOK
  <2>3. \A s, t \in Strategies :
          \A m \in DOMAIN c.rows[s].runs, n \in DOMAIN c.rows[t].runs :
            c.rows[s].runs[m] = c.rows[t].runs[n] => s = t /\ m = n
    BY <2>1, RunsCountOnce
  <2>4. /\ Cardinality({Terms[c.rows[s].mandate] : s \in Strategies}) = 1
        /\ \A i \in CommonSample(c).metric :
             Cardinality({LET r == Prediction(c, s, i) IN <<r.cutoff, r.snapshot, r.bundle>> :
                            s \in Strategies}) = 1
    BY <2>1, BindableIsEqual DEF CommonSample
  <2> QED
    BY <2>1, <2>3, <2>4 DEF EqualTerms
<1> QED
  BY <1>1, ComparisonInit, ComparisonStep, PTL DEF LabSpec

-----------------------------------------------------------------------------
(***************************************************************************)
(* The splits of validation.py by themselves, for every sample.            *)
(***************************************************************************)
LEMMA LesserOf ==
  ASSUME NEW a \in Nat, NEW b \in Nat, a <= b
  PROVE  Min({a, b}) = a /\ Min({b, a}) = a
<1>1. {b, a} = {a, b} /\ {a, b} \in SUBSET Nat /\ {a, b} # {}
  OBVIOUS
<1>2. Min({a, b}) \in {a, b} /\ \A n \in {a, b} : Min({a, b}) <= n
  BY <1>1, LeastOf
<1> QED
  BY <1>1, <1>2

(* Every block but the last has "size" observations, and begins where the  *)
(* one before it ends.                                                     *)
LEMMA BlockIs ==
  ASSUME NEW n \in Nat, NEW m \in Int, NEW splits, WalkForwardFits(n, splits, m),
         NEW k \in 0..(splits - 1), NEW size, size = (n - m) \div splits
  PROVE  /\ size \in Nat \ {0} /\ k * size \in Nat /\ m + k * size + size <= n
         /\ Block(n, splits, m, k) =
              (m + k * size) .. ((IF k = splits - 1 THEN n ELSE m + k * size + size) - 1)
<1>1. splits \in Nat \ {0} /\ m \in Nat \ {0} /\ n - m \in Nat /\ splits <= n - m
  BY DEF WalkForwardFits
<1>2. /\ size \in Int /\ splits * size \in Int
      /\ splits * size <= n - m /\ n - m < splits * size + splits
  BY <1>1, QuotientBounds
<1>3. size >= 1
  <2>1. splits * 0 = 0 /\ splits * (size + 1) = splits * size + splits
    BY <1>1, <1>2
  <2>2. splits * 1 < splits * (size + 1)
    BY <1>1, <1>2, <2>1
  <2>3. 1 < size + 1
    BY <1>1, <1>2, <2>2, TimesCancelStrictly
  <2> QED
    BY <1>2, <2>3
<1>4. size \in Nat \ {0}
  BY <1>2, <1>3
<1>5. k * size \in Nat /\ (k + 1) * size = k * size + size
  BY <1>1, <1>4
<1>6. (k + 1) * size <= splits * size
  <2>1. k + 1 \in Int /\ k + 1 <= splits
    BY <1>1
  <2> QED
    BY <1>1, <1>4, <2>1, TimesMonotone
<1>7. m + k * size + size <= n
  BY <1>1, <1>2, <1>4, <1>5, <1>6
<1> DEFINE end == m + k * size + size
<1>8. end \in Nat /\ end <= n
  BY <1>1, <1>4, <1>5, <1>7
<1>9. Min({n, (m + k * size) + size}) = end
  <2>1. (m + k * size) + size = end
    OBVIOUS
  <2> HIDE DEF end
  <2> QED
    BY <1>8, <2>1, LesserOf
<1>10. Block(n, splits, m, k) =
         (m + k * size) .. ((IF k = splits - 1 THEN n ELSE Min({n, (m + k * size) + size})) - 1)
  BY DEF Block
<1> QED
  BY <1>4, <1>5, <1>7, <1>9, <1>10

(* The test blocks of a walk-forward divide the observations after the     *)
(* first "minimum_train": each is tested in one fold and in no other, with *)
(* whatever the division leaves in the last.                               *)
THEOREM TestedExactlyOnce ==
  ASSUME NEW n \in Nat, NEW m \in Int, NEW splits, WalkForwardFits(n, splits, m)
  PROVE  /\ UNION {Block(n, splits, m, k) : k \in 0..(splits - 1)} = m..(n - 1)
         /\ \A k, l \in 0..(splits - 1) :
              k # l => Block(n, splits, m, k) \intersect Block(n, splits, m, l) = {}
<1> DEFINE size == (n - m) \div splits
<1>1. splits \in Nat \ {0} /\ m \in Nat \ {0} /\ n - m \in Nat
  BY DEF WalkForwardFits
<1>2. /\ size \in Nat \ {0}
      /\ \A k \in 0..(splits - 1) :
           /\ k * size \in Nat /\ m + k * size + size <= n
           /\ Block(n, splits, m, k) =
                (m + k * size) .. ((IF k = splits - 1 THEN n ELSE m + k * size + size) - 1)
  <2>1. 0 \in 0..(splits - 1)
    BY <1>1
  <2> QED
    BY <2>1, BlockIs
<1>3. size \in Int /\ size > 0
  BY <1>2
<1> HIDE DEF size
<1>4. ASSUME NEW i \in m..(n - 1)
      PROVE  \E k \in 0..(splits - 1) : i \in Block(n, splits, m, k)
  <2> DEFINE j == (i - m) \div size
  <2>1. /\ j \in Int /\ size * j \in Int
        /\ size * j <= i - m /\ i - m < size * j + size
    BY <1>1, <1>2, QuotientBounds
  <2> HIDE DEF j
  <2>2. j >= 0
    <3>1. size * 0 = 0 /\ size * (j + 1) = size * j + size /\ i - m >= 0
      BY <1>1, <1>2, <2>1
    <3>2. size * 0 < size * (j + 1)
      BY <1>1, <1>2, <2>1, <3>1
    <3>3. 0 < j + 1
      BY <1>2, <2>1, <3>2, TimesCancelStrictly
    <3> QED
      BY <2>1, <3>3
  <2>3. size * j = j * size
    BY <1>2, <2>1
  <2>4. CASE j < splits - 1
    <3>1. j \in 0..(splits - 1) /\ j # splits - 1
      BY <1>1, <2>1, <2>2, <2>4
    <3>2. Block(n, splits, m, j) = (m + j * size) .. (m + j * size + size - 1)
      BY <1>2, <3>1
    <3>3. j * size \in Int /\ m + j * size <= i /\ i <= m + j * size + size - 1
      BY <1>1, <1>2, <2>1, <2>3
    <3>4. i \in Block(n, splits, m, j)
      BY <1>1, <1>2, <3>2, <3>3
    <3> QED
      BY <3>1, <3>4
  <2>5. CASE j >= splits - 1
    <3>1. splits - 1 \in 0..(splits - 1)
      BY <1>1
    <3>2. (splits - 1) * size <= j * size
      BY <1>1, <1>2, <2>1, <2>5, TimesMonotone
    <3>3. (splits - 1) * size \in Nat
          /\ Block(n, splits, m, splits - 1) = (m + (splits - 1) * size) .. (n - 1)
      BY <1>2, <3>1
    <3>4. m + (splits - 1) * size <= i
      BY <1>1, <2>1, <2>3, <3>2, <3>3
    <3>5. i \in Block(n, splits, m, splits - 1)
      BY <1>1, <3>3, <3>4
    <3> QED
      BY <3>1, <3>5
  <2> QED
    BY <1>1, <2>1, <2>4, <2>5
<1>5. ASSUME NEW k \in 0..(splits - 1), NEW i \in Block(n, splits, m, k)
      PROVE  i \in m..(n - 1)
  <2>1. /\ k * size \in Nat /\ m + k * size + size <= n
        /\ Block(n, splits, m, k) =
             (m + k * size) .. ((IF k = splits - 1 THEN n ELSE m + k * size + size) - 1)
    BY <1>2
  <2>2. i \in Int /\ m + k * size <= i /\ (i < n \/ i < m + k * size + size)
    BY <1>1, <1>2, <2>1
  <2> QED
    BY <1>1, <1>3, <2>1, <2>2
<1>6. ASSUME NEW k \in 0..(splits - 1), NEW l \in 0..(splits - 1), k < l,
             NEW i \in Block(n, splits, m, k), i \in Block(n, splits, m, l)
      PROVE  FALSE
  <2>1. k # splits - 1 /\ k \in Int /\ l \in Int /\ k + 1 <= l
    BY <1>1, <1>6
  <2>2. i \in Int /\ i < m + k * size + size /\ i >= m + l * size
    BY <1>1, <1>2, <1>6, <2>1
  <2>3. (k + 1) * size <= l * size
    BY <1>2, <2>1, TimesMonotone
  <2>4. (k + 1) * size = k * size + size /\ k * size \in Int /\ l * size \in Int
    BY <1>2, <2>1
  <2>5. m + k * size + size <= m + l * size
    BY <1>1, <1>3, <2>3, <2>4
  <2> QED
    BY <1>1, <1>3, <2>2, <2>4, <2>5
<1>7. \A k, l \in 0..(splits - 1) :
        k # l => Block(n, splits, m, k) \intersect Block(n, splits, m, l) = {}
  <2> SUFFICES ASSUME NEW k \in 0..(splits - 1), NEW l \in 0..(splits - 1), k # l,
                      NEW i \in Block(n, splits, m, k), i \in Block(n, splits, m, l)
               PROVE  FALSE
    OBVIOUS
  <2>1. k < l \/ l < k
    BY <1>1
  <2> QED
    BY <1>6, <2>1
<1> QED
  BY <1>4, <1>5, <1>7

(* Where each group of an array_split begins.                              *)
LEMMA GroupsBegin ==
  ASSUME NEW n \in Nat, NEW groups \in Nat \ {0}, groups <= n
  PROVE  \E first :
           /\ \A h \in 0..groups : first[h] \in Nat
           /\ first[0] = 0 /\ first[groups] = n
           /\ \A h, l \in 0..groups : h <= l => first[h] <= first[l]
           /\ \A h \in 0..(groups - 1) : Group(n, groups, h) = first[h]..(first[h + 1] - 1)
<1>0. PICK first : first = [h \in 0..groups |-> h * (n \div groups) + Min({h, n % groups})]
  OBVIOUS
<1> DEFINE q == n \div groups
           r == n % groups
           extra(h) == Min({h, r})
<1>1. q \in Nat /\ r \in Nat /\ r < groups /\ groups * q \in Nat /\ n = groups * q + r
  OBVIOUS
<1>2. \A h \in 0..groups : first[h] = h * q + extra(h)
  BY <1>0
<1>3. \A h \in 0..(groups - 1) :
        h + 1 \in 0..groups /\ h \in 0..groups /\ Group(n, groups, h) = first[h]..(first[h + 1] - 1)
  <2> TAKE h \in 0..(groups - 1)
  <2>1. h + 1 \in 0..groups /\ h \in 0..groups
    OBVIOUS
  <2>2. first[h] = h * q + extra(h) /\ first[h + 1] = (h + 1) * q + extra(h + 1)
    BY <1>2, <2>1
  <2>3. Group(n, groups, h) = (h * q + extra(h))..(((h + 1) * q + extra(h + 1)) - 1)
    BY DEF Group
  <2> QED
    BY <2>1, <2>2, <2>3
<1> HIDE DEF q, r
<1>4. \A h \in Nat : extra(h) \in Nat /\ extra(h) <= h /\ extra(h) <= r
                     /\ (h <= r => extra(h) = h) /\ (r <= h => extra(h) = r)
  BY <1>1, LesserOf
<1> HIDE DEF extra
<1>5. \A h \in 0..groups : h \in Nat /\ h * q \in Nat
  BY <1>1
<1>6. \A h \in 0..groups : first[h] \in Nat
  <2> TAKE h \in 0..groups
  <2>1. h * q \in Nat /\ extra(h) \in Nat /\ first[h] = h * q + extra(h)
    BY <1>2, <1>4, <1>5
  <2> QED
    BY <2>1
<1>7. first[0] = 0
  <2>1. 0 \in 0..groups /\ 0 * q = 0 /\ extra(0) = 0
    BY <1>1, <1>4
  <2> QED
    BY <1>2, <2>1
<1>8. first[groups] = n
  <2>1. groups \in 0..groups /\ extra(groups) = r
    BY <1>1, <1>4
  <2> QED
    BY <1>1, <1>2, <2>1
<1>9. ASSUME NEW h \in 0..groups, NEW l \in 0..groups, h <= l
      PROVE  first[h] <= first[l]
  <2>1. h * q <= l * q
    BY <1>1, <1>9, TimesMonotone
  <2>2. extra(h) <= extra(l)
    BY <1>1, <1>4, <1>9
  <2>3. h * q \in Nat /\ l * q \in Nat /\ extra(h) \in Nat /\ extra(l) \in Nat
    BY <1>4, <1>5
  <2>4. first[h] = h * q + extra(h) /\ first[l] = l * q + extra(l)
    BY <1>2
  <2> QED
    BY <2>1, <2>2, <2>3, <2>4
<1> QED
  BY <1>3, <1>6, <1>7, <1>8, <1>9

(* An array_split puts every observation in one group and in no other.     *)
LEMMA GroupsDivide ==
  ASSUME NEW n \in Nat, NEW groups \in Nat \ {0}, groups <= n
  PROVE  /\ UNION {Group(n, groups, g) : g \in 0..(groups - 1)} = 0..(n - 1)
         /\ \A g, h \in 0..(groups - 1) :
              g # h => Group(n, groups, g) \intersect Group(n, groups, h) = {}
<1>1. PICK first :
      /\ \A h \in 0..groups : first[h] \in Nat
      /\ first[0] = 0 /\ first[groups] = n
      /\ \A h, l \in 0..groups : h <= l => first[h] <= first[l]
      /\ \A h \in 0..(groups - 1) : Group(n, groups, h) = first[h]..(first[h + 1] - 1)
  BY GroupsBegin
<1>2. \A h \in 0..(groups - 1) : h \in 0..groups /\ h + 1 \in 0..groups
  OBVIOUS
<1>3. ASSUME NEW i \in 0..(n - 1)
      PROVE  \E g \in 0..(groups - 1) : i \in Group(n, groups, g)
  <2> DEFINE begun == {h \in 0..(groups - 1) : first[h] <= i}
  <2>1. begun \in SUBSET Int /\ IsFiniteSet(begun)
    <3>1. IsFiniteSet(0..(groups - 1)) /\ begun \in SUBSET (0..(groups - 1))
          /\ begun \in SUBSET Int
      BY FS_Interval
    <3> HIDE DEF begun
    <3> QED
      BY <3>1, FS_Subset
  <2>2. 0 \in begun
    BY <1>1
  <2>3. PICK g \in begun : \A h \in begun : h <= g
    <3> HIDE DEF begun
    <3> QED
      BY <2>1, <2>2, GreatestNumber
  <2>4. g + 1 \in 0..groups /\ first[g + 1] \in Nat /\ first[g] \in Nat
    BY <1>1, <1>2
  <2>5. i < first[g + 1]
    <3>1. CASE g + 1 = groups
      BY <1>1, <3>1
    <3>2. CASE g + 1 # groups
      <4>1. g + 1 \in 0..(groups - 1) /\ g + 1 \notin begun
        BY <2>3, <2>4, <3>2
      <4> QED
        BY <2>4, <4>1
    <3> QED
      BY <3>1, <3>2
  <2>6. i \in Group(n, groups, g)
    BY <1>1, <2>3, <2>4, <2>5
  <2> QED
    BY <2>3, <2>6
<1>4. ASSUME NEW g \in 0..(groups - 1), NEW i \in Group(n, groups, g)
      PROVE  i \in 0..(n - 1)
  <2>1. /\ Group(n, groups, g) = first[g]..(first[g + 1] - 1)
        /\ first[g] \in Nat /\ first[g + 1] \in Nat /\ first[g + 1] <= n
    <3>1. g + 1 \in 0..groups /\ groups \in 0..groups /\ g + 1 <= groups
      BY <1>2
    <3> QED
      BY <1>1, <1>2, <3>1
  <2> QED
    BY <2>1
<1>5. ASSUME NEW g \in 0..(groups - 1), NEW h \in 0..(groups - 1), g < h
      PROVE  Group(n, groups, g) \intersect Group(n, groups, h) = {}
  <2>1. g + 1 \in 0..groups /\ h \in 0..groups /\ g + 1 <= h
    BY <1>2, <1>5
  <2>2. first[g + 1] <= first[h] /\ first[g + 1] \in Nat /\ first[h] \in Nat
    BY <1>1, <2>1
  <2>3. /\ Group(n, groups, g) = first[g]..(first[g + 1] - 1)
        /\ Group(n, groups, h) = first[h]..(first[h + 1] - 1)
        /\ first[g] \in Nat /\ first[h + 1] \in Nat
    BY <1>1, <1>2
  <2> QED
    BY <2>2, <2>3
<1>6. \A g, h \in 0..(groups - 1) :
        g # h => Group(n, groups, g) \intersect Group(n, groups, h) = {}
  <2> SUFFICES ASSUME NEW g \in 0..(groups - 1), NEW h \in 0..(groups - 1), g # h
               PROVE  Group(n, groups, g) \intersect Group(n, groups, h) = {}
    OBVIOUS
  <2>1. g < h \/ h < g
    OBVIOUS
  <2>2. Group(n, groups, g) \intersect Group(n, groups, h)
          = Group(n, groups, h) \intersect Group(n, groups, g)
    OBVIOUS
  <2> QED
    BY <1>5, <2>1, <2>2
<1> QED
  BY <1>3, <1>4, <1>6

(* A training observation is more than the purge and the embargo before    *)
(* every observation its fold tests, and neither is outside the sample     *)
(* (purged_walk_forward).                                                  *)
THEOREM GapIsKept ==
  ASSUME NEW n \in Nat, NEW m \in Int, NEW splits, NEW purge \in Nat, NEW embargo \in Nat,
         NEW f \in WalkForward(n, splits, m, purge, embargo)
  PROVE  /\ f.train # {} /\ f.train \subseteq 0..(n - 1)
         /\ f.test # {} /\ f.test \subseteq m..(n - 1)
         /\ \A i \in f.train, j \in f.test : i + purge + embargo < j
<1> DEFINE fold(k) == LET test == Block(n, splits, m, k)
                      IN  Fold({i \in 0..(n - 1) : i < Min(test) - purge - embargo}, test)
<1>1. /\ WalkForwardFits(n, splits, m) /\ f.train # {} /\ f.test # {}
      /\ \E k \in 0..(splits - 1) : f = fold(k)
  BY DEF WalkForward, AllUsable
<1>2. PICK k \in 0..(splits - 1) : f = fold(k)
  BY <1>1
<1> DEFINE test == Block(n, splits, m, k)
<1>3. f.test = test /\ f.train = {i \in 0..(n - 1) : i < Min(test) - purge - embargo}
  BY <1>2 DEF Fold
<1>4. test \subseteq m..(n - 1)
  BY <1>1, TestedExactlyOnce
<1>5. m \in Nat
  BY <1>1 DEF WalkForwardFits
<1> HIDE DEF test
<1>6. Min(test) \in Nat /\ \A j \in test : j \in Int /\ Min(test) <= j
  BY <1>1, <1>3, <1>4, <1>5, LeastOf
<1>7. ASSUME NEW i \in f.train, NEW j \in f.test PROVE i + purge + embargo < j
  <2>1. i \in Int /\ i < Min(test) - purge - embargo /\ j \in Int /\ Min(test) <= j
    BY <1>3, <1>6
  <2> QED
    BY <1>6, <2>1
<1> QED
  BY <1>1, <1>3, <1>4, <1>7

(* "Increasing either buffer can only remove training observations"        *)
(* (purged_walk_forward): what is tested stays the same.                   *)
THEOREM BuffersOnlyRemove ==
  ASSUME NEW n \in Nat, NEW m \in Int, NEW splits,
         NEW purge \in Nat, NEW embargo \in Nat, NEW purge2 \in Nat, NEW embargo2 \in Nat,
         purge <= purge2, embargo <= embargo2,
         NEW f \in WalkForward(n, splits, m, purge2, embargo2)
  PROVE  \E g \in WalkForward(n, splits, m, purge, embargo) :
           g.test = f.test /\ f.train \subseteq g.train
<1> DEFINE test(k) == Block(n, splits, m, k)
           train(k) == {i \in 0..(n - 1) : i < Min(test(k)) - purge - embargo}
           less(k)  == {i \in 0..(n - 1) : i < Min(test(k)) - purge2 - embargo2}
<1>1. /\ WalkForwardFits(n, splits, m)
      /\ \A k \in 0..(splits - 1) : less(k) # {} /\ test(k) # {}
      /\ \E k \in 0..(splits - 1) : f = Fold(less(k), test(k))
  <2> DEFINE folds == {Fold(less(k), test(k)) : k \in 0..(splits - 1)}
  <2>1. WalkForwardFits(n, splits, m) /\ f \in AllUsable(folds)
    BY DEF WalkForward
  <2>2. f \in folds /\ \A g \in folds : g.train # {} /\ g.test # {}
    <3> HIDE DEF folds
    <3> QED
      BY <2>1 DEF AllUsable
  <2>3. \A k \in 0..(splits - 1) : less(k) # {} /\ test(k) # {}
    <3> TAKE k \in 0..(splits - 1)
    <3>1. Fold(less(k), test(k)) \in folds
      OBVIOUS
    <3> HIDE DEF folds, less, test
    <3> QED
      BY <2>2, <3>1 DEF Fold
  <2> HIDE DEF less, test
  <2> QED
    BY <2>1, <2>2, <2>3
<1>2. ASSUME NEW k \in 0..(splits - 1) PROVE less(k) \subseteq train(k)
  <2> DEFINE a == Min(test(k))
  <2>1. test(k) \in SUBSET Nat
    BY <1>1, BlockInSample
  <2>2. a \in Nat
    <3> HIDE DEF test
    <3> QED
      BY <1>1, <2>1, LeastOf
  <2> HIDE DEF a
  <2>3. \A i \in Int : i < a - purge2 - embargo2 => i < a - purge - embargo
    BY <2>2
  <2> QED
    BY <2>3 DEF a
<1>3. PICK k \in 0..(splits - 1) : f = Fold(less(k), test(k))
  BY <1>1
<1>4. \A l \in 0..(splits - 1) : train(l) # {}
  <2> HIDE DEF train, less, test
  <2> QED
    BY <1>1, <1>2
<1>5. WalkForward(n, splits, m, purge, embargo) = AllUsable({Fold(train(l), test(l)) : l \in 0..(splits - 1)})
  BY <1>1 DEF WalkForward
<1> HIDE DEF train, less, test
<1>6. AllUsable({Fold(train(l), test(l)) : l \in 0..(splits - 1)})
        = {Fold(train(l), test(l)) : l \in 0..(splits - 1)}
  BY <1>1, <1>4 DEF AllUsable, Fold
<1>7. Fold(train(k), test(k)) \in WalkForward(n, splits, m, purge, embargo)
  BY <1>5, <1>6
<1> QED
  BY <1>2, <1>3, <1>7 DEF Fold

(* The time from a prediction to the end of its label, both included.      *)
Overlap(a, b) == a.prediction <= b.label /\ b.prediction <= a.label

(* Samples the two functions on intervals are given.                       *)
Timed(sample, n) ==
  /\ DOMAIN sample = 0..(n - 1) /\ Size(sample) = n
  /\ \A i \in DOMAIN sample : sample[i].prediction \in Int /\ sample[i].label \in Int

(* "A candidate is purged if its label interval overlaps any test label    *)
(* interval", locked observations "may not touch a fold", and the embargo  *)
(* is a gap in time (interval_purged_walk_forward).                        *)
THEOREM IntervalFoldsDoNotOverlap ==
  ASSUME NEW n \in Nat, NEW sample, Timed(sample, n), NEW splits, NEW m \in Int,
         NEW embargo \in Nat, NEW holdout,
         NEW f \in IntervalWalkForward(sample, splits, m, embargo, holdout),
         NEW i \in f.train, NEW j \in f.test
  PROVE  /\ i \notin holdout /\ j \notin holdout /\ {i, j} \subseteq DOMAIN sample
         /\ i < j /\ ~Overlap(sample[i], sample[j])
         /\ sample[i].prediction + embargo < sample[j].prediction
<1> DEFINE block(k) == Block(Size(sample), splits, m, k)
           test(k)  == block(k) \ holdout
           train(k) == {l \in (0..(Min(block(k)) - 1)) \ holdout :
                          TrainsBefore(sample, l, Min(test(k)), embargo)}
<1>1. WalkForwardFits(n, splits, m) /\ WellTimed(sample)
  BY DEF IntervalWalkForward, Timed
<1>2. PICK k \in 0..(splits - 1) : f = Fold(train(k), test(k))
  BY DEF IntervalWalkForward, AllUsable
<1>3. f.train = train(k) /\ f.test = test(k)
  BY <1>2 DEF Fold
<1>4. block(k) \in SUBSET Nat /\ block(k) \subseteq 0..(n - 1) /\ test(k) \in SUBSET Nat
  BY <1>1, BlockInSample DEF Timed
<1>5. j \in test(k) /\ j \in block(k) /\ i \in train(k)
  BY <1>3
<1> DEFINE a == Min(test(k))
           b == Min(block(k))
<1>6. a \in test(k) /\ a <= j /\ b \in block(k) /\ b <= j
  <2> HIDE DEF block
  <2> QED
    BY <1>4, <1>5, LeastOf
<1>7. /\ i \in 0..(b - 1) /\ i \notin holdout
      /\ sample[i].prediction < sample[a].prediction - embargo
      /\ sample[i].label < sample[a].prediction
  BY <1>5 DEF TrainsBefore
<1>8. {i, j, a} \subseteq 0..(n - 1) /\ i < j /\ j \notin holdout
  BY <1>4, <1>5, <1>6, <1>7
<1> HIDE DEF a, b
<1>9. {i, j, a} \subseteq DOMAIN sample
  BY <1>8 DEF Timed
<1>10. sample[a].prediction <= sample[j].prediction
  <2>1. a = j \/ a < j
    BY <1>6, <1>8
  <2>2. a < j => sample[a].prediction < sample[j].prediction
    BY <1>1, <1>9 DEF WellTimed
  <2>3. sample[a].prediction \in Int /\ sample[j].prediction \in Int
    BY <1>9 DEF Timed
  <2> QED
    BY <2>1, <2>2, <2>3
<1>11. \A l \in {i, j, a} : sample[l].prediction \in Int /\ sample[l].label \in Int
  BY <1>9 DEF Timed
<1> QED
  BY <1>7, <1>8, <1>9, <1>10, <1>11 DEF Overlap

(* What is trained on and what is tested are different observations, of    *)
(* different groups, and no group that is trained on is one of the         *)
(* "embargo_groups" after a group that is tested                           *)
(* (combinatorial_purged_splits).                                          *)
THEOREM CombinationsAreApart ==
  ASSUME NEW n \in Nat, NEW groups \in Int, NEW testGroups \in Int, NEW embargoGroups \in Nat,
         NEW f \in CombinatorialSplits(n, groups, testGroups, embargoGroups)
  PROVE  /\ f.train \intersect f.test = {} /\ f.train \union f.test \subseteq 0..(n - 1)
         /\ \A g, h \in 0..(groups - 1) :
              Group(n, groups, g) \intersect f.test # {} /\ Group(n, groups, h) \intersect f.train # {}
                => ~(g <= h /\ h <= g + embargoGroups)
<1> DEFINE members(gs) == UNION {Group(n, groups, g) : g \in gs}
           all == 0..(groups - 1)
           excluded(gs) == gs \union {h \in all : \E g \in gs : h \in g..(g + embargoGroups)}
<1>1. /\ CombinationsFit(n, groups, testGroups)
      /\ \E gs \in SUBSET all : f = Fold(members(all \ excluded(gs)), members(gs))
  BY DEF CombinatorialSplits, kSubset
<1>2. groups \in Nat \ {0} /\ groups <= n
  BY <1>1 DEF CombinationsFit
<1>3. /\ UNION {Group(n, groups, g) : g \in all} = 0..(n - 1)
      /\ \A g, h \in all : g # h => Group(n, groups, g) \intersect Group(n, groups, h) = {}
  BY <1>2, GroupsDivide
<1>4. PICK gs \in SUBSET all : f = Fold(members(all \ excluded(gs)), members(gs))
  BY <1>1
<1>5. f.train = members(all \ excluded(gs)) /\ f.test = members(gs)
  BY <1>4 DEF Fold
<1>6. ASSUME NEW g \in all, Group(n, groups, g) \intersect f.test # {} PROVE g \in gs
  BY <1>3, <1>5, <1>6
<1>7. ASSUME NEW h \in all, Group(n, groups, h) \intersect f.train # {} PROVE h \notin excluded(gs)
  <2> HIDE DEF excluded
  <2> QED
    BY <1>3, <1>5, <1>7
<1>8. f.train \intersect f.test = {}
  <2> SUFFICES ASSUME NEW i \in f.train, i \in f.test PROVE FALSE
    OBVIOUS
  <2>1. PICK g \in gs : i \in Group(n, groups, g)
    BY <1>5
  <2>2. g \in all /\ g \notin excluded(gs)
    BY <1>7, <2>1
  <2> QED
    BY <2>1, <2>2
<1>9. f.train \union f.test \subseteq 0..(n - 1)
  <2> HIDE DEF excluded
  <2> QED
    BY <1>3, <1>5
<1>10. ASSUME NEW g \in all, NEW h \in all,
              Group(n, groups, g) \intersect f.test # {}, Group(n, groups, h) \intersect f.train # {}
       PROVE  ~(g <= h /\ h <= g + embargoGroups)
  BY <1>6, <1>7, <1>10
<1> QED
  BY <1>8, <1>9, <1>10

(* "Each training candidate is denied when its inclusive label interval    *)
(* intersects any test interval", nothing is trained on that starts within *)
(* the embargo after a test label, and locked observations are "excluded   *)
(* from every fold" (interval_combinatorial_purged_splits).                *)
THEOREM IntervalCombinationsDoNotOverlap ==
  ASSUME NEW n \in Nat, NEW sample, Timed(sample, n), NEW groups \in Int, NEW testGroups \in Int,
         NEW embargo \in Nat, NEW holdout,
         NEW f \in IntervalCombinatorialSplits(sample, groups, testGroups, embargo, holdout),
         NEW i \in f.train, NEW j \in f.test
  PROVE  /\ i \notin holdout /\ j \notin holdout /\ i # j /\ {i, j} \subseteq DOMAIN sample
         /\ ~Overlap(sample[i], sample[j])
         /\ ~(sample[j].label < sample[i].prediction
                /\ sample[i].prediction <= sample[j].label + embargo)
<1>1. CombinationsFit(n, groups, testGroups)
  BY DEF IntervalCombinatorialSplits, Timed
<1>2. PICK gs \in SUBSET (0..(groups - 1)) :
        f.test = (UNION {Group(n, groups, g) : g \in gs}) \ holdout
        /\ f.train = {l \in (DOMAIN sample \ holdout) \ f.test :
                        \A k \in f.test : TrainsApart(sample, l, k, embargo)}
  <2> DEFINE tests == {(UNION {Group(n, groups, g) : g \in gs}) \ holdout :
                         gs \in kSubset(testGroups, 0..(groups - 1))} \ {{}}
             train(test) == {l \in (DOMAIN sample \ holdout) \ test :
                               \A k \in test : TrainsApart(sample, l, k, embargo)}
  <2>1. f \in AllUsable({Fold(train(test), test) : test \in tests})
    BY DEF IntervalCombinatorialSplits, Timed
  <2>2. \A test \in tests : \E gs \in SUBSET (0..(groups - 1)) :
          test = (UNION {Group(n, groups, g) : g \in gs}) \ holdout
    BY DEF kSubset
  <2> HIDE DEF tests
  <2>3. PICK test \in tests : f = Fold(train(test), test)
    <3> HIDE DEF train
    <3> QED
      BY <2>1 DEF AllUsable
  <2>4. f.test = test /\ f.train = train(test)
    BY <2>3 DEF Fold
  <2> QED
    BY <2>2, <2>4
<1>3. groups \in Nat \ {0} /\ groups <= n
  BY <1>1 DEF CombinationsFit
<1>4. f.test \subseteq (0..(n - 1)) \ holdout
  <2>1. UNION {Group(n, groups, g) : g \in 0..(groups - 1)} = 0..(n - 1)
    BY <1>3, GroupsDivide
  <2> QED
    BY <1>2, <2>1
<1>5. i \in DOMAIN sample \ holdout /\ i # j /\ TrainsApart(sample, i, j, embargo)
  BY <1>2
<1>6. j \in DOMAIN sample \ holdout
  BY <1>4 DEF Timed
<1>7. \A l \in {i, j} : /\ sample[l].prediction \in Int /\ sample[l].label \in Int
                        /\ sample[l].prediction <= sample[l].label
  BY <1>5, <1>6 DEF Timed, IntervalCombinatorialSplits, WellTimed
<1> QED
  BY <1>5, <1>6, <1>7 DEF TrainsApart, Overlap
=============================================================================
