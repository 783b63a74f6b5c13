-------------------------- MODULE DataAccessProofs --------------------------
(***************************************************************************)
(* Proofs about DataAccess, for every number of callers and requests, all  *)
(* programs and all pages.                                                 *)
(***************************************************************************)
EXTENDS DataAccess, FiniteSetTheorems, TLAPS

\* The tables that the operations of p before the n-th add rows to.
Creates(p, n) ==
  {Target(p.ops[k].dao) : k \in {j \in DOMAIN p.ops : j < n /\ p.ops[j].kind \in {"create", "append"}}}

Tables(set) == {r.dao : r \in set}
By(set, c) == {r \in set : r.by = c}
OfTable(set, t) == {r \in set : r.dao = t}

RowType == [dao : Table, id : Nat \ {0}, by : Callers]

\* The rows of a table have numbers of their own, and none beyond their count:
\* the next number is free.
Numbered(set) ==
  /\ IsFiniteSet(set)
  /\ \A r \in set : r.id <= Cardinality(OfTable(set, r.dao))
  /\ \A r, q \in set : r.dao = q.dao /\ r.id = q.id => r = q

\* The types, the shared objects without a condition, the clones.
Typed ==
  /\ rows \subseteq RowType
  /\ shared = [d \in Dao |-> {}]
  /\ program \in [Callers -> Programs]
  /\ handle \in [Callers -> [Dao -> Callers \cup {NoOne}]]
  /\ at \in [Callers -> Nat]
  /\ \A c \in Callers : at[c] <= Failed(c)
  /\ \A c \in Callers : at[c] # 0 => \A d \in Dao : handle[c][d] = Home(c)
  /\ stmt \in [Callers -> Statement]
  /\ work \in [Callers -> SUBSET RowType]
  /\ lock \in Callers \cup {NoOne}
  /\ met \in [Callers -> Callers \cup {NoOne}]
  /\ page \in [Callers -> [size : Int, count : Int]]
  /\ DOMAIN seen = Callers

Statements ==
  \A c \in Callers : stmt[c] # None =>
    Running(c) /\ stmt[c].where = Op(c).where /\ stmt[c].pool = Home(c)

\* Only a transaction has the lock, and only who has the lock has work.
Locked ==
  /\ \A c \in Callers : lock = c => program[c].transaction
  /\ \A c \in Callers : work[c] # {} => lock = c
  /\ \A c \in Callers : \A r \in work[c] : r.by = c

Numbers ==
  /\ Numbered(rows)
  /\ \A c \in Callers : Numbered(rows \cup work[c])

\* Until its commit a transaction has no rows, and in its work what its
\* operations have written; from then on all its rows.
WholeOf(c) ==
  \/ /\ By(rows, c) = {}
     /\ at[c] <= Over(c) => Tables(work[c]) = Creates(program[c], at[c])
  \/ work[c] = {} /\ Over(c) <= at[c] /\ Tables(By(rows, c)) = Written(c)

Whole ==
  /\ \A c \in Callers : met[c] # c
  /\ \A c \in Callers : program[c].transaction => WholeOf(c)

\* Between the rows of a page and its count, the present number of messages is
\* among those seen; afterwards the count is.
PageAt(c, k) ==
  /\ program[c].ops[k].kind = "page"
  /\ page[c].size \in Nat
  /\ \/ at[c] = k /\ page[c].count = -1 /\ Messages(rows) \in seen[c]
     \/ k < at[c] /\ page[c].count \in Nat \cup {-1} /\ (at[c] <= Over(c) => page[c].count \in seen[c])

PageOf(c) == page[c] = NoPage \/ \E k \in DOMAIN program[c].ops : PageAt(c, k)

Pages == \A c \in Callers : PageOf(c)

HandlesInv == Typed /\ Statements /\ Locked /\ Numbers /\ Whole /\ Pages

\* The types of the slices; the array is long enough for what has been scanned.
ListsTyped ==
  /\ cells \in Seq(Nat \ {0})
  /\ length \in 0 .. Len(cells)
  /\ request \in [Requests -> {"none", "scan", "found", "done"}]
  /\ read \in [Requests -> Seq(Nat \ {0})]
  /\ scanned \in [Requests -> Nat]
  /\ \A q \in Requests :
       /\ Len(read[q]) <= MaxRows
       /\ scanned[q] <= Len(read[q]) /\ scanned[q] <= Len(cells)
       /\ request[q] = "none" => scanned[q] = 0
       /\ request[q] = "found" => scanned[q] = Len(read[q])
       /\ answer[q].status \in {0, 200, 500}
  /\ DOMAIN answer = Requests
  /\ alone \in [Requests -> BOOLEAN]

\* A request that is alone finds its own rows in the array.
LoneRead ==
  \A q \in UnderWay : alone[q] =>
    /\ UnderWay = {q}
    /\ \A k \in 1 .. scanned[q] : cells[k] = read[q][k]
    /\ request[q] = "found" => length = scanned[q]

ListsInv == ListsTyped /\ LoneRead /\ LoneAnswerExact

IInv == HandlesInv /\ ListsInv

-----------------------------------------------------------------------------
(* The lists.                                                               *)

LEMMA NewestIsRead ==
  ASSUME NEW n \in Nat
  PROVE  Newest(n) \in Seq(Nat \ {0}) /\ Len(Newest(n)) <= MaxRows
<1> DEFINE m == IF n < MaxRows THEN n ELSE MaxRows
<1>1. m \in Nat /\ m <= MaxRows /\ \A k \in 1 .. m : n + 1 - k \in Nat \ {0}
  BY MaxRowsAssumption
<1>2. Newest(n) = [k \in 1 .. m |-> n + 1 - k]
  BY DEF Newest
<1> HIDE DEF m
<1> QED
  BY <1>1, <1>2

LEMMA ListsStart == ListsInit => ListsInv
BY MaxRowsAssumption
DEF ListsInit, ListsInv, ListsTyped, LoneRead, LoneAnswerExact, UnderWay, NoAnswer

LEMMA ListsRest == ASSUME ListsInv, UNCHANGED listVars PROVE ListsInv'
BY DEF ListsInv, ListsTyped, LoneRead, LoneAnswerExact, UnderWay, listVars

LEMMA FindKeeps ==
  ASSUME ListsInv, NEW q \in Requests, NEW n \in Nat, Find(q, n)
  PROVE  ListsInv'
<1>1. Newest(n) \in Seq(Nat \ {0}) /\ Len(Newest(n)) \in Nat /\ Len(Newest(n)) <= MaxRows
  BY NewestIsRead
<1> USE DEF ListsInv, Find
<1>2. ListsTyped'
  <2>1. ListsTyped
    OBVIOUS
  <2>2. length' \in 0 .. Len(cells')
    BY <2>1 DEF ListsTyped
  <2> QED
    BY <1>1, <2>1, <2>2 DEF ListsTyped
<1>3. UnderWay' = UnderWay \cup {q} /\ q \notin UnderWay
  BY DEF ListsTyped, UnderWay
<1>4. scanned[q] = 0
  BY DEF ListsTyped
<1>5. \A r \in Requests : alone'[r] => alone[r] /\ (r = q => UnderWay = {}) /\ r \notin UnderWay
  OBVIOUS
<1>6. LoneRead'
  <2> SUFFICES ASSUME NEW r \in UnderWay', alone'[r]
               PROVE  /\ UnderWay' = {r}
                      /\ \A k \in 1 .. scanned'[r] : cells'[k] = read'[r][k]
                      /\ request'[r] = "found" => length' = scanned'[r]
    BY DEF LoneRead
  <2>1. r \in Requests
    BY DEF UnderWay
  <2>2. r = q /\ UnderWay = {}
    BY <1>3, <1>5, <2>1
  <2>3. request'[q] = "scan" /\ scanned'[q] = 0
    BY <1>4 DEF ListsTyped
  <2>4. \A k \in 1 .. 0 : FALSE
    OBVIOUS
  <2> QED
    BY <1>3, <2>2, <2>3, <2>4
<1>7. LoneAnswerExact'
  BY <1>5 DEF LoneAnswerExact, ListsTyped
<1> QED
  BY <1>2, <1>6, <1>7

LEMMA ScanKeeps ==
  ASSUME ListsInv, NEW q \in Requests, Scan(q)
  PROVE  ListsInv'
<1> DEFINE k == scanned[q] + 1
<1>1. /\ ListsTyped /\ q \in UnderWay
      /\ k \in 1 .. Len(read[q]) /\ k <= Len(cells) + 1
      /\ read[q][k] \in Nat \ {0}
  <2>1. ListsTyped /\ request[q] = "scan" /\ scanned[q] < Len(read[q])
    BY DEF ListsInv, Scan
  <2>2. scanned[q] \in Nat /\ read[q] \in Seq(Nat \ {0}) /\ scanned[q] <= Len(cells)
        /\ Len(cells) \in Nat
    BY <2>1 DEF ListsTyped
  <2>3. Len(read[q]) \in Nat /\ \A i \in 1 .. Len(read[q]) : read[q][i] \in Nat \ {0}
    BY <2>2
  <2>4. k \in 1 .. Len(read[q]) /\ k <= Len(cells) + 1
    BY <2>1, <2>2, <2>3
  <2>5. q \in UnderWay
    BY <2>1 DEF UnderWay
  <2> QED
    BY <2>1, <2>3, <2>4, <2>5
<1>2. /\ cells' \in Seq(Nat \ {0})
      /\ Len(cells') >= Len(cells) /\ Len(cells') >= k
      /\ cells'[k] = read[q][k]
      /\ \A j \in 1 .. Len(cells) : j # k => cells'[j] = cells[j]
  <2>1. CASE k <= Len(cells)
    BY <1>1, <2>1 DEF ListsTyped, Scan
  <2>2. CASE ~(k <= Len(cells))
    <3>1. cells' = Append(cells, read[q][k]) /\ k = Len(cells) + 1 /\ cells \in Seq(Nat \ {0})
      BY <1>1, <2>2 DEF ListsTyped, Scan
    <3> QED
      BY <1>1, <3>1
  <2> QED
    BY <2>1, <2>2
<1>3. /\ scanned' = [scanned EXCEPT ![q] = k]
      /\ UNCHANGED <<length, request, read, answer, alone>> /\ request[q] = "scan"
  BY DEF Scan
<1> HIDE DEF k
<1>4. ListsTyped'
  <2>1. length' \in 0 .. Len(cells') /\ Len(cells) \in Nat /\ Len(cells') \in Nat /\ k \in Nat
    BY <1>1, <1>2, <1>3 DEF ListsTyped
  <2>2. \A r \in Requests : scanned'[r] = (IF r = q THEN k ELSE scanned[r])
    BY <1>1, <1>3 DEF ListsTyped
  <2>3. scanned' \in [Requests -> Nat]
    BY <1>1, <1>3, <2>1 DEF ListsTyped
  <2>4. \A r \in Requests : scanned'[r] <= Len(read[r]) /\ scanned'[r] <= Len(cells')
    <3> TAKE r \in Requests
    <3>1. /\ scanned[r] \in Nat /\ scanned[r] <= Len(read[r]) /\ scanned[r] <= Len(cells)
          /\ k <= Len(read[q])
      BY <1>1 DEF ListsTyped
    <3>2. CASE r = q
      BY <1>2, <2>2, <3>1, <3>2
    <3>3. CASE r # q
      BY <1>2, <2>1, <2>2, <3>1, <3>3
    <3> QED
      BY <3>2, <3>3
  <2>5. \A r \in Requests :
          /\ request[r] = "none" => scanned'[r] = 0
          /\ request[r] = "found" => scanned'[r] = Len(read[r])
    BY <1>1, <1>3, <2>2 DEF ListsTyped
  <2>6. /\ request' = request /\ read' = read /\ answer' = answer /\ alone' = alone
        /\ request \in [Requests -> {"none", "scan", "found", "done"}]
        /\ read \in [Requests -> Seq(Nat \ {0})] /\ DOMAIN answer = Requests
        /\ alone \in [Requests -> BOOLEAN]
        /\ \A r \in Requests : Len(read[r]) <= MaxRows /\ answer[r].status \in {0, 200, 500}
    BY <1>1, <1>3 DEF ListsTyped
  <2>7. cells' \in Seq(Nat \ {0})
    BY <1>2
  <2> QED
    BY <2>1, <2>3, <2>4, <2>5, <2>6, <2>7 DEF ListsTyped
<1>5. LoneRead'
  <2> SUFFICES ASSUME NEW r \in UnderWay', alone'[r]
               PROVE  /\ UnderWay' = {r}
                      /\ \A j \in 1 .. scanned'[r] : cells'[j] = read'[r][j]
                      /\ request'[r] = "found" => length' = scanned'[r]
    BY DEF LoneRead
  <2>1. UnderWay' = UnderWay /\ UnderWay = {r} /\ r = q
    BY <1>1, <1>3 DEF UnderWay, ListsInv, LoneRead
  <2>2. \A j \in 1 .. scanned[q] : cells[j] = read[q][j] /\ j \in 1 .. Len(cells) /\ j # k
    <3>1. \A j \in 1 .. scanned[q] : cells[j] = read[q][j]
      BY <1>1, <1>3, <2>1 DEF ListsInv, LoneRead
    <3>2. scanned[q] \in Nat /\ Len(cells) \in Nat /\ scanned[q] <= Len(cells)
      BY <1>1 DEF ListsTyped
    <3>3. \A j \in 1 .. scanned[q] : j \in 1 .. Len(cells) /\ j # k
      BY <3>2 DEF k
    <3> QED
      BY <3>1, <3>3
  <2>3. \A j \in 1 .. k : j = k \/ j \in 1 .. scanned[q]
    BY <1>1 DEF k, ListsTyped
  <2>4. scanned'[q] = k
    BY <1>1, <1>3 DEF ListsTyped
  <2>5. \A j \in 1 .. k : cells'[j] = read[q][j]
    BY <1>2, <2>2, <2>3
  <2>6. read' = read /\ request'[r] # "found"
    BY <1>3, <2>1
  <2> QED
    BY <2>1, <2>4, <2>5, <2>6
<1>6. LoneAnswerExact'
  BY <1>3 DEF ListsInv, LoneAnswerExact
<1> QED
  BY <1>4, <1>5, <1>6 DEF ListsInv

LEMMA FoundKeeps ==
  ASSUME ListsInv, NEW q \in Requests, Found(q)
  PROVE  ListsInv'
<1> USE DEF ListsInv, Found
<1>1. ListsTyped'
  <2>1. length' \in 0 .. Len(cells')
    BY DEF ListsTyped
  <2> QED
    BY <2>1 DEF ListsTyped
<1>2. UnderWay' = UnderWay /\ q \in UnderWay
  BY DEF UnderWay, ListsTyped
<1>3. LoneRead'
  BY <1>2 DEF LoneRead, ListsTyped, UnderWay
<1>4. LoneAnswerExact'
  BY DEF LoneAnswerExact, ListsTyped
<1> QED
  BY <1>1, <1>3, <1>4

LEMMA SendKeeps ==
  ASSUME ListsInv, NEW q \in Requests, Send(q)
  PROVE  ListsInv'
<1> USE DEF ListsInv, Send
<1>1. ListsTyped'
  <2>1. /\ request' \in [Requests -> {"none", "scan", "found", "done"}]
        /\ \A r \in Requests : request'[r] \in {"none", "found"} => request[r] = request'[r]
    BY DEF ListsTyped
  <2>2. DOMAIN answer' = Requests /\ \A r \in Requests : answer'[r].status \in {0, 200, 500}
    BY DEF ListsTyped
  <2>3. ListsTyped /\ UNCHANGED <<cells, length, read, scanned, alone>>
    OBVIOUS
  <2> HIDE DEF ListsInv, Send
  <2> QED
    BY <2>1, <2>2, <2>3 DEF ListsTyped
<1>2. UnderWay' = UnderWay \ {q} /\ q \in UnderWay
  BY DEF UnderWay, ListsTyped
<1>3. LoneRead'
  BY <1>2 DEF LoneRead, ListsTyped
<1>4. ASSUME alone[q] PROVE SubSeq(cells, 1, length) = read[q]
  <2>1. /\ length = scanned[q] /\ scanned[q] = Len(read[q])
        /\ \A k \in 1 .. Len(read[q]) : cells[k] = read[q][k]
    BY <1>2, <1>4 DEF LoneRead, ListsTyped
  <2>2. cells \in Seq(Nat \ {0}) /\ read[q] \in Seq(Nat \ {0}) /\ Len(read[q]) <= Len(cells)
    BY <2>1 DEF ListsTyped
  <2>3. SubSeq(cells, 1, Len(read[q])) = [k \in 1 .. Len(read[q]) |-> cells[k]]
    BY <2>2
  <2>4. read[q] = [k \in 1 .. Len(read[q]) |-> read[q][k]]
    BY <2>2
  <2> QED
    BY <2>1, <2>3, <2>4
<1>5. alone[q] => answer'[q] = [status |-> 200, list |-> read'[q]]
  <2>1. answer'[q] = [status |-> 200, list |-> SubSeq(cells, 1, length)]
    BY DEF ListsTyped
  <2> QED
    BY <1>4, <2>1, Zenon
<1>6. \A r \in Requests : r # q =>
        answer'[r] = answer[r] /\ request'[r] = request[r] /\ alone'[r] = alone[r] /\ read'[r] = read[r]
  BY DEF ListsTyped
<1>7. alone' = alone /\ LoneAnswerExact
  OBVIOUS
<1> HIDE DEF ListsInv, Send
<1>8. LoneAnswerExact'
  BY <1>5, <1>6, <1>7 DEF LoneAnswerExact
<1> QED
  BY <1>1, <1>3, <1>8 DEF ListsInv

LEMMA SendErrorKeeps ==
  ASSUME ListsInv, NEW q \in Requests, SendError(q)
  PROVE  ListsInv'
<1> USE DEF ListsInv, SendError
<1>1. ListsTyped'
  <2>1. /\ request' \in [Requests -> {"none", "scan", "found", "done"}]
        /\ \A r \in Requests : request'[r] \in {"none", "found"} => request[r] = request'[r]
    BY DEF ListsTyped
  <2>2. DOMAIN answer' = Requests /\ \A r \in Requests : answer'[r].status \in {0, 200, 500}
    BY DEF ListsTyped
  <2>3. ListsTyped /\ UNCHANGED <<cells, length, read, scanned, alone>>
    OBVIOUS
  <2> HIDE DEF ListsInv, SendError
  <2> QED
    BY <2>1, <2>2, <2>3 DEF ListsTyped
<1>2. UnderWay' = UnderWay \ {q}
  BY DEF UnderWay, ListsTyped
<1>3. LoneRead'
  BY <1>2 DEF LoneRead, ListsTyped
<1>4. LoneAnswerExact'
  <2>1. answer'[q] = [status |-> 500, list |-> <<>>]
    BY DEF ListsTyped
  <2>2. \A r \in Requests : r # q =>
          answer'[r] = answer[r] /\ request'[r] = request[r] /\ alone'[r] = alone[r] /\ read'[r] = read[r]
    BY DEF ListsTyped
  <2>3. LoneAnswerExact
    OBVIOUS
  <2> HIDE DEF ListsInv, SendError
  <2> QED
    BY <2>1, <2>2, <2>3 DEF LoneAnswerExact
<1> QED
  BY <1>1, <1>3, <1>4

LEMMA ListKeeps ==
  ASSUME ListsInv, NEW q \in Requests, NEW n \in Nat, List(q, n)
  PROVE  ListsInv'
<1>1. CASE Find(q, n)
  BY <1>1, FindKeeps
<1>2. CASE Scan(q)
  BY <1>2, ScanKeeps
<1>3. CASE Found(q)
  BY <1>3, FoundKeeps
<1>4. CASE Send(q)
  BY <1>4, SendKeeps
<1>5. CASE SendError(q)
  BY <1>5, SendErrorKeeps
<1> QED
  BY <1>1, <1>2, <1>3, <1>4, <1>5 DEF List

-----------------------------------------------------------------------------
(* Programs and objects.                                                    *)

LEMMA ProgramType ==
  ASSUME NEW p \in Programs
  PROVE  /\ p.transaction \in BOOLEAN
         /\ Len(p.ops) \in Nat /\ DOMAIN p.ops = 1 .. Len(p.ops)
         /\ \A k \in DOMAIN p.ops :
              /\ p.ops[k].kind \in Kind /\ p.ops[k].dao \in Dao
              /\ p.ops[k].where \subseteq Columns[Target(p.ops[k].dao)]
              /\ p.ops[k].kind = "page" =>
                   p.ops[k].dao = "message" /\ p.ops[k].offset \in Nat /\ p.ops[k].limit \in Int
         /\ \A j, k \in DOMAIN p.ops : p.ops[j].kind = "page" /\ p.ops[k].kind = "page" => j = k
<1>1. p.ops \in Seq(Operation)
  BY ProgramsAssumption
<1>2. \A k \in DOMAIN p.ops : p.ops[k] \in Operation
  BY <1>1
<1>3. "message" \in Dao /\ "page" \in Kind
  BY DEF Dao, Table, Columns, Kind
<1>4. \A o \in Operation :
        /\ o.kind \in Kind /\ o.dao \in Dao
        /\ o.kind = "page" => o.dao = "message" /\ o.offset \in Nat /\ o.limit \in Int
  BY <1>3 DEF Operation
<1> QED
  BY <1>1, <1>2, <1>4, ProgramsAssumption

LEMMA TableIs ==
  Table = {"user", "role", "acl_rule", "user_role", "message", "topic", "connection"}
BY DEF Table, Columns

LEMMA TargetType == \A d \in Dao : Target(d) \in Table
BY TableIs DEF Dao, Association, Target

\* A clone has the pool of its transaction everywhere.
LEMMA CloneIs == \A pool : clone(pool) = [d \in Dao |-> pool]
<1> SUFFICES ASSUME NEW pool, NEW d \in Dao
             PROVE  (IF d \in DOMAIN userClone(pool) THEN userClone(pool)[d]
                     ELSE IF d \in DOMAIN roleClone(pool) THEN roleClone(pool)[d] ELSE pool) = pool
  BY DEF clone
<1> QED
  BY DEF userClone, roleClone

\* The next number of a table is free.
LEMMA NewRowNumbered ==
  ASSUME NEW set, set \subseteq RowType, Numbered(set), NEW c \in Callers, NEW d \in Dao
  PROVE  /\ NewRow(c, d, set) \in RowType
         /\ Numbered(set \cup {NewRow(c, d, set)})
         /\ NewRow(c, d, set).dao = Target(d) /\ NewRow(c, d, set).by = c
<1> DEFINE t == Target(d)
           new == NewRow(c, d, set)
           n == Cardinality(OfTable(set, t))
<1>1. IsFiniteSet(set) /\ \A x : IsFiniteSet(OfTable(set, x)) /\ Cardinality(OfTable(set, x)) \in Nat
  <2>1. IsFiniteSet(set)
    BY DEF Numbered
  <2>2. \A x : OfTable(set, x) \subseteq set
    BY DEF OfTable
  <2> QED
    BY <2>1, <2>2, FS_Subset, FS_CardinalityType
<1>2. new = [dao |-> t, id |-> n + 1, by |-> c]
  BY DEF NewRow, OfTable
<1>3. t \in Table
  BY TargetType
<1>4. new \in RowType /\ new.dao = t /\ new.id = n + 1 /\ new.by = c
  BY <1>1, <1>2, <1>3 DEF RowType
<1> HIDE DEF new
<1>5. \A r \in set : r.dao = t => r.id <= n
  BY DEF Numbered
<1>6. \A r \in set : r.id \in Nat
  BY DEF RowType
<1>7. \A r \in set : r.dao = t => r.id # n + 1
  BY <1>1, <1>5, <1>6
<1>8. new \notin OfTable(set, t)
  BY <1>4, <1>7 DEF OfTable
<1>9. OfTable(set \cup {new}, t) = OfTable(set, t) \cup {new}
  BY <1>4 DEF OfTable
<1>10. Cardinality(OfTable(set \cup {new}, t)) = n + 1
  BY <1>1, <1>8, <1>9, FS_AddElement
<1>11. \A x : x # t => OfTable(set \cup {new}, x) = OfTable(set, x)
  BY <1>4 DEF OfTable
<1>12. IsFiniteSet(set \cup {new})
  BY <1>1, FS_AddElement
<1>13. ASSUME NEW r \in set \cup {new}
       PROVE  r.id <= Cardinality(OfTable(set \cup {new}, r.dao))
  <2>1. CASE r = new
    BY <1>1, <1>4, <1>10, <2>1
  <2>2. CASE r \in set /\ r.dao = t
    BY <1>1, <1>5, <1>6, <1>10, <2>2
  <2>3. CASE r \in set /\ r.dao # t
    BY <1>11, <2>3 DEF Numbered
  <2> QED
    BY <2>1, <2>2, <2>3
<1>14. ASSUME NEW r \in set \cup {new}, NEW q \in set \cup {new}, r.dao = q.dao, r.id = q.id
       PROVE  r = q
  <2>1. CASE r \in set /\ q \in set
    BY <1>14, <2>1 DEF Numbered
  <2>2. CASE r = new \/ q = new
    BY <1>4, <1>7, <1>14, <2>2
  <2> QED
    BY <2>1, <2>2
<1>15. Numbered(set \cup {new})
  BY <1>12, <1>13, <1>14 DEF Numbered
<1> QED
  BY <1>4, <1>15 DEF new

LEMMA MessagesAreNat == ASSUME NEW set, IsFiniteSet(set) PROVE Messages(set) \in Nat
<1>1. {r \in set : r.dao = "message"} \subseteq set
  OBVIOUS
<1> QED
  BY <1>1, FS_Subset, FS_CardinalityType DEF Messages

LEMMA CreatesStep ==
  ASSUME NEW p \in Programs, NEW k \in DOMAIN p.ops
  PROVE  Creates(p, k + 1) =
           Creates(p, k) \cup (IF p.ops[k].kind \in {"create", "append"} THEN {Target(p.ops[k].dao)} ELSE {})
<1>1. DOMAIN p.ops = 1 .. Len(p.ops) /\ Len(p.ops) \in Nat
  BY ProgramType
<1>2. \A j \in DOMAIN p.ops : j < k + 1 <=> j < k \/ j = k
  BY <1>1
<1> QED
  BY <1>2 DEF Creates

LEMMA CreatesEnds ==
  ASSUME NEW p \in Programs
  PROVE  /\ Creates(p, 0) = {} /\ Creates(p, 1) = {}
         /\ Creates(p, Len(p.ops) + 1) =
              {Target(p.ops[k].dao) : k \in {j \in DOMAIN p.ops : p.ops[j].kind \in {"create", "append"}}}
<1>1. DOMAIN p.ops = 1 .. Len(p.ops) /\ Len(p.ops) \in Nat
  BY ProgramType
<1>2. \A j \in DOMAIN p.ops : ~(j < 0) /\ ~(j < 1) /\ j < Len(p.ops) + 1
  BY <1>1
<1> QED
  BY <1>2 DEF Creates

\* What an operation of a running caller is.
LEMMA OpType ==
  ASSUME Typed, NEW c \in Callers
  PROVE  /\ program[c] \in Programs /\ c # NoOne
         /\ Len(program[c].ops) \in Nat /\ DOMAIN program[c].ops = 1 .. Len(program[c].ops)
         /\ Over(c) = Len(program[c].ops) + 1 /\ Failed(c) = Len(program[c].ops) + 2
         /\ at[c] \in Nat /\ at[c] <= Len(program[c].ops) + 2
         /\ Home(c) = IF program[c].transaction THEN c ELSE NoOne
         /\ Running(c) =>
              /\ at[c] \in 1 .. Len(program[c].ops)
              /\ Op(c) = program[c].ops[at[c]]
              /\ Op(c).kind \in Kind /\ Op(c).dao \in Dao
              /\ Op(c).where \subseteq Columns[Target(Op(c).dao)]
              /\ Op(c).kind = "page" => Op(c).offset \in Nat /\ Op(c).limit \in Int
<1>1. program[c] \in Programs /\ at[c] \in Nat /\ at[c] <= Failed(c)
  BY DEF Typed
<1> QED
  BY <1>1, ProgramType, CallersAssumption DEF Over, Failed, Home, Running, Op

-----------------------------------------------------------------------------
(* The callers.                                                             *)

LEMMA NoneType == None \in Statement /\ NoPage \in [size : Int, count : Int]
<1>1. NoPage \in [size : Int, count : Int]
  BY DEF NoPage
<1>2. {"none"} \in SUBSET ((UNION {Columns[t] : t \in Table}) \cup {"none"})
  OBVIOUS
<1> QED
  BY <1>1, <1>2 DEF None, Statement

LEMMA HandlesStart == HandlesInit => HandlesInv
<1> SUFFICES ASSUME HandlesInit PROVE HandlesInv
  OBVIOUS
<1> USE DEF HandlesInit
<1>1. None \in Statement /\ NoPage \in [size : Int, count : Int]
  BY NoneType
<1>2. Typed
  <2>1. handle \in [Callers -> [Dao -> Callers \cup {NoOne}]]
    BY DEF Use
  <2>2. \A c \in Callers : at[c] = 0 /\ program[c] \in Programs
    OBVIOUS
  <2>3. \A c \in Callers : 0 <= Failed(c)
    BY <2>2, ProgramType DEF Failed
  <2> QED
    BY <1>1, <2>1, <2>2, <2>3 DEF Typed
<1>3. Statements /\ Locked
  BY CallersAssumption DEF Statements, Locked
<1>4. Numbers
  BY FS_EmptySet DEF Numbers, Numbered
<1>5. Whole
  <2>1. \A c \in Callers : Tables(work[c]) = {} /\ By(rows, c) = {} /\ Creates(program[c], at[c]) = {}
    BY CreatesEnds DEF Tables, By
  <2> QED
    BY <2>1, CallersAssumption DEF Whole, WholeOf
<1>6. Pages
  BY DEF Pages, PageOf
<1> QED
  BY <1>2, <1>3, <1>4, <1>5, <1>6 DEF HandlesInv

LEMMA HandlesRest == ASSUME HandlesInv, UNCHANGED handleVars PROVE HandlesInv'
BY DEF HandlesInv, handleVars, Typed, Statements, Locked, Numbers, Whole, WholeOf, Pages, PageOf, PageAt,
       Failed, Over, Home, Running, Op, Written

LEMMA BeginKeeps ==
  ASSUME HandlesInv, NEW c \in Callers, Begin(c)
  PROVE  HandlesInv'
<1> USE DEF HandlesInv, Begin
<1>1. \A b \in Callers : Over(b)' = Over(b) /\ Failed(b)' = Failed(b) /\ Home(b)' = Home(b) /\ Written(b)' = Written(b)
  BY DEF Over, Failed, Home, Written
<1>2. \A b \in Callers : at'[b] = IF b = c THEN 1 ELSE at[b]
  BY DEF Typed
<1>3. /\ program[c] \in Programs /\ Len(program[c].ops) \in Nat
      /\ Over(c) = Len(program[c].ops) + 1 /\ Failed(c) = Len(program[c].ops) + 2
      /\ DOMAIN program[c].ops = 1 .. Len(program[c].ops)
  BY OpType
<1>4. Typed'
  <2>1. \A d \in Dao : (IF program[c].transaction THEN clone(c) ELSE Use)[d] = Home(c)
    BY CloneIs DEF Use, Home
  <2>2. (IF program[c].transaction THEN clone(c) ELSE Use) \in [Dao -> Callers \cup {NoOne}]
    BY CloneIs DEF Use
  <2>3. handle' \in [Callers -> [Dao -> Callers \cup {NoOne}]]
    BY <2>2 DEF Typed
  <2>4. \A b \in Callers : at'[b] # 0 => \A d \in Dao : handle'[b][d] = Home(b)
    BY <1>2, <2>1 DEF Typed
  <2>5. at' \in [Callers -> Nat] /\ \A b \in Callers : at'[b] <= Failed(b)
    BY <1>2, <1>3 DEF Typed
  <2> QED
    BY <1>1, <2>3, <2>4, <2>5 DEF Typed
<1>5. Statements'
  <2>1. stmt[c] = None
    BY <1>3 DEF Statements, Running
  <2> QED
    BY <1>1, <1>2, <2>1 DEF Statements, Running, Op
<1>6. Locked' /\ Numbers'
  BY DEF Locked, Numbers
<1>7. Whole'
  <2>1. Creates(program[c], 0) = {} /\ Creates(program[c], 1) = {}
    BY <1>3, CreatesEnds
  <2>2. ASSUME program[c].transaction PROVE WholeOf(c)'
    <3>1. WholeOf(c)
      BY <2>2 DEF Whole
    <3>2. By(rows, c) = {} /\ Tables(work[c]) = {}
      BY <1>3, <2>1, <3>1 DEF WholeOf
    <3> QED
      BY <1>2, <2>1, <3>2 DEF WholeOf
  <2>3. ASSUME NEW b \in Callers, b # c, program[b].transaction PROVE WholeOf(b)'
    <3>1. WholeOf(b)
      BY <2>3 DEF Whole
    <3> QED
      BY <1>1, <1>2, <2>3, <3>1 DEF WholeOf
  <2> QED
    BY <2>2, <2>3 DEF Whole
<1>8. Pages'
  <2>1. page[c] = NoPage
    BY <1>3 DEF Pages, PageOf, PageAt
  <2> QED
    BY <1>1, <1>2, <2>1 DEF Pages, PageOf, PageAt
<1> QED
  BY <1>4, <1>5, <1>6, <1>7, <1>8

\* What a step of c leaves as it is for the others.
LEMMA Others ==
  ASSUME HandlesInv, NEW c \in Callers, UNCHANGED program,
         \A b \in Callers : b # c => at'[b] = at[b] /\ stmt'[b] = stmt[b]
  PROVE  /\ \A b \in Callers :
              /\ Over(b)' = Over(b) /\ Failed(b)' = Failed(b) /\ Home(b)' = Home(b)
              /\ Written(b)' = Written(b)
         /\ \A b \in Callers : b # c /\ stmt'[b] # None =>
              Running(b)' /\ stmt'[b].where = Op(b)' .where /\ stmt'[b].pool = Home(b)'
BY DEF HandlesInv, Statements, Running, Op, Over, Failed, Home, Written

LEMMA BuildKeeps ==
  ASSUME HandlesInv, NEW c \in Callers, Build(c)
  PROVE  HandlesInv'
<1> USE DEF HandlesInv
<1> DEFINE new == [pool |-> Home(c), where |-> Op(c).where]
<1>1. /\ Running(c) /\ at[c] # 0 /\ Op(c).dao \in Dao
      /\ Op(c).where \subseteq Columns[Target(Op(c).dao)] /\ Home(c) \in Callers \cup {NoOne}
  BY OpType DEF Build
<1>2. /\ stmt' = [stmt EXCEPT ![c] = new]
      /\ UNCHANGED <<rows, shared, program, handle, at, work, lock, met, page, seen>>
  BY <1>1 DEF Build, Chain, Typed
<1>3. new \in Statement
  BY <1>1, TargetType DEF Statement
<1> HIDE DEF new
<1>4. Typed'
  <2>1. stmt' \in [Callers -> Statement]
    BY <1>2, <1>3 DEF Typed
  <2> QED
    BY <1>2, <2>1 DEF Typed, Failed, Home
<1>5. Statements'
  <2>1. stmt'[c] = new
    BY <1>2 DEF Typed
  <2>2. Running(c)' /\ stmt'[c].where = Op(c)' .where /\ stmt'[c].pool = Home(c)'
    BY <1>1, <1>2, <2>1 DEF new, Running, Op, Home
  <2>3. \A b \in Callers : b # c => at'[b] = at[b] /\ stmt'[b] = stmt[b]
    BY <1>2 DEF Typed
  <2> QED
    BY <1>2, <2>2, <2>3, Others DEF Statements
<1>6. Locked' /\ Numbers'
  BY <1>2 DEF Locked, Numbers
<1>7. Whole'
  BY <1>2 DEF Whole, WholeOf, Over, Written
<1>8. Pages'
  BY <1>2 DEF Pages, PageOf, PageAt, Over
<1> QED
  BY <1>4, <1>5, <1>6, <1>7, <1>8

\* The end of a statement: the next one is built anew.
LEMMA FinishedTyped ==
  ASSUME HandlesInv, NEW c \in Callers, Running(c), Finished(c),
         UNCHANGED <<shared, program, handle>>,
         rows' \subseteq RowType, work' \in [Callers -> SUBSET RowType],
         lock' \in Callers \cup {NoOne}, met' \in [Callers -> Callers \cup {NoOne}],
         page' \in [Callers -> [size : Int, count : Int]], DOMAIN seen' = Callers
  PROVE  /\ Typed' /\ Statements'
         /\ \A b \in Callers : at'[b] = IF b = c THEN at[c] + 1 ELSE at[b]
<1>1. /\ at[c] \in 1 .. Len(program[c].ops) /\ Len(program[c].ops) \in Nat
      /\ Failed(c) = Len(program[c].ops) + 2
  BY OpType DEF HandlesInv
<1>2. \A b \in Callers : at'[b] = IF b = c THEN at[c] + 1 ELSE at[b]
  BY DEF Finished, HandlesInv, Typed
<1>3. \A b \in Callers : stmt'[b] = IF b = c THEN None ELSE stmt[b]
  BY DEF Finished, HandlesInv, Typed
<1>4. at' \in [Callers -> Nat] /\ \A b \in Callers : at'[b] <= Failed(b)
  <2>1. at[c] + 1 \in Nat /\ at[c] + 1 <= Failed(c)
    BY <1>1
  <2>2. at \in [Callers -> Nat] /\ \A b \in Callers : at[b] <= Failed(b)
    BY DEF HandlesInv, Typed
  <2>3. at' = [at EXCEPT ![c] = at[c] + 1]
    BY DEF Finished
  <2> QED
    BY <1>2, <2>1, <2>2, <2>3
<1>5. stmt' \in [Callers -> Statement]
  BY NoneType DEF Finished, HandlesInv, Typed
<1>6. \A b \in Callers : at'[b] # 0 => \A d \in Dao : handle'[b][d] = Home(b)
  <2>1. at[c] # 0
    BY <1>1
  <2>2. \A b \in Callers : at'[b] # 0 => at[b] # 0
    BY <1>2, <2>1
  <2> QED
    BY <2>2 DEF HandlesInv, Typed
<1>7. Typed'
  BY <1>4, <1>5, <1>6 DEF HandlesInv, Typed, Home, Failed
<1>8. Statements'
  BY <1>2, <1>3, Others DEF Statements
<1> QED
  BY <1>2, <1>7, <1>8

LEMMA FinishedWhole ==
  ASSUME HandlesInv, NEW c \in Callers, Running(c), Op(c).kind \notin {"create", "append"},
         UNCHANGED <<rows, program, work, met>>,
         \A b \in Callers : at'[b] = IF b = c THEN at[c] + 1 ELSE at[b]
  PROVE  Whole'
<1>1. /\ at[c] \in 1 .. Len(program[c].ops) /\ Len(program[c].ops) \in Nat
      /\ program[c] \in Programs /\ at[c] \in DOMAIN program[c].ops
      /\ Over(c) = Len(program[c].ops) + 1 /\ Op(c) = program[c].ops[at[c]]
  BY OpType DEF HandlesInv, Running
<1>2. Creates(program[c], at[c] + 1) = Creates(program[c], at[c])
  BY <1>1, CreatesStep
<1>3. ASSUME NEW b \in Callers, program[b].transaction PROVE WholeOf(b)'
  <2>1. WholeOf(b)
    BY <1>3 DEF HandlesInv, Whole
  <2>2. CASE b = c
    <3>1. /\ at[c] <= Over(c) /\ at[c] + 1 <= Over(c) /\ ~(Over(c) <= at[c])
      BY <1>1
    <3>2. By(rows, c) = {} /\ Tables(work[c]) = Creates(program[c], at[c])
      BY <2>1, <2>2, <3>1 DEF WholeOf
    <3> QED
      BY <1>2, <2>2, <3>2 DEF WholeOf
  <2>3. CASE b # c
    BY <2>1, <2>3 DEF WholeOf, Over, Written
  <2> QED
    BY <2>2, <2>3
<1> QED
  BY <1>3 DEF HandlesInv, Whole

\* A caller that is not paging has nothing to fear for its page.
LEMMA FinishedPage ==
  ASSUME HandlesInv, NEW c \in Callers, Running(c), Op(c).kind # "page",
         UNCHANGED program, page'[c] = page[c], at'[c] = at[c] + 1, seen[c] \subseteq seen'[c]
  PROVE  PageOf(c)'
<1>1. at[c] \in 1 .. Len(program[c].ops) /\ Len(program[c].ops) \in Nat /\ Op(c) = program[c].ops[at[c]]
      /\ Over(c) = Len(program[c].ops) + 1 /\ DOMAIN program[c].ops = 1 .. Len(program[c].ops)
  BY OpType DEF HandlesInv
<1>2. SUFFICES ASSUME NEW k \in DOMAIN program[c].ops, PageAt(c, k) PROVE PageAt(c, k)'
  BY DEF HandlesInv, Pages, PageOf
<1>3. k # at[c]
  BY <1>1, <1>2 DEF PageAt
<1>4. k < at[c] + 1 /\ at[c] <= Over(c)
  BY <1>1, <1>2, <1>3 DEF PageAt
<1> QED
  BY <1>2, <1>3, <1>4 DEF PageAt, Over

\* Nor has one that does nothing while what it may see is kept for it.
LEMMA IdlePage ==
  ASSUME HandlesInv, NEW b \in Callers, UNCHANGED program,
         page'[b] = page[b], at'[b] = at[b], seen[b] \subseteq seen'[b],
         Running(b) /\ Op(b).kind = "page" /\ Messages(rows) \in seen[b] => Messages(rows') \in seen'[b]
  PROVE  PageOf(b)'
<1>1. SUFFICES ASSUME NEW k \in DOMAIN program[b].ops, PageAt(b, k) PROVE PageAt(b, k)'
  BY DEF HandlesInv, Pages, PageOf
<1>2. CASE at[b] = k /\ page[b].count = -1 /\ Messages(rows) \in seen[b]
  <2>1. Running(b) /\ Op(b).kind = "page"
    BY <1>1, <1>2 DEF PageAt, Running, Op
  <2>2. Messages(rows)' \in seen'[b]
    BY <1>2, <2>1 DEF Messages
  <2> QED
    BY <1>1, <1>2, <2>2 DEF PageAt
<1>3. CASE /\ k < at[b] /\ page[b].count \in Nat \cup {-1}
           /\ at[b] <= Over(b) => page[b].count \in seen[b]
  BY <1>1, <1>3 DEF PageAt, Over
<1> QED
  BY <1>1, <1>2, <1>3 DEF PageAt

LEMMA ReadKeeps ==
  ASSUME HandlesInv, NEW c \in Callers, Read(c)
  PROVE  HandlesInv'
<1>1. /\ Running(c) /\ Op(c).kind \notin {"create", "append", "page"} /\ Finished(c)
      /\ UNCHANGED <<rows, shared, program, handle, work, lock, met, page, seen>>
  BY DEF Read
<1>2. Typed' /\ Statements' /\ \A b \in Callers : at'[b] = IF b = c THEN at[c] + 1 ELSE at[b]
  <2>1. /\ rows' \subseteq RowType /\ work' \in [Callers -> SUBSET RowType]
        /\ lock' \in Callers \cup {NoOne} /\ met' \in [Callers -> Callers \cup {NoOne}]
        /\ page' \in [Callers -> [size : Int, count : Int]] /\ DOMAIN seen' = Callers
    BY <1>1 DEF HandlesInv, Typed
  <2> QED
    BY <1>1, <2>1, FinishedTyped
<1>3. Locked' /\ Numbers'
  BY <1>1 DEF HandlesInv, Locked, Numbers
<1>4. Whole'
  BY <1>1, <1>2, FinishedWhole
<1>5. ASSUME NEW b \in Callers PROVE PageOf(b)'
  <2>1. CASE b = c
    BY <1>1, <1>2, <2>1, FinishedPage
  <2>2. CASE b # c
    BY <1>1, <1>2, <2>2, IdlePage
  <2> QED
    BY <2>1, <2>2
<1> QED
  BY <1>2, <1>3, <1>4, <1>5 DEF HandlesInv, Pages

\* The end of a call that fails.
LEMMA AbortKeeps ==
  ASSUME HandlesInv, NEW c \in Callers, Abort(c), at[c] # 0,
         met' \in [Callers -> Callers \cup {NoOne}], \A b \in Callers : met'[b] # b
  PROVE  HandlesInv'
<1>1. /\ Failed(c) \in Nat /\ Over(c) <= Failed(c) /\ ~(Failed(c) <= Over(c))
      /\ at[c] \in Nat /\ at[c] <= Failed(c) /\ c # NoOne
      /\ \A k \in DOMAIN program[c].ops : k < Failed(c)
  <2>1. /\ Failed(c) = Len(program[c].ops) + 2 /\ Over(c) = Len(program[c].ops) + 1
        /\ DOMAIN program[c].ops = 1 .. Len(program[c].ops) /\ Len(program[c].ops) \in Nat
        /\ at[c] \in Nat /\ at[c] <= Len(program[c].ops) + 2 /\ c # NoOne
    BY OpType DEF HandlesInv
  <2> QED
    BY <2>1
<1>2. /\ \A b \in Callers : at'[b] = IF b = c THEN Failed(c) ELSE at[b]
      /\ \A b \in Callers : stmt'[b] = IF b = c THEN None ELSE stmt[b]
      /\ \A b \in Callers : work'[b] = IF b = c THEN {} ELSE work[b]
      /\ lock' = IF lock = c THEN NoOne ELSE lock
      /\ UNCHANGED <<rows, shared, program, handle, page, seen>>
  BY DEF Abort, HandlesInv, Typed
<1>3. Typed'
  <2>1. at' \in [Callers -> Nat] /\ stmt' \in [Callers -> Statement] /\ work' \in [Callers -> SUBSET RowType]
    BY <1>1, NoneType DEF Abort, HandlesInv, Typed
  <2>2. \A b \in Callers : at'[b] <= Failed(b)
    <3>1. \A b \in Callers : at[b] <= Failed(b)
      BY DEF HandlesInv, Typed
    <3>2. Failed(c) <= Failed(c)
      BY <1>1
    <3> QED
      BY <1>2, <3>1, <3>2
  <2>3. \A b \in Callers : at'[b] # 0 => \A d \in Dao : handle'[b][d] = Home(b)
    <3>1. \A b \in Callers : at[b] # 0 => \A d \in Dao : handle[b][d] = Home(b)
      BY DEF HandlesInv, Typed
    <3>2. \A b \in Callers : at'[b] # 0 => at[b] # 0
      BY <1>2
    <3> QED
      BY <1>2, <3>1, <3>2
  <2> QED
    BY <1>2, <2>1, <2>2, <2>3 DEF HandlesInv, Typed, Home, Failed
<1>4. Statements'
  BY <1>2, Others DEF Statements
<1>5. Locked'
  BY <1>2, CallersAssumption DEF HandlesInv, Locked
<1>6. Numbers'
  <2>1. rows' \cup {} = rows
    BY <1>2
  <2>2. \A b \in Callers : rows' \cup work'[b] = rows \/ rows' \cup work'[b] = rows \cup work[b]
    BY <1>2
  <2>3. Numbered(rows) /\ \A b \in Callers : Numbered(rows \cup work[b])
    BY DEF HandlesInv, Numbers
  <2> QED
    BY <1>2, <2>2, <2>3 DEF Numbers
<1>7. Whole'
  <2>1. ASSUME NEW b \in Callers, program[b].transaction PROVE WholeOf(b)'
    <3>1. WholeOf(b)
      BY <2>1 DEF HandlesInv, Whole
    <3>2. CASE b = c
      BY <1>1, <1>2, <3>1, <3>2 DEF WholeOf, Over, Written
    <3>3. CASE b # c
      BY <1>2, <3>1, <3>3 DEF WholeOf, Over, Written
    <3> QED
      BY <3>2, <3>3
  <2> QED
    BY <1>2, <2>1 DEF Whole
<1>8. ASSUME NEW b \in Callers PROVE PageOf(b)'
  <2>1. CASE b = c
    <3>1. SUFFICES ASSUME NEW k \in DOMAIN program[c].ops, PageAt(c, k) PROVE PageAt(c, k)'
      BY <1>2, <2>1 DEF HandlesInv, Pages, PageOf
    <3>2. k < at'[c] /\ ~(at'[c] <= Over(c)) /\ page[c].count \in Nat \cup {-1}
      BY <1>1, <1>2, <3>1 DEF PageAt
    <3> QED
      BY <1>2, <3>1, <3>2 DEF PageAt, Over
  <2>2. CASE b # c
    BY <1>2, <2>2, IdlePage
  <2> QED
    BY <2>1, <2>2
<1> QED
  BY <1>3, <1>4, <1>5, <1>6, <1>7, <1>8 DEF HandlesInv, Pages

LEMMA GiveUpKeeps ==
  ASSUME HandlesInv, NEW c \in Callers, GiveUp(c)
  PROVE  HandlesInv'
<1>1. Running(c) /\ at[c] # 0
  BY OpType DEF HandlesInv, GiveUp
<1>2. lock # c
  <2> SUFFICES ASSUME lock = c PROVE FALSE
    OBVIOUS
  <2>1. program[c].transaction
    BY DEF HandlesInv, Locked
  <2>2. stmt[c].pool = c
    BY <2>1 DEF HandlesInv, Statements, Home, GiveUp
  <2> QED
    BY <2>2 DEF GiveUp
<1>3. met' \in [Callers -> Callers \cup {NoOne}] /\ \A b \in Callers : met'[b] # b
  BY <1>2 DEF GiveUp, HandlesInv, Typed, Whole
<1> QED
  BY <1>1, <1>3, AbortKeeps DEF GiveUp

LEMMA FailKeeps ==
  ASSUME HandlesInv, NEW c \in Callers, Fail(c)
  PROVE  HandlesInv'
<1>1. at[c] # 0
  BY OpType DEF HandlesInv, Fail
<1>2. met' \in [Callers -> Callers \cup {NoOne}] /\ \A b \in Callers : met'[b] # b
  BY DEF Fail, HandlesInv, Typed, Whole
<1> QED
  BY <1>1, <1>2, AbortKeeps DEF Fail

\* A write that is a statement of its own.
LEMMA ExecuteAloneKeeps ==
  ASSUME HandlesInv, NEW c \in Callers, Execute(c), stmt[c].pool = NoOne
  PROVE  HandlesInv'
<1> DEFINE new == IF Op(c).kind = "update" THEN {} ELSE {NewRow(c, Op(c).dao, rows \cup work[c])}
<1>1. /\ Running(c) /\ Finished(c) /\ stmt[c] # None /\ Op(c).kind # "page"
      /\ lock \in {NoOne} /\ rows' = rows \cup new /\ Witnessed(rows')
      /\ UNCHANGED <<shared, program, handle, work, lock, met, page>>
  BY DEF Execute, Write
<1>2. ~program[c].transaction /\ Op(c).dao \in Dao /\ at[c] \in 1 .. Len(program[c].ops) /\ c # NoOne
  BY <1>1, OpType DEF HandlesInv, Statements
<1>3. \A b \in Callers : work[b] = {} /\ rows \cup work[b] = rows
  BY <1>1, CallersAssumption DEF HandlesInv, Locked
<1>4. new = {} \/ new = {NewRow(c, Op(c).dao, rows)}
  BY <1>3
<1> HIDE DEF new
<1>5. Numbered(rows) /\ rows \subseteq RowType
  BY DEF HandlesInv, Numbers, Typed
<1>6. new \subseteq RowType /\ Numbered(rows \cup new) /\ \A r \in new : r.by = c
  <2>1. CASE new = {}
    <3>1. rows \cup new = rows
      BY <2>1
    <3> QED
      BY <1>5, <2>1, <3>1
  <2>2. CASE new = {NewRow(c, Op(c).dao, rows)}
    <3>1. /\ NewRow(c, Op(c).dao, rows) \in RowType
          /\ Numbered(rows \cup {NewRow(c, Op(c).dao, rows)})
          /\ NewRow(c, Op(c).dao, rows).by = c
      BY <1>2, <1>5, NewRowNumbered
    <3> QED
      BY <2>2, <3>1, Zenon
  <2> QED
    BY <1>4, <2>1, <2>2
<1>7. Typed' /\ Statements' /\ \A b \in Callers : at'[b] = IF b = c THEN at[c] + 1 ELSE at[b]
  <2>1. /\ rows' \subseteq RowType /\ work' \in [Callers -> SUBSET RowType]
        /\ lock' \in Callers \cup {NoOne} /\ met' \in [Callers -> Callers \cup {NoOne}]
        /\ page' \in [Callers -> [size : Int, count : Int]] /\ DOMAIN seen' = Callers
    BY <1>1, <1>5, <1>6 DEF HandlesInv, Typed, Witnessed
  <2> QED
    BY <1>1, <2>1, FinishedTyped
<1>8. Locked' /\ Numbers'
  <2>1. \A b \in Callers : rows' \cup work'[b] = rows'
    BY <1>1, <1>3
  <2> QED
    BY <1>1, <1>6, <2>1 DEF HandlesInv, Locked, Numbers
<1>9. Whole'
  <2>1. ASSUME NEW b \in Callers, program[b].transaction PROVE WholeOf(b)'
    <3>1. WholeOf(b) /\ b # c
      BY <1>2, <2>1 DEF HandlesInv, Whole
    <3>2. By(rows', b) = By(rows, b)
      BY <1>1, <1>6, <3>1 DEF By
    <3> QED
      BY <1>1, <1>7, <3>1, <3>2 DEF WholeOf, Over, Written
  <2> QED
    BY <1>1, <2>1 DEF HandlesInv, Whole
<1>10. /\ \A b \in Callers : seen[b] \subseteq seen'[b]
       /\ \A b \in Callers : Running(b) /\ Op(b).kind = "page" => Messages(rows') \in seen'[b]
  BY <1>1 DEF Witnessed
<1>11. ASSUME NEW b \in Callers PROVE PageOf(b)'
  <2>1. CASE b = c
    BY <1>1, <1>7, <1>10, <2>1, FinishedPage
  <2>2. CASE b # c
    BY <1>1, <1>7, <1>10, <2>2, IdlePage
  <2> QED
    BY <2>1, <2>2
<1> QED
  BY <1>7, <1>8, <1>9, <1>11 DEF HandlesInv, Pages

\* A write of a transaction.
LEMMA ExecuteInTransactionKeeps ==
  ASSUME HandlesInv, NEW c \in Callers, Execute(c), stmt[c].pool # NoOne
  PROVE  HandlesInv'
<1> DEFINE row == NewRow(c, Op(c).dao, rows \cup work[c])
           new == IF Op(c).kind = "update" THEN {} ELSE {row}
<1>1. /\ Running(c) /\ Finished(c) /\ stmt[c] # None /\ Op(c).kind \in {"update", "create", "append"}
      /\ lock \in {NoOne, stmt[c].pool} /\ lock' = stmt[c].pool
      /\ work' = [work EXCEPT ![c] = work[c] \cup new]
      /\ UNCHANGED <<rows, shared, program, handle, met, page, seen>>
  BY DEF Execute, Write
<1>2. /\ program[c].transaction /\ stmt[c].pool = c /\ Op(c).dao \in Dao
      /\ program[c] \in Programs /\ at[c] \in DOMAIN program[c].ops
      /\ at[c] \in 1 .. Len(program[c].ops) /\ Len(program[c].ops) \in Nat
      /\ Over(c) = Len(program[c].ops) + 1 /\ Op(c) = program[c].ops[at[c]]
  BY <1>1, OpType DEF HandlesInv, Statements, Running
<1>3. \A b \in Callers : b # c => work[b] = {}
  BY <1>1, <1>2, CallersAssumption DEF HandlesInv, Locked
<1>4. Numbered(rows \cup work[c]) /\ rows \cup work[c] \subseteq RowType
  BY DEF HandlesInv, Numbers, Typed
<1>5. row \in RowType /\ Numbered((rows \cup work[c]) \cup {row}) /\ row.dao = Target(Op(c).dao) /\ row.by = c
  BY <1>2, <1>4, NewRowNumbered
<1> HIDE DEF row
<1>6. new \subseteq RowType /\ Numbered(rows \cup (work[c] \cup new)) /\ \A r \in new : r.by = c
  <2>1. CASE Op(c).kind = "update"
    <3>1. rows \cup (work[c] \cup new) = rows \cup work[c]
      BY <2>1
    <3> QED
      BY <1>4, <2>1, <3>1
  <2>2. CASE Op(c).kind # "update"
    <3>1. rows \cup (work[c] \cup new) = (rows \cup work[c]) \cup {row}
      BY <2>2
    <3> QED
      BY <1>5, <2>2, <3>1
  <2> QED
    BY <2>1, <2>2
<1>7. Tables(work[c] \cup new) = Tables(work[c]) \cup (IF Op(c).kind \in {"create", "append"} THEN {Target(Op(c).dao)} ELSE {})
  BY <1>1, <1>5 DEF Tables
<1> HIDE DEF new
<1>8. \A b \in Callers : work'[b] = IF b = c THEN work[c] \cup new ELSE work[b]
  BY <1>1 DEF HandlesInv, Typed
<1>9. Typed' /\ Statements' /\ \A b \in Callers : at'[b] = IF b = c THEN at[c] + 1 ELSE at[b]
  <2>1. /\ rows' \subseteq RowType /\ work' \in [Callers -> SUBSET RowType]
        /\ lock' \in Callers \cup {NoOne} /\ met' \in [Callers -> Callers \cup {NoOne}]
        /\ page' \in [Callers -> [size : Int, count : Int]] /\ DOMAIN seen' = Callers
    BY <1>1, <1>2, <1>6 DEF HandlesInv, Typed
  <2> QED
    BY <1>1, <2>1, FinishedTyped
<1>10. Locked'
  BY <1>1, <1>2, <1>3, <1>6, <1>8 DEF HandlesInv, Locked
<1>11. Numbers'
  BY <1>1, <1>6, <1>8 DEF HandlesInv, Numbers
<1>12. Whole'
  <2>1. WholeOf(c)'
    <3>1. at[c] <= Over(c) /\ ~(Over(c) <= at[c]) /\ WholeOf(c)
      BY <1>2 DEF HandlesInv, Whole
    <3>2. By(rows, c) = {} /\ Tables(work[c]) = Creates(program[c], at[c])
      BY <3>1 DEF WholeOf
    <3>3. Tables(work'[c]) = Creates(program[c], at[c] + 1)
      <4>1. Creates(program[c], at[c] + 1) =
              Creates(program[c], at[c]) \cup (IF Op(c).kind \in {"create", "append"} THEN {Target(Op(c).dao)} ELSE {})
        BY <1>2, CreatesStep, Zenon
      <4>2. work'[c] = work[c] \cup new
        BY <1>8
      <4> QED
        BY <1>7, <3>2, <4>1, <4>2, Zenon
    <3> QED
      BY <1>1, <1>9, <3>2, <3>3 DEF WholeOf
  <2>2. ASSUME NEW b \in Callers, b # c, program[b].transaction PROVE WholeOf(b)'
    <3>1. WholeOf(b)
      BY <2>2 DEF HandlesInv, Whole
    <3> QED
      BY <1>1, <1>8, <1>9, <2>2, <3>1 DEF WholeOf, Over, Written
  <2> QED
    BY <1>1, <2>1, <2>2 DEF HandlesInv, Whole
<1>13. ASSUME NEW b \in Callers PROVE PageOf(b)'
  <2>1. CASE b = c
    BY <1>1, <1>9, <2>1, FinishedPage
  <2>2. CASE b # c
    BY <1>1, <1>9, <2>2, IdlePage
  <2> QED
    BY <2>1, <2>2
<1> QED
  BY <1>9, <1>10, <1>11, <1>12, <1>13 DEF HandlesInv, Pages

LEMMA CommitKeeps ==
  ASSUME HandlesInv, NEW c \in Callers, Commit(c)
  PROVE  HandlesInv'
<1>1. /\ at[c] = Over(c) /\ lock = c /\ rows' = rows \cup work[c] /\ Witnessed(rows')
      /\ work' = [work EXCEPT ![c] = {}] /\ lock' = NoOne
      /\ UNCHANGED <<shared, program, handle, at, stmt, met, page>>
  BY DEF Commit
<1>2. /\ program[c] \in Programs /\ program[c].transaction /\ c # NoOne
      /\ Over(c) = Len(program[c].ops) + 1 /\ Over(c) \in Nat
  BY <1>1, OpType DEF HandlesInv, Locked
<1>3. /\ \A b \in Callers : b # c => work[b] = {}
      /\ \A r \in work[c] : r.by = c
  BY <1>1 DEF HandlesInv, Locked
<1>4. \A b \in Callers : work'[b] = {}
  BY <1>1, <1>3 DEF HandlesInv, Typed
<1>5. Typed'
  <2>1. rows' \subseteq RowType /\ work' \in [Callers -> SUBSET RowType]
    BY <1>1 DEF HandlesInv, Typed
  <2> QED
    BY <1>1, <2>1 DEF HandlesInv, Typed, Failed, Home, Witnessed
<1>6. Statements'
  BY <1>1, Others DEF HandlesInv, Statements, Running, Op, Home
<1>7. Locked' /\ Numbers'
  <2>1. \A b \in Callers : rows' \cup work'[b] = rows \cup work[c]
    BY <1>1, <1>4
  <2>2. Numbered(rows \cup work[c])
    BY DEF HandlesInv, Numbers
  <2>3. Locked'
    BY <1>1, <1>4, CallersAssumption DEF Locked
  <2> QED
    BY <1>1, <2>1, <2>2, <2>3 DEF Numbers
<1>8. Whole'
  <2>1. WholeOf(c)'
    <3>1. WholeOf(c)
      BY <1>2 DEF HandlesInv, Whole
    <3>2. CASE By(rows, c) = {} /\ (at[c] <= Over(c) => Tables(work[c]) = Creates(program[c], at[c]))
      <4>1. By(rows', c) = work[c]
        BY <1>1, <1>3, <3>2 DEF By
      <4>2. Tables(work[c]) = Written(c)
        <5>1. Creates(program[c], Over(c)) = Written(c)
          BY <1>2, CreatesEnds, Zenon DEF Written
        <5>2. at[c] <= Over(c)
          BY <1>1, <1>2
        <5> QED
          BY <1>1, <3>2, <5>1, <5>2
      <4>3. Over(c) <= at[c]
        BY <1>1, <1>2
      <4> QED
        BY <1>1, <1>4, <4>1, <4>2, <4>3 DEF WholeOf, Over, Written
    <3>3. CASE work[c] = {} /\ Over(c) <= at[c] /\ Tables(By(rows, c)) = Written(c)
      <4>1. rows' = rows
        BY <1>1, <3>3
      <4> QED
        BY <1>1, <1>4, <3>3, <4>1 DEF WholeOf, Over, Written
    <3> QED
      BY <3>1, <3>2, <3>3 DEF WholeOf
  <2>2. ASSUME NEW b \in Callers, b # c, program[b].transaction PROVE WholeOf(b)'
    <3>1. WholeOf(b) /\ work[b] = {}
      BY <1>3, <2>2 DEF HandlesInv, Whole
    <3>2. By(rows', b) = By(rows, b)
      BY <1>1, <1>3, <2>2 DEF By
    <3> QED
      BY <1>1, <1>4, <3>1, <3>2 DEF WholeOf, Over, Written
  <2> QED
    BY <1>1, <2>1, <2>2 DEF HandlesInv, Whole
<1>9. /\ \A b \in Callers : seen[b] \subseteq seen'[b]
      /\ \A b \in Callers : Running(b) /\ Op(b).kind = "page" => Messages(rows') \in seen'[b]
  BY <1>1 DEF Witnessed
<1>10. \A b \in Callers : PageOf(b)'
  BY <1>1, <1>9, IdlePage
<1> QED
  BY <1>5, <1>6, <1>7, <1>8, <1>10 DEF HandlesInv, Pages

\* A page that is the last one tells how many rows there are.
LEMMA LastPageTells ==
  ASSUME NEW n \in Nat, NEW offset \in Nat, NEW limit \in Int
  PROVE  /\ SizeOf(n, offset, limit) \in Nat
         /\ LastPage(SizeOf(n, offset, limit), limit) => SizeOf(n, offset, limit) + offset = n
BY DEF SizeOf, LastPage

LEMMA FindPageKeeps ==
  ASSUME HandlesInv, NEW c \in Callers, FindPage(c)
  PROVE  HandlesInv'
<1> DEFINE n == Messages(rows)
           size == SizeOf(n, Op(c).offset, Op(c).limit)
           last == LastPage(size, Op(c).limit)
           count == IF last THEN size + Op(c).offset ELSE -1
<1>1. /\ Running(c) /\ Op(c).kind = "page" /\ page[c] = NoPage
      /\ seen' = [seen EXCEPT ![c] = {n}]
      /\ page' = [page EXCEPT ![c] = [size |-> size, count |-> count]]
      /\ IF last THEN Finished(c) ELSE UNCHANGED <<stmt, at>>
      /\ UNCHANGED <<rows, shared, program, handle, work, lock, met>>
  BY DEF FindPage
<1>2. /\ Op(c).offset \in Nat /\ Op(c).limit \in Int /\ at[c] \in DOMAIN program[c].ops
      /\ Op(c) = program[c].ops[at[c]] /\ at[c] \in Nat
  BY <1>1, OpType DEF HandlesInv, Running
<1>3. n \in Nat
  BY MessagesAreNat DEF HandlesInv, Numbers, Numbered
<1>4. size \in Nat /\ (last => size + Op(c).offset = n)
  BY <1>2, <1>3, LastPageTells
<1> HIDE DEF n, size, last
<1>5. count \in Int /\ count \in Nat \cup {-1} /\ (last => count = n) /\ (~last => count = -1)
  BY <1>2, <1>3, <1>4
<1> HIDE DEF count
<1>6. page'[c] = [size |-> size, count |-> count] /\ seen'[c] = {n}
  BY <1>1 DEF HandlesInv, Typed
<1>7. page' \in [Callers -> [size : Int, count : Int]] /\ DOMAIN seen' = Callers
  BY <1>1, <1>4, <1>5 DEF HandlesInv, Typed
<1>8. /\ Typed' /\ Statements'
      /\ last => \A b \in Callers : at'[b] = IF b = c THEN at[c] + 1 ELSE at[b]
      /\ ~last => at' = at
  <2>1. /\ rows' \subseteq RowType /\ work' \in [Callers -> SUBSET RowType]
        /\ lock' \in Callers \cup {NoOne} /\ met' \in [Callers -> Callers \cup {NoOne}]
    BY <1>1 DEF HandlesInv, Typed
  <2>2. CASE last
    BY <1>1, <1>7, <2>1, <2>2, FinishedTyped
  <2>3. CASE ~last
    <3>1. UNCHANGED <<stmt, at>>
      BY <1>1, <2>3
    <3> QED
      BY <1>1, <1>7, <2>3, <3>1 DEF HandlesInv, Typed, Statements, Failed, Home, Running, Op
  <2> QED
    BY <2>2, <2>3
<1>9. Locked' /\ Numbers'
  BY <1>1 DEF HandlesInv, Locked, Numbers
<1>10. Whole'
  <2>1. CASE last
    BY <1>1, <1>8, <2>1, FinishedWhole
  <2>2. CASE ~last
    BY <1>1, <1>8, <2>2 DEF HandlesInv, Whole, WholeOf, Over, Written
  <2> QED
    BY <2>1, <2>2
<1>11. ASSUME NEW b \in Callers PROVE PageOf(b)'
  <2>1. CASE b = c
    <3> PICK k \in DOMAIN program[c].ops : k = at[c]
      BY <1>2
    <3>1. program'[c].ops[k].kind = "page" /\ page'[c].size \in Nat /\ page'[c].count = count
      BY <1>1, <1>2, <1>4, <1>6
    <3>2. CASE last
      <4>1. k < at'[c] /\ page'[c].count \in Nat \cup {-1} /\ page'[c].count \in seen'[c]
        BY <1>2, <1>5, <1>6, <1>8, <3>1, <3>2
      <4>2. PageAt(c, k)'
        BY <3>1, <4>1 DEF PageAt
      <4> QED
        BY <1>1, <2>1, <4>2 DEF PageOf
    <3>3. CASE ~last
      <4>1. at'[c] = k /\ page'[c].count = -1 /\ Messages(rows)' \in seen'[c]
        BY <1>1, <1>5, <1>6, <1>8, <3>1, <3>3 DEF n, Messages
      <4>2. PageAt(c, k)'
        BY <3>1, <4>1 DEF PageAt
      <4> QED
        BY <1>1, <2>1, <4>2 DEF PageOf
    <3> QED
      BY <3>2, <3>3
  <2>2. CASE b # c
    <3>1. page'[b] = page[b] /\ at'[b] = at[b] /\ seen'[b] = seen[b]
      BY <1>1, <1>8, <2>2 DEF HandlesInv, Typed
    <3> QED
      BY <1>1, <3>1, IdlePage
  <2> QED
    BY <2>1, <2>2
<1> QED
  BY <1>8, <1>9, <1>10, <1>11 DEF HandlesInv, Pages

LEMMA CountPageKeeps ==
  ASSUME HandlesInv, NEW c \in Callers, CountPage(c)
  PROVE  HandlesInv'
<1> DEFINE n == Messages(rows)
<1>1. /\ Running(c) /\ Finished(c) /\ Op(c).kind = "page" /\ page[c] # NoPage
      /\ page' = [page EXCEPT ![c] = [page[c] EXCEPT !.count = n]]
      /\ UNCHANGED <<rows, shared, program, handle, work, lock, met, seen>>
  BY DEF CountPage
<1>2. /\ program[c] \in Programs /\ at[c] \in DOMAIN program[c].ops
      /\ Op(c) = program[c].ops[at[c]] /\ at[c] \in Nat
  BY <1>1, OpType DEF HandlesInv, Running
<1>3. n \in Nat
  BY MessagesAreNat DEF HandlesInv, Numbers, Numbered
<1>4. page[c].size \in Nat /\ n \in seen[c]
  <2>1. PICK k \in DOMAIN program[c].ops : PageAt(c, k)
    BY <1>1 DEF HandlesInv, Pages, PageOf
  <2>2. k = at[c]
    BY <1>1, <1>2, <2>1, ProgramType DEF PageAt
  <2> QED
    BY <1>2, <2>1, <2>2 DEF PageAt
<1> HIDE DEF n
<1>5. page[c] \in [size : Int, count : Int]
  BY DEF HandlesInv, Typed
<1>6. /\ page'[c].size \in Nat /\ page'[c].count = n
      /\ page' \in [Callers -> [size : Int, count : Int]] /\ DOMAIN seen' = Callers
  <2> DEFINE new == [page[c] EXCEPT !.count = n]
  <2>1. new \in [size : Int, count : Int] /\ new.size = page[c].size /\ new.count = n
    BY <1>3, <1>5
  <2> HIDE DEF new
  <2>2. page' = [page EXCEPT ![c] = new] /\ page \in [Callers -> [size : Int, count : Int]] /\ DOMAIN seen' = Callers
    BY <1>1 DEF new, HandlesInv, Typed
  <2> QED
    BY <1>4, <2>1, <2>2
<1>7. Typed' /\ Statements' /\ \A b \in Callers : at'[b] = IF b = c THEN at[c] + 1 ELSE at[b]
  <2>1. /\ rows' \subseteq RowType /\ work' \in [Callers -> SUBSET RowType]
        /\ lock' \in Callers \cup {NoOne} /\ met' \in [Callers -> Callers \cup {NoOne}]
    BY <1>1 DEF HandlesInv, Typed
  <2> QED
    BY <1>1, <1>6, <2>1, FinishedTyped
<1>8. Locked' /\ Numbers'
  BY <1>1 DEF HandlesInv, Locked, Numbers
<1>9. Whole'
  BY <1>1, <1>7, FinishedWhole
<1>10. ASSUME NEW b \in Callers PROVE PageOf(b)'
  <2>1. CASE b = c
    <3> PICK k \in DOMAIN program[c].ops : k = at[c]
      BY <1>2
    <3>1. k < at'[c] /\ page'[c].count \in Nat \cup {-1} /\ page'[c].count \in seen'[c]
      BY <1>1, <1>2, <1>3, <1>4, <1>6, <1>7
    <3>2. PageAt(c, k)'
      BY <1>1, <1>2, <1>6, <3>1 DEF PageAt
    <3> QED
      BY <1>1, <2>1, <3>2 DEF PageOf
  <2>2. CASE b # c
    <3>1. page'[b] = page[b] /\ at'[b] = at[b] /\ seen'[b] = seen[b]
      BY <1>1, <1>7, <2>2 DEF HandlesInv, Typed
    <3> QED
      BY <1>1, <3>1, IdlePage
  <2> QED
    BY <2>1, <2>2
<1> QED
  BY <1>7, <1>8, <1>9, <1>10 DEF HandlesInv, Pages

LEMMA CallKeeps ==
  ASSUME HandlesInv, NEW c \in Callers, Call(c)
  PROVE  HandlesInv'
<1>1. CASE Begin(c)
  BY <1>1, BeginKeeps
<1>2. CASE Build(c)
  BY <1>2, BuildKeeps
<1>3. CASE Read(c)
  BY <1>3, ReadKeeps
<1>4. CASE Execute(c)
  BY <1>4, ExecuteAloneKeeps, ExecuteInTransactionKeeps
<1>5. CASE GiveUp(c)
  BY <1>5, GiveUpKeeps
<1>6. CASE Fail(c)
  BY <1>6, FailKeeps
<1>7. CASE Commit(c)
  BY <1>7, CommitKeeps
<1>8. CASE FindPage(c)
  BY <1>8, FindPageKeeps
<1>9. CASE CountPage(c)
  BY <1>9, CountPageKeeps
<1> QED
  BY <1>1, <1>2, <1>3, <1>4, <1>5, <1>6, <1>7, <1>8, <1>9 DEF Call

-----------------------------------------------------------------------------
(* The properties.                                                          *)

\* The invariant: a caller and a request do not touch each other's variables;
\* a request reads how many messages there are.
THEOREM IInvHolds == Spec => []IInv
<1>1. Init => IInv
  BY HandlesStart, ListsStart DEF Init, IInv
<1>2. IInv /\ [Next]_vars => IInv'
  <2> SUFFICES ASSUME IInv, [Next]_vars PROVE IInv'
    OBVIOUS
  <2>1. ASSUME NEW c \in Callers, Call(c), UNCHANGED listVars PROVE IInv'
    BY <2>1, CallKeeps, ListsRest DEF IInv
  <2>2. ASSUME NEW q \in Requests, List(q, Messages(rows)), UNCHANGED handleVars PROVE IInv'
    <3>1. Messages(rows) \in Nat
      BY MessagesAreNat DEF IInv, HandlesInv, Numbers, Numbered
    <3> QED
      BY <2>2, <3>1, ListKeeps, HandlesRest DEF IInv
  <2>3. CASE UNCHANGED vars
    BY <2>3, HandlesRest, ListsRest DEF IInv, vars
  <2> QED
    BY <2>1, <2>2, <2>3 DEF Next
<1> QED
  BY <1>1, <1>2, PTL DEF Spec

\* Rows have numbers of their own, conditions are on columns of the statement's
\* table, and only who has the lock has uncommitted rows (gen.go:40-127,
\* audit.go:14-62, admin/server.go:51-59).
THEOREM TypeCorrect == Spec => []TypeOK
<1>1. HandlesInv => HandlesTypeOK
  <2> SUFFICES ASSUME HandlesInv PROVE HandlesTypeOK
    OBVIOUS
  <2>1. \A c \in Callers : stmt[c] = None \/ stmt[c].where \subseteq Columns[Target(Op(c).dao)]
    BY OpType DEF HandlesInv, Statements
  <2>2. \A c \in Callers : at[c] \in 0 .. Len(program[c].ops) + 2
    BY OpType DEF HandlesInv
  <2>3. \A c \in Callers : page[c] = NoPage \/ (page[c].size \in Nat /\ page[c].count \in Nat \cup {-1})
    BY DEF HandlesInv, Pages, PageOf, PageAt
  <2>4. \A r \in rows : r.dao \in Table /\ r.id \in Nat \ {0} /\ r.by \in Callers
    BY DEF HandlesInv, Typed, RowType
  <2>5. shared \in [Dao -> SUBSET STRING]
    BY DEF HandlesInv, Typed
  <2> QED
    BY <2>1, <2>2, <2>3, <2>4, <2>5
    DEF HandlesInv, Typed, Locked, Numbers, Numbered, HandlesTypeOK
<1>2. ListsInv => ListsTypeOK
  BY DEF ListsInv, ListsTyped, ListsTypeOK
<1> QED
  BY <1>1, <1>2, IInvHolds, PTL DEF IInv, TypeOK

\* A statement has the conditions of its own operation and goes to its caller's
\* transaction or to the database; what a transaction writes is there as a whole
\* or not at all, and it never waits for its own lock (gen.go:40-127).
THEOREM CallsStayApart == Spec => []CallsDoNotMix
<1>1. HandlesInv => StatementIsOwn
  BY DEF HandlesInv, Statements, StatementIsOwn
<1>2. HandlesInv => TransactionWhole
  <2> SUFFICES ASSUME HandlesInv PROVE TransactionWhole
    OBVIOUS
  <2>1. ASSUME NEW c \in Callers, program[c].transaction
        PROVE  {r.dao : r \in {q \in rows : q.by = c}} \in {{}, Written(c)}
    <3>1. Tables(By(rows, c)) = {r.dao : r \in {q \in rows : q.by = c}}
      BY DEF Tables, By
    <3>2. WholeOf(c)
      BY <2>1 DEF HandlesInv, Whole
    <3>3. By(rows, c) = {} => Tables(By(rows, c)) = {}
      BY DEF Tables
    <3> QED
      BY <3>1, <3>2, <3>3 DEF WholeOf
  <2> QED
    BY <2>1 DEF HandlesInv, Whole, TransactionWhole
<1> QED
  BY <1>1, <1>2, IInvHolds, PTL DEF IInv, CallsDoNotMix

\* The total of FindByPage was the number of rows at some moment of the call,
\* also if it is made up from the page (received_message.gen.go:403-416).
THEOREM TotalWasTrue == Spec => []PageTotalSeen
<1>1. HandlesInv => PageTotalSeen
  <2> SUFFICES ASSUME HandlesInv, NEW c \in Callers, at[c] = Over(c), page[c] # NoPage
               PROVE  page[c].count \in seen[c]
    BY DEF PageTotalSeen
  <2>1. PICK k \in DOMAIN program[c].ops : PageAt(c, k)
    BY DEF HandlesInv, Pages, PageOf
  <2>2. k # at[c] /\ at[c] <= Over(c)
    BY OpType DEF HandlesInv
  <2> QED
    BY <2>1, <2>2 DEF PageAt
<1> QED
  BY <1>1, IInvHolds, PTL DEF IInv

\* A request that is alone on its route answers exactly what its SELECT has
\* returned, or an error without rows (admin/server.go:51-59).
THEOREM LoneAnswer == Spec => []LoneAnswerExact
BY IInvHolds, PTL DEF IInv, ListsInv
=============================================================================
