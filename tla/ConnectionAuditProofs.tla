------------------------ MODULE ConnectionAuditProofs ------------------------
(***************************************************************************)
(* What ConnectionAudit promises for every set of connections, every       *)
(* assignment of client ids and every number of faults.                    *)
(***************************************************************************)
EXTENDS ConnectionAudit, TLAPS

(* How a goroutine's local data go with its position in the hook.          *)
Bookkeeping ==
  \A c \in Conn :
    /\ connectionIDs[c] # 0 => phase[c] \in Serving
    /\ target[c] # 0 => phase[c] \in {"updating", "leaving"}
    /\ phase[c] \in {"updating", "leaving"} => target[c] # 0
    /\ phase[c] = "leaving" => c \in stopped
    /\ phase[c] = "updating" =>
         \A other \in RowsOf(ClientOf[c]) : target[c] <= other

\* The inductive invariant.
IInv == TypeOK /\ Bookkeeping /\ OwnRow /\ GhostOnlyAfterLostUpdate

-----------------------------------------------------------------------------
(* What the three writing statements do to the table.                      *)

LEMMA RowsInserted ==
  ASSUME NEW table \in Seq(Row), NEW row \in Row
  PROVE  LET new == Append(table, row) IN
         /\ new \in Seq(Row)
         /\ DOMAIN new = DOMAIN table \cup {Len(table) + 1}
         /\ \A id \in DOMAIN table : id <= Len(table) /\ new[id] = table[id]
         /\ new[Len(table) + 1] = row
OBVIOUS

LEMMA RowsOpened ==
  ASSUME NEW table \in Seq(Row), NEW id \in DOMAIN table, NEW c \in Conn
  PROVE  LET new == [table EXCEPT ![id] = Opened(@, c)] IN
         /\ new \in Seq(Row)
         /\ DOMAIN new = DOMAIN table
         /\ \A other \in DOMAIN table : other # id => new[other] = table[other]
         /\ new[id].status = "connected" /\ new[id].session = c
         /\ new[id].client = table[id].client
         /\ new[id].leftBy = table[id].leftBy
<1>1. table[id] \in Row
  OBVIOUS
<1>2. /\ Opened(table[id], c) \in Row
      /\ Opened(table[id], c).status = "connected" /\ Opened(table[id], c).session = c
      /\ Opened(table[id], c).client = table[id].client
      /\ Opened(table[id], c).leftBy = table[id].leftBy
  BY <1>1 DEF Row, Opened
<1> QED
  BY <1>2

LEMMA RowsClosed ==
  ASSUME NEW table \in Seq(Row), NEW id \in DOMAIN table, NEW c \in Conn
  PROVE  LET new == [table EXCEPT ![id] = Closed(@, c)] IN
         /\ new \in Seq(Row)
         /\ DOMAIN new = DOMAIN table
         /\ \A other \in DOMAIN table : other # id => new[other] = table[other]
         /\ new[id].status = "disconnected"
         /\ new[id].client = table[id].client
         /\ new[id].session = table[id].session
         /\ new[id].leftBy = c
<1>1. table[id] \in Row
  OBVIOUS
<1>2. /\ Closed(table[id], c) \in Row
      /\ Closed(table[id], c).status = "disconnected"
      /\ Closed(table[id], c).client = table[id].client
      /\ Closed(table[id], c).session = table[id].session
      /\ Closed(table[id], c).leftBy = c
  BY <1>1 DEF Row, Closed
<1> QED
  BY <1>2

-----------------------------------------------------------------------------
LEMMA InitIInv == Init => IInv
BY NoConnAssumption
DEF Init, IInv, TypeOK, Bookkeeping, Serving, OwnRow, GhostOnlyAfterLostUpdate, Phase,
    Outside, RowsOf

(* The library's steps change no row, no entry and no local variable.       *)
LEMMA LibraryStep ==
  ASSUME IInv, NEW c \in Conn, Library(c)
  PROVE  IInv'
<1> USE DEF IInv
<1>1. TypeOK'
  BY DEF TypeOK, Phase, Serving, Outside, Attached, Goto,
         Library, Accept, Refuse, Register, AckFails, Drop, Publish, Published
<1>2. /\ UNCHANGED <<connectionIDs, target, rows, orphaned, lost>>
      /\ stopped \subseteq stopped'
      /\ phase' \in [Conn -> Phase]
      /\ \A d \in Conn, p \in {"updating", "leaving"} : phase'[d] = p <=> phase[d] = p
      /\ \A d \in Conn : phase'[d] \in Serving <=> phase[d] \in Serving
  BY <1>1 DEF TypeOK, Attached, Serving, Goto, Library, Accept, Refuse, Register, AckFails, Drop, Publish, Published
<1>3. Bookkeeping'
  BY <1>2 DEF Bookkeeping, Serving, RowsOf
<1>4. OwnRow'
  BY <1>2 DEF OwnRow
<1>5. GhostOnlyAfterLostUpdate'
  BY <1>2 DEF GhostOnlyAfterLostUpdate, Holds, Serving
<1> QED
  BY <1>1, <1>3, <1>4, <1>5

LEMMA ProcessStep ==
  ASSUME IInv, Process
  PROVE  IInv'
<1> USE DEF IInv
<1>1. CASE Shutdown \/ ShutdownDone \/ Start
  <2>1. /\ UNCHANGED <<phase, connectionIDs, target, rows, faults, orphaned, lost>>
        /\ stopped \subseteq stopped'
        /\ stopped' \subseteq Conn
        /\ server' \in {"up", "closing", "down"}
    BY <1>1 DEF TypeOK, Shutdown, ShutdownDone, Start
  <2> QED
    BY <2>1 DEF TypeOK, Bookkeeping, Serving, RowsOf, OwnRow, GhostOnlyAfterLostUpdate, Holds
<1>2. CASE Crash
  <2>1. TypeOK'
    <3>1. DOMAIN rows \subseteq Nat
      BY DEF TypeOK
    <3>2. orphaned' \in SUBSET Nat
      BY <1>2, <3>1 DEF TypeOK, Crash
    <3> QED
      BY <1>2, <3>2 DEF TypeOK, Crash, Phase, Serving, Outside
  <2>2. Bookkeeping'
    BY <1>2 DEF Crash, Bookkeeping, Serving
  <2>3. OwnRow'
    BY <1>2 DEF Crash, OwnRow
  <2>4. GhostOnlyAfterLostUpdate'
    BY <1>2 DEF Crash, GhostOnlyAfterLostUpdate
  <2> QED
    BY <2>1, <2>2, <2>3, <2>4
<1> QED
  BY <1>1, <1>2 DEF Process

-----------------------------------------------------------------------------
(* The hook's steps, one by one.                                           *)

LEMMA FindRowStep ==
  ASSUME IInv, NEW c \in Conn, FindRow(c)
  PROVE  IInv'
<1> USE ClientOfAssumption DEF IInv
<1>1. TypeOK'
  <2>1. DOMAIN rows \subseteq Nat
    BY DEF TypeOK
  <2>2. target' \in [Conn -> Nat]
    BY <2>1 DEF TypeOK, FindRow, RowsOf
  <2> QED
    BY <2>2 DEF TypeOK, FindRow, Goto, Phase, Serving, Outside, Attached
<1>2. Bookkeeping'
  <2>1. phase[c] = "registered" /\ UNCHANGED <<rows, stopped, connectionIDs>>
    BY DEF FindRow
  <2>2. \A d \in Conn \ {c} : phase'[d] = phase[d] /\ target'[d] = target[d]
    BY DEF TypeOK, FindRow, Goto
  <2>3. /\ connectionIDs[c] = 0 /\ target[c] = 0
        /\ \/ phase'[c] = "creating" /\ target'[c] = 0
           \/ /\ phase'[c] = "updating" /\ target'[c] \in RowsOf(ClientOf[c])
              /\ \A other \in RowsOf(ClientOf[c]) : target'[c] <= other
    BY <2>1 DEF TypeOK, Bookkeeping, Serving, FindRow, Goto
  <2>4. 0 \notin RowsOf(ClientOf[c])
    BY DEF TypeOK, RowsOf
  <2> QED
    BY <2>1, <2>2, <2>3, <2>4 DEF Bookkeeping, RowsOf
<1>3. OwnRow'
  BY DEF TypeOK, OwnRow, FindRow, Goto, RowsOf
<1>4. GhostOnlyAfterLostUpdate'
  <2>1. UNCHANGED <<rows, orphaned, connectionIDs>>
    BY DEF FindRow
  <2>2. phase[c] = "registered" /\ phase \in [Conn -> Phase]
    BY DEF FindRow, TypeOK
  <2>3. \A d \in Conn \ {c} : phase'[d] = phase[d] /\ target'[d] = target[d]
    BY <2>2 DEF TypeOK, FindRow, Goto
  <2>4. \A d \in Conn : \A id : Holds(d, id) => Holds(d, id)'
    BY <2>1, <2>2, <2>3 DEF Holds, Serving
  <2> QED
    BY <2>1, <2>4 DEF GhostOnlyAfterLostUpdate
<1> QED
  BY <1>1, <1>2, <1>3, <1>4

LEMMA InsertRowStep ==
  ASSUME IInv, NEW c \in Conn, InsertRow(c)
  PROVE  IInv'
<1> USE ClientOfAssumption DEF IInv
<1> DEFINE row == [client |-> ClientOf[c], status |-> "connected",
                   session |-> c, leftBy |-> NoConn]
<1>1. row \in Row
  BY DEF Row
<1>2. /\ rows' = Append(rows, row)
      /\ rows \in Seq(Row)
  BY DEF InsertRow, TypeOK
<1>3. /\ rows' \in Seq(Row)
      /\ DOMAIN rows' = DOMAIN rows \cup {Len(rows) + 1}
      /\ \A id \in DOMAIN rows : id <= Len(rows) /\ rows'[id] = rows[id]
      /\ rows'[Len(rows) + 1] = row
  BY <1>1, <1>2, RowsInserted
<1>4. Len(rows) \in Nat /\ DOMAIN rows = 1 .. Len(rows)
  BY <1>2
<1> HIDE DEF row
<1>5. TypeOK'
  BY <1>3, <1>4 DEF TypeOK, InsertRow, Goto, Phase, Serving, Outside, Attached
<1>6. Bookkeeping'
  <2> SUFFICES ASSUME NEW d \in Conn
      PROVE  /\ connectionIDs'[d] # 0 => phase'[d] \in Serving
             /\ target'[d] # 0 => phase'[d] \in {"updating", "leaving"}
             /\ phase'[d] \in {"updating", "leaving"} => target'[d] # 0
             /\ phase'[d] = "leaving" => d \in stopped'
             /\ phase'[d] = "updating" =>
                  \A other \in RowsOf(ClientOf[d])' : target'[d] <= other
    BY DEF Bookkeeping, Serving
  <2>1. /\ connectionIDs'[d] # 0 => phase'[d] \in Serving
        /\ target'[d] # 0 => phase'[d] \in {"updating", "leaving"}
        /\ phase'[d] \in {"updating", "leaving"} => target'[d] # 0
        /\ phase'[d] = "leaving" => d \in stopped'
    BY <1>3, <1>4 DEF TypeOK, Bookkeeping, Serving, InsertRow, Goto
  <2>2. ASSUME phase'[d] = "updating", NEW other \in RowsOf(ClientOf[d])'
        PROVE  target'[d] <= other
    <3>1. phase[d] = "updating" /\ target'[d] = target[d]
      BY <2>2 DEF TypeOK, InsertRow, Goto
    <3>2. target[d] \in DOMAIN rows
      BY <3>1 DEF Bookkeeping, Serving, OwnRow
    <3>3. CASE other = Len(rows) + 1
      BY <3>1, <3>2, <3>3, <1>4
    <3>4. CASE other \in DOMAIN rows
      BY <3>1, <3>4, <2>2, <1>3 DEF Bookkeeping, Serving, RowsOf
    <3> QED
      BY <3>3, <3>4, <2>2, <1>3 DEF RowsOf
  <2> QED
    BY <2>1, <2>2
<1>7. OwnRow'
  <2> SUFFICES ASSUME NEW d \in Conn, NEW id \in {connectionIDs'[d], target'[d]} \ {0}
      PROVE  id \in DOMAIN rows' /\ rows'[id].client = ClientOf[d]
    BY DEF OwnRow
  <2>1. CASE d = c /\ id = Len(rows) + 1
    BY <2>1, <1>3 DEF row
  <2>2. CASE id \in {connectionIDs[d], target[d]}
    BY <2>2, <1>3 DEF OwnRow
  <2> QED
    BY <2>1, <2>2 DEF InsertRow, TypeOK
<1>8. GhostOnlyAfterLostUpdate'
  <2> SUFFICES ASSUME NEW id \in DOMAIN rows', rows'[id].status = "connected"
      PROVE  id \in orphaned' \/ \E d \in Conn : Holds(d, id)'
    BY DEF GhostOnlyAfterLostUpdate
  <2>1. CASE id = Len(rows) + 1
    <3>1. Holds(c, id)'
      BY <2>1 DEF InsertRow, Goto, Holds, Serving, TypeOK
    <3> QED
      BY <3>1
  <2>2. CASE id \in DOMAIN rows
    <3>1. \A d \in Conn : Holds(d, id) => Holds(d, id)'
      BY DEF InsertRow, Goto, Holds, Serving, TypeOK
    <3> QED
      BY <3>1, <2>2, <1>3 DEF GhostOnlyAfterLostUpdate, InsertRow
  <2> QED
    BY <2>1, <2>2, <1>3
<1> QED
  BY <1>5, <1>6, <1>7, <1>8

LEMMA UpdateRowStep ==
  ASSUME IInv, NEW c \in Conn, UpdateRow(c)
  PROVE  IInv'
<1> USE ClientOfAssumption DEF IInv
<1> DEFINE mine == target[c]
<1>1. /\ rows \in Seq(Row)
      /\ mine \in DOMAIN rows /\ mine # 0
      /\ rows[mine].client = ClientOf[c]
  BY DEF UpdateRow, TypeOK, Bookkeeping, Serving, OwnRow
<1>2. rows' = [rows EXCEPT ![mine] = Opened(@, c)]
  BY DEF UpdateRow
<1>3. /\ rows' \in Seq(Row)
      /\ DOMAIN rows' = DOMAIN rows
      /\ \A id \in DOMAIN rows : id # mine => rows'[id] = rows[id]
      /\ rows'[mine].client = rows[mine].client
  BY <1>1, <1>2, RowsOpened
<1>4. \A d \in Conn : RowsOf(ClientOf[d])' = RowsOf(ClientOf[d])
  BY <1>3 DEF RowsOf
<1>5. TypeOK'
  BY <1>3 DEF TypeOK, UpdateRow, Goto, Phase, Serving, Outside, Attached
<1>6. Bookkeeping'
  BY <1>4 DEF TypeOK, Bookkeeping, Serving, UpdateRow, Goto
<1>7. OwnRow'
  BY <1>1, <1>3 DEF TypeOK, OwnRow, UpdateRow
<1>8. GhostOnlyAfterLostUpdate'
  <2>1. ASSUME NEW id \in DOMAIN rows, id = mine PROVE Holds(c, id)'
    BY <2>1 DEF TypeOK, UpdateRow, Goto, Holds, Serving
  <2>2. \A d \in Conn, id \in DOMAIN rows : Holds(d, id) => Holds(d, id)'
    BY DEF TypeOK, UpdateRow, Goto, Holds, Serving
  <2> QED
    BY <2>1, <2>2, <1>3 DEF GhostOnlyAfterLostUpdate, UpdateRow
<1> QED
  BY <1>5, <1>6, <1>7, <1>8

LEMMA EstablishFailsStep ==
  ASSUME IInv, NEW c \in Conn, EstablishFails(c)
  PROVE  IInv'
<1> USE DEF IInv
<1>1. TypeOK'
  BY MaxFaultsAssumption
  DEF TypeOK, EstablishFails, Fault, Goto, Phase, Serving, Outside, Attached
<1>2. Bookkeeping'
  BY DEF TypeOK, Bookkeeping, Serving, EstablishFails, Goto, RowsOf
<1>3. OwnRow'
  BY DEF TypeOK, OwnRow, EstablishFails
<1>4. GhostOnlyAfterLostUpdate'
  BY DEF TypeOK, GhostOnlyAfterLostUpdate, EstablishFails, Goto, Holds, Serving
<1> QED
  BY <1>1, <1>2, <1>3, <1>4

LEMMA LeaveStep ==
  ASSUME IInv, NEW c \in Conn, Leave(c)
  PROVE  IInv'
<1> USE DEF IInv
<1>1. TypeOK'
  BY DEF TypeOK, Leave, Goto, Phase, Serving, Outside, Attached
<1>2. Bookkeeping'
  BY DEF TypeOK, Bookkeeping, Serving, Leave, Goto, RowsOf
<1>3. OwnRow'
  BY DEF TypeOK, OwnRow, Leave
<1>4. GhostOnlyAfterLostUpdate'
  <2>1. \A d \in Conn, id \in DOMAIN rows : Holds(d, id) => Holds(d, id)'
    BY DEF TypeOK, Leave, Goto, Holds, Serving
  <2> QED
    BY <2>1 DEF GhostOnlyAfterLostUpdate, Leave
<1> QED
  BY <1>1, <1>2, <1>3, <1>4

LEMMA MarkDisconnectedStep ==
  ASSUME IInv, NEW c \in Conn, MarkDisconnected(c)
  PROVE  IInv'
<1> USE ClientOfAssumption DEF IInv
<1> DEFINE mine == target[c]
<1>1. /\ rows \in Seq(Row)
      /\ mine \in DOMAIN rows
  BY DEF MarkDisconnected, TypeOK, Bookkeeping, Serving, OwnRow
<1>2. rows' = [rows EXCEPT ![mine] = Closed(@, c)]
  BY DEF MarkDisconnected
<1>3. /\ rows' \in Seq(Row)
      /\ DOMAIN rows' = DOMAIN rows
      /\ \A id \in DOMAIN rows : id # mine => rows'[id] = rows[id]
      /\ rows'[mine].client = rows[mine].client
      /\ rows'[mine].status = "disconnected"
  <2> HIDE DEF mine
  <2> QED
    BY <1>1, <1>2, RowsClosed
<1>4. \A d \in Conn : RowsOf(ClientOf[d])' = RowsOf(ClientOf[d])
  BY <1>3 DEF RowsOf
<1>5. TypeOK'
  BY <1>3 DEF TypeOK, MarkDisconnected, Goto, Phase, Serving, Outside, Attached
<1>6. Bookkeeping'
  BY <1>4 DEF TypeOK, Bookkeeping, Serving, MarkDisconnected, Goto
<1>7. OwnRow'
  BY <1>1, <1>3 DEF TypeOK, OwnRow, MarkDisconnected
<1>8. GhostOnlyAfterLostUpdate'
  <2>1. \A d \in Conn, id \in DOMAIN rows \ {mine} : Holds(d, id) => Holds(d, id)'
    BY DEF TypeOK, MarkDisconnected, Goto, Holds, Serving
  <2> QED
    BY <2>1, <1>3 DEF GhostOnlyAfterLostUpdate, MarkDisconnected
<1> QED
  BY <1>5, <1>6, <1>7, <1>8

LEMMA MarkFailsStep ==
  ASSUME IInv, NEW c \in Conn, MarkFails(c)
  PROVE  IInv'
<1> USE DEF IInv
<1>1. TypeOK'
  <2>1. orphaned' \in SUBSET Nat
    BY DEF TypeOK, MarkFails
  <2>2. phase' \in [Conn -> Phase] /\ target' \in [Conn -> Nat]
    BY DEF TypeOK, MarkFails, Goto, Phase, Serving, Outside
  <2> QED
    BY <2>1, <2>2 DEF TypeOK, MarkFails, Fault
<1>2. Bookkeeping'
  BY DEF TypeOK, Bookkeeping, Serving, MarkFails, Goto, RowsOf
<1>3. OwnRow'
  BY DEF TypeOK, OwnRow, MarkFails
<1>4. GhostOnlyAfterLostUpdate'
  <2>1. \A d \in Conn, id \in DOMAIN rows \ {target[c]} : Holds(d, id) => Holds(d, id)'
    BY DEF TypeOK, MarkFails, Goto, Holds, Serving
  <2> QED
    BY <2>1 DEF GhostOnlyAfterLostUpdate, MarkFails
<1> QED
  BY <1>1, <1>2, <1>3, <1>4

-----------------------------------------------------------------------------
LEMMA NextIInv == IInv /\ [Next]_vars => IInv'
<1> SUFFICES ASSUME IInv, [Next]_vars PROVE IInv'
  OBVIOUS
<1>1. ASSUME NEW c \in Conn, Hook(c) PROVE IInv'
  BY <1>1, FindRowStep, InsertRowStep, UpdateRowStep, EstablishFailsStep,
     LeaveStep, MarkDisconnectedStep, MarkFailsStep DEF Hook, Statements
<1>2. CASE UNCHANGED vars
  BY <1>2 DEF vars, IInv, TypeOK, Bookkeeping, RowsOf, OwnRow,
              GhostOnlyAfterLostUpdate, Holds
<1> QED
  BY <1>1, <1>2, LibraryStep, ProcessStep DEF Next

\* Every reachable state satisfies the inductive invariant, for all constants.
THEOREM IInvHolds == Spec => []IInv
BY InitIInv, NextIInv, PTL DEF Spec

\* The variables keep their types: in particular no goroutine uses an entry
\* or a row id that is not a number of the table.
THEOREM TypeCorrect == Spec => []TypeOK
<1>1. IInv => TypeOK
  BY DEF IInv
<1> QED
  BY IInvHolds, <1>1, PTL

\* No connection ever writes into another client's row.
THEOREM OwnRowHolds == Spec => []OwnRow
<1>1. IInv => OwnRow
  BY DEF IInv
<1> QED
  BY IInvHolds, <1>1, PTL

\* A row is left at "connected" only by a lost update, however many
\* connections of a client overlap.
THEOREM NoGhost == Spec => []GhostOnlyAfterLostUpdate
<1>1. IInv => GhostOnlyAfterLostUpdate
  BY DEF IInv
<1> QED
  BY IInvHolds, <1>1, PTL

-----------------------------------------------------------------------------
(* The action properties.                                                  *)

\* The steps other than the two Updates leave every row that exists as it is.
LEMMA OtherStepsKeepRows ==
  ASSUME TypeOK, [Next]_vars,
         \A c \in Conn : ~UpdateRow(c) /\ ~MarkDisconnected(c)
  PROVE  \A id \in DOMAIN rows : rows'[id] = rows[id]
<1>1. ASSUME NEW c \in Conn, InsertRow(c)
      PROVE  \A id \in DOMAIN rows : rows'[id] = rows[id]
  <2>1. [client |-> ClientOf[c], status |-> "connected",
         session |-> c, leftBy |-> NoConn] \in Row
    BY ClientOfAssumption DEF Row
  <2> QED
    BY <1>1, <2>1, RowsInserted DEF InsertRow, TypeOK
<1>2. CASE UNCHANGED rows
  BY <1>2
<1>3. Process \/ UNCHANGED vars => UNCHANGED rows
  BY DEF vars, Process, Shutdown, ShutdownDone, Crash, Start
<1>4. \A c \in Conn : Library(c) => UNCHANGED rows
  BY DEF Library, Accept, Refuse, Register, AckFails, Drop, Publish, Published
<1>5. \A c \in Conn : Hook(c) => InsertRow(c) \/ UNCHANGED rows
  BY DEF Hook, Statements, FindRow, EstablishFails, Leave, MarkFails
<1> QED
  BY <1>1, <1>2, <1>3, <1>4, <1>5 DEF Next

\* What UpdateRow does to the rows.
LEMMA UpdateRowRows ==
  ASSUME IInv, NEW c \in Conn, UpdateRow(c)
  PROVE  /\ target[c] \in DOMAIN rows
         /\ rows[target[c]].client = ClientOf[c]
         /\ \A other \in RowsOf(ClientOf[c]) : target[c] <= other
         /\ DOMAIN rows' = DOMAIN rows
         /\ rows'[target[c]].status = "connected" /\ rows'[target[c]].session = c
         /\ \A id \in DOMAIN rows :
              /\ rows'[id].leftBy = rows[id].leftBy
              /\ rows'[id].client = rows[id].client
              /\ id # target[c] => rows'[id] = rows[id]
<1> DEFINE mine == target[c]
<1>1. /\ rows \in Seq(Row)
      /\ mine \in DOMAIN rows
      /\ rows[mine].client = ClientOf[c]
      /\ \A other \in RowsOf(ClientOf[c]) : mine <= other
  BY DEF UpdateRow, IInv, TypeOK, Bookkeeping, Serving, OwnRow
<1>2. rows' = [rows EXCEPT ![mine] = Opened(@, c)]
  BY DEF UpdateRow
<1> HIDE DEF mine
<1>3. /\ DOMAIN rows' = DOMAIN rows
      /\ \A id \in DOMAIN rows : id # mine => rows'[id] = rows[id]
      /\ rows'[mine].status = "connected" /\ rows'[mine].session = c
      /\ rows'[mine].client = rows[mine].client
      /\ rows'[mine].leftBy = rows[mine].leftBy
  BY <1>1, <1>2, RowsOpened
<1> QED
  BY <1>1, <1>3 DEF mine

\* What MarkDisconnected does to the rows.
LEMMA MarkDisconnectedRows ==
  ASSUME IInv, NEW c \in Conn, MarkDisconnected(c)
  PROVE  /\ target[c] \in DOMAIN rows
         /\ rows[target[c]].client = ClientOf[c]
         /\ rows'[target[c]].status = "disconnected"
         /\ rows'[target[c]].leftBy = c
         /\ rows'[target[c]].session = rows[target[c]].session
         /\ DOMAIN rows' = DOMAIN rows
         /\ \A id \in DOMAIN rows :
              /\ rows'[id].client = rows[id].client
              /\ id # target[c] => rows'[id] = rows[id]
<1> DEFINE mine == target[c]
<1>1. /\ rows \in Seq(Row)
      /\ mine \in DOMAIN rows
      /\ rows[mine].client = ClientOf[c]
  BY DEF MarkDisconnected, IInv, TypeOK, Bookkeeping, Serving, OwnRow
<1>2. rows' = [rows EXCEPT ![mine] = Closed(@, c)]
  BY DEF MarkDisconnected
<1> HIDE DEF mine
<1>3. /\ rows' \in Seq(Row)
      /\ DOMAIN rows' = DOMAIN rows
      /\ \A id \in DOMAIN rows : id # mine => rows'[id] = rows[id]
      /\ rows'[mine].status = "disconnected"
      /\ rows'[mine].client = rows[mine].client
      /\ rows'[mine].session = rows[mine].session
      /\ rows'[mine].leftBy = c
  BY <1>1, <1>2, RowsClosed
<1> QED
  BY <1>1, <1>3 DEF mine

LEMMA StepReopensOldest == IInv /\ [Next]_vars => OldestReopened
<1> SUFFICES ASSUME IInv, [Next]_vars PROVE OldestReopened
  OBVIOUS
<1>1. ASSUME NEW c \in Conn, UpdateRow(c) PROVE OldestReopened
  BY <1>1, UpdateRowRows DEF OldestReopened
<1>2. ASSUME NEW c \in Conn, MarkDisconnected(c) PROVE OldestReopened
  BY <1>2, MarkDisconnectedRows DEF OldestReopened
<1>3. CASE \A c \in Conn : ~UpdateRow(c) /\ ~MarkDisconnected(c)
  BY <1>3, OtherStepsKeepRows DEF OldestReopened, IInv
<1> QED
  BY <1>1, <1>2, <1>3

LEMMA StepKeepsDetails == IInv /\ [Next]_vars => DetailsOfTheEnded
<1> SUFFICES ASSUME IInv, [Next]_vars PROVE DetailsOfTheEnded
  OBVIOUS
<1>1. ASSUME NEW c \in Conn, UpdateRow(c) PROVE DetailsOfTheEnded
  BY <1>1, UpdateRowRows DEF DetailsOfTheEnded
<1>2. ASSUME NEW c \in Conn, MarkDisconnected(c) PROVE DetailsOfTheEnded
  <2>1. c \in stopped /\ phase'[c] = "done"
    BY <1>2 DEF IInv, TypeOK, Bookkeeping, Serving, MarkDisconnected, Goto
  <2> QED
    BY <1>2, <2>1, MarkDisconnectedRows DEF DetailsOfTheEnded
<1>3. CASE \A c \in Conn : ~UpdateRow(c) /\ ~MarkDisconnected(c)
  BY <1>3, OtherStepsKeepRows DEF DetailsOfTheEnded, IInv
<1> QED
  BY <1>1, <1>2, <1>3

\* A client's duplicate rows are dead once their session has ended.
THEOREM DuplicatesRetire == Spec => DuplicateRowsRetire
BY IInvHolds, StepReopensOldest, PTL DEF Spec, DuplicateRowsRetire

\* Disconnection details are only ever replaced by more recent ones of the
\* same client.
THEOREM DetailsArePreserved == Spec => DetailsPreserved
BY IInvHolds, StepKeepsDetails, PTL DEF Spec, DetailsPreserved

-----------------------------------------------------------------------------
(* While the connections of a client do not overlap.                        *)

(* Who still has to close a row is the session it shows.                    *)
Shown ==
  \A c \in Conn, id \in DOMAIN rows :
    Holds(c, id) => rows[id].status = "connected" /\ rows[id].session = c

(* Who is about to insert a row has been told the truth: there is none.     *)
NoRowYet == \A c \in Conn : phase[c] = "creating" => RowsOf(ClientOf[c]) = {}

SeqInv ==
  /\ IInv /\ OneAtATime /\ Shown /\ NoRowYet
  /\ OneRowPerClient /\ RowTellsOneSession

LEMMA InitSeqInv == Init => SeqInv
<1> SUFFICES ASSUME Init PROVE SeqInv
  OBVIOUS
<1>1. DOMAIN rows = {} /\ \A c \in Conn : phase[c] = "idle"
  BY DEF Init
<1> QED
  BY <1>1, InitIInv DEF SeqInv, OneAtATime, Running, Outside, Shown, NoRowYet,
     OneRowPerClient, RowTellsOneSession

(* A step that leaves the table alone may only forget a debt, and must not  *)
(* set out to insert a row for a client that has one.                       *)
LEMMA QuietStep ==
  ASSUME SeqInv, UNCHANGED rows,
         \A c \in Conn, id \in DOMAIN rows : Holds(c, id)' => Holds(c, id),
         \A c \in Conn : phase'[c] = "creating" => phase[c] = "creating" \/ RowsOf(ClientOf[c]) = {}
  PROVE  Shown' /\ NoRowYet' /\ OneRowPerClient' /\ RowTellsOneSession'
<1>1. \A c \in Conn : RowsOf(ClientOf[c])' = RowsOf(ClientOf[c])
  BY DEF RowsOf
<1> QED
  BY <1>1 DEF SeqInv, Shown, NoRowYet, OneRowPerClient, RowTellsOneSession

LEMMA OtherStepsQuiet ==
  ASSUME SeqInv, [Next]_vars,
         \A c \in Conn : ~InsertRow(c) /\ ~UpdateRow(c) /\ ~MarkDisconnected(c)
  PROVE  Shown' /\ NoRowYet' /\ OneRowPerClient' /\ RowTellsOneSession'
<1> USE DEF SeqInv, IInv
<1>1. ASSUME NEW c \in Conn, Library(c)
      PROVE  /\ UNCHANGED <<rows, connectionIDs, target>>
             /\ \A d \in Conn : phase'[d] \in {"leaving", "creating"} => phase'[d] = phase[d]
             /\ \A d \in Conn : phase'[d] \in Serving => phase[d] \in Serving
  BY <1>1 DEF TypeOK, Library, Accept, Refuse, Register, AckFails, Drop, Publish, Published, Goto,
              Serving
<1>2. ASSUME NEW c \in Conn, FindRow(c)
      PROVE  /\ UNCHANGED <<rows, connectionIDs>>
             /\ \A d \in Conn \ {c} : phase'[d] = phase[d] /\ target'[d] = target[d]
             /\ phase'[c] \in {"creating", "updating"}
             /\ phase'[c] = "creating" => RowsOf(ClientOf[c]) = {}
  BY <1>2 DEF TypeOK, FindRow, Goto
<1>3. ASSUME NEW c \in Conn, EstablishFails(c) \/ MarkFails(c)
      PROVE  /\ UNCHANGED <<rows, connectionIDs>>
             /\ \A d \in Conn \ {c} : phase'[d] = phase[d] /\ target'[d] = target[d]
             /\ phase'[c] = "done" \/ (phase'[c] = "reading" /\ connectionIDs[c] = 0)
  BY <1>3 DEF TypeOK, Bookkeeping, Serving, EstablishFails, MarkFails, Goto
<1>4. ASSUME NEW c \in Conn, Leave(c)
      PROVE  /\ UNCHANGED rows
             /\ \A d \in Conn \ {c} :
                  phase'[d] = phase[d] /\ target'[d] = target[d] /\ connectionIDs'[d] = connectionIDs[d]
             /\ phase[c] = "reading" /\ phase'[c] \in {"done", "leaving"} /\ target'[c] = connectionIDs[c]
  BY <1>4 DEF TypeOK, Leave, Goto
<1>5. CASE Crash
  <2>1. UNCHANGED rows /\ \A c \in Conn : phase'[c] \in Outside
    BY <1>5 DEF Crash, Outside
  <2> QED
    BY <2>1, QuietStep DEF Holds, Serving, Outside
<1>6. CASE Shutdown \/ ShutdownDone \/ Start \/ UNCHANGED vars
  <2>1. UNCHANGED <<phase, rows, connectionIDs, target>>
    BY <1>6 DEF Shutdown, ShutdownDone, Start, vars
  <2> QED
    BY <2>1, QuietStep DEF Holds, Serving
<1>7. 0 \notin DOMAIN rows
  BY DEF TypeOK
<1>8. ASSUME NEW c \in Conn, Library(c) PROVE Shown' /\ NoRowYet' /\ OneRowPerClient' /\ RowTellsOneSession'
  BY <1>1, <1>8, QuietStep DEF Holds, Serving
<1>9. ASSUME NEW c \in Conn, FindRow(c) PROVE Shown' /\ NoRowYet' /\ OneRowPerClient' /\ RowTellsOneSession'
  BY <1>2, <1>9, QuietStep DEF Holds, Serving
<1>10. ASSUME NEW c \in Conn, EstablishFails(c) \/ MarkFails(c)
       PROVE  Shown' /\ NoRowYet' /\ OneRowPerClient' /\ RowTellsOneSession'
  BY <1>3, <1>7, <1>10, QuietStep DEF Holds, Serving
<1>11. ASSUME NEW c \in Conn, Leave(c) PROVE Shown' /\ NoRowYet' /\ OneRowPerClient' /\ RowTellsOneSession'
  BY <1>4, <1>11, QuietStep DEF Holds, Serving
<1> QED
  BY <1>5, <1>6, <1>8, <1>9, <1>10, <1>11 DEF Next, Process, Hook, Statements

(* Nobody else of its client has anything to do with the table while c runs. *)
LEMMA OthersRest ==
  ASSUME SeqInv, NEW c \in Conn, Running(c), NEW d \in Conn, d # c, ClientOf[d] = ClientOf[c]
  PROVE  phase[d] \in Outside /\ \A id \in DOMAIN rows : ~Holds(d, id)
BY DEF SeqInv, OneAtATime, Running, Holds, Serving, Outside

\* The row a connection holds is its client's.
LEMMA HeldIsOwn ==
  ASSUME IInv, NEW c \in Conn, NEW id \in DOMAIN rows, Holds(c, id)
  PROVE  rows[id].client = ClientOf[c]
<1>1. id # 0
  BY DEF IInv, TypeOK
<1> QED
  BY <1>1 DEF IInv, OwnRow, Holds, Serving

LEMMA InsertRowQuiet ==
  ASSUME SeqInv, NEW c \in Conn, InsertRow(c)
  PROVE  Shown' /\ NoRowYet' /\ OneRowPerClient' /\ RowTellsOneSession'
<1> USE DEF SeqInv
<1> DEFINE row == [client |-> ClientOf[c], status |-> "connected",
                   session |-> c, leftBy |-> NoConn]
           new == Len(rows) + 1
<1>1. row \in Row
  BY ClientOfAssumption DEF Row
<1>2. /\ DOMAIN rows' = DOMAIN rows \cup {new} /\ new \notin DOMAIN rows
      /\ \A id \in DOMAIN rows : rows'[id] = rows[id]
      /\ rows'[new] = row
  BY <1>1, RowsInserted DEF InsertRow, IInv, TypeOK
<1>3. /\ row.client = ClientOf[c] /\ row.status = "connected" /\ row.session = c
  OBVIOUS
<1> HIDE DEF row, new
<1>4. Running(c) /\ \A id \in DOMAIN rows : rows[id].client # ClientOf[c]
  BY DEF InsertRow, Running, Outside, NoRowYet, RowsOf
<1>5. \A d \in Conn \ {c} :
        /\ phase'[d] = phase[d] /\ target'[d] = target[d]
        /\ connectionIDs'[d] = connectionIDs[d]
  BY DEF InsertRow, Goto, IInv, TypeOK
<1>6. phase'[c] = "reading" /\ connectionIDs'[c] = new
  BY DEF InsertRow, Goto, IInv, TypeOK, new
<1>7. Shown'
  <2> SUFFICES ASSUME NEW d \in Conn, NEW id \in DOMAIN rows', Holds(d, id)'
               PROVE  rows'[id].status = "connected" /\ rows'[id].session = d
    BY DEF Shown
  <2>1. CASE d = c
    BY <2>1, <1>2, <1>3, <1>6 DEF Holds, Serving
  <2>2. CASE d # c
    <3>1. Holds(d, id)
      BY <2>2, <1>5 DEF Holds, Serving
    <3>2. id # 0
      BY <1>2 DEF IInv, TypeOK, new
    <3>3. id \in DOMAIN rows
      BY <3>1, <3>2 DEF IInv, OwnRow, Holds, Serving
    <3> QED
      BY <3>1, <3>3, <1>2 DEF Shown
  <2> QED
    BY <2>1, <2>2
<1>8. NoRowYet'
  <2> SUFFICES ASSUME NEW d \in Conn, phase'[d] = "creating"
               PROVE  RowsOf(ClientOf[d])' = {}
    BY DEF NoRowYet
  <2>1. d # c /\ phase[d] = "creating"
    BY <1>5, <1>6
  <2>2. ClientOf[d] # ClientOf[c]
    BY <2>1, <1>4, OthersRest DEF Outside
  <2> QED
    BY <2>1, <2>2, <1>2, <1>3 DEF NoRowYet, RowsOf
<1>9. OneRowPerClient'
  BY <1>2, <1>3, <1>4 DEF OneRowPerClient
<1>10. RowTellsOneSession'
  BY <1>2, <1>3 DEF RowTellsOneSession
<1> QED
  BY <1>7, <1>8, <1>9, <1>10

\* An update of c's own row, by whichever of the two statements.
LEMMA OwnUpdateQuiet ==
  ASSUME SeqInv, NEW c \in Conn, Running(c),
         NEW mine \in DOMAIN rows, rows[mine].client = ClientOf[c],
         DOMAIN rows' = DOMAIN rows,
         \A id \in DOMAIN rows :
           rows'[id].client = rows[id].client /\ (id # mine => rows'[id] = rows[id]),
         rows'[mine].status = "disconnected" => rows'[mine].leftBy = rows'[mine].session,
         \A id \in DOMAIN rows : Holds(c, id)' =>
           id = mine /\ rows'[id].status = "connected" /\ rows'[id].session = c,
         \A d \in Conn \ {c} : \A id \in DOMAIN rows : Holds(d, id)' => Holds(d, id),
         \A d \in Conn : phase'[d] = "creating" => phase[d] = "creating"
  PROVE  Shown' /\ NoRowYet' /\ OneRowPerClient' /\ RowTellsOneSession'
<1> USE DEF SeqInv
<1>1. \A d \in Conn : RowsOf(ClientOf[d])' = RowsOf(ClientOf[d])
  BY DEF RowsOf
<1>2. NoRowYet' /\ OneRowPerClient' /\ RowTellsOneSession'
  BY <1>1 DEF NoRowYet, OneRowPerClient, RowTellsOneSession
<1>3. Shown'
  <2> SUFFICES ASSUME NEW d \in Conn, NEW id \in DOMAIN rows, Holds(d, id)', d # c
               PROVE  rows'[id].status = "connected" /\ rows'[id].session = d
    BY DEF Shown
  <2>1. Holds(d, id)
    OBVIOUS
  <2>2. id # mine
    BY <2>1, HeldIsOwn, OthersRest
  <2> QED
    BY <2>1, <2>2 DEF Shown
<1> QED
  BY <1>2, <1>3

LEMMA UpdateRowQuiet ==
  ASSUME SeqInv, NEW c \in Conn, UpdateRow(c)
  PROVE  Shown' /\ NoRowYet' /\ OneRowPerClient' /\ RowTellsOneSession'
<1>1. phase[c] = "updating" /\ Running(c)
  BY DEF UpdateRow, Running, Outside
<1>2. phase'[c] = "reading" /\ connectionIDs'[c] = target[c]
  BY DEF SeqInv, IInv, TypeOK, UpdateRow, Goto
<1>3. \A d \in Conn \ {c} :
        /\ phase'[d] = phase[d] /\ target'[d] = target[d]
        /\ connectionIDs'[d] = connectionIDs[d]
  BY DEF SeqInv, IInv, TypeOK, UpdateRow, Goto
<1> QED
  BY <1>1, <1>2, <1>3, UpdateRowRows, OwnUpdateQuiet DEF SeqInv, Holds, Serving

LEMMA MarkDisconnectedQuiet ==
  ASSUME SeqInv, NEW c \in Conn, MarkDisconnected(c)
  PROVE  Shown' /\ NoRowYet' /\ OneRowPerClient' /\ RowTellsOneSession'
<1>1. phase[c] = "leaving" /\ Running(c)
  BY DEF MarkDisconnected, Running, Outside
<1>2. phase'[c] = "done"
  BY DEF SeqInv, IInv, TypeOK, MarkDisconnected, Goto
<1>3. \A d \in Conn \ {c} :
        /\ phase'[d] = phase[d] /\ target'[d] = target[d]
        /\ connectionIDs'[d] = connectionIDs[d]
  BY DEF SeqInv, IInv, TypeOK, MarkDisconnected, Goto
<1>4. rows[target[c]].session = c
  BY <1>1, MarkDisconnectedRows DEF SeqInv, Shown, Holds, Serving
<1> QED
  BY <1>1, <1>2, <1>3, <1>4, MarkDisconnectedRows, OwnUpdateQuiet DEF SeqInv, Holds, Serving

LEMMA NextSeqInv == SeqInv /\ [Next /\ OneAtATime']_vars => SeqInv'
<1> SUFFICES ASSUME SeqInv, [Next /\ OneAtATime']_vars PROVE SeqInv'
  OBVIOUS
<1>1. IInv' /\ OneAtATime'
  BY NextIInv DEF SeqInv, vars, OneAtATime, Running
<1>2. Shown' /\ NoRowYet' /\ OneRowPerClient' /\ RowTellsOneSession'
  BY InsertRowQuiet, UpdateRowQuiet, MarkDisconnectedQuiet, OtherStepsQuiet
<1> QED
  BY <1>1, <1>2 DEF SeqInv

LEMMA SeqInvHolds == SequentialSpec => []SeqInv
BY InitSeqInv, NextSeqInv, PTL DEF SequentialSpec

LEMMA SeqInvTells == SeqInv => TableTrue
<1> SUFFICES ASSUME SeqInv PROVE LiveSessionShown
  BY DEF SeqInv, TableTrue
<1> SUFFICES ASSUME NEW c \in Conn, phase[c] \in Serving, connectionIDs[c] # 0
             PROVE  rows[connectionIDs[c]].status = "connected" /\ rows[connectionIDs[c]].session = c
  BY DEF LiveSessionShown
<1>1. connectionIDs[c] \in DOMAIN rows
  BY DEF SeqInv, IInv, OwnRow
<1> QED
  BY <1>1 DEF SeqInv, Shown, Holds, Serving

\* As long as a client comes back only after the goroutine of its last
\* connection has ended, the audit table is true, whatever fails or crashes: one
\* row per client, the live session in it, no row of two sessions (audit.go:35-62).
THEOREM SequentialTableTrue == SequentialSpec => []TableTrue
BY SeqInvHolds, SeqInvTells, PTL

-----------------------------------------------------------------------------
(* The refinement.  A debt <<c, id>> says that c still has to close id.     *)

LEMMA StatusColumn ==
  ASSUME NEW table \in Seq(Row)
  PROVE  LET column == [id \in DOMAIN table |-> table[id].status] IN
         /\ column \in Seq({"connected", "disconnected"})
         /\ Len(column) = Len(table)
<1> DEFINE column == [id \in DOMAIN table |-> table[id].status]
<1>1. DOMAIN table = 1 .. Len(table) /\ Len(table) \in Nat
  OBVIOUS
<1>2. \A id \in DOMAIN table : table[id].status \in {"connected", "disconnected"}
  <2>1. \A id \in DOMAIN table : table[id] \in Row
    OBVIOUS
  <2> QED
    BY <2>1 DEF Row
<1>3. column \in [1 .. Len(table) -> {"connected", "disconnected"}]
  BY <1>1, <1>2
<1> HIDE DEF column
<1>4. column \in Seq({"connected", "disconnected"}) /\ Len(column) = Len(table)
  BY <1>1, <1>3
<1> QED
  BY <1>4 DEF column

LEMMA LedgerInit == Init => Ledger!Init
<1> SUFFICES ASSUME Init PROVE Ledger!Init
  OBVIOUS
<1>1. rows = <<>> /\ orphaned = {}
  BY DEF Init
<1>2. Statuses = <<>>
  BY <1>1 DEF Statuses
<1>3. Debts = {}
  BY <1>1 DEF Debts
<1> QED
  BY <1>1, <1>2, <1>3 DEF Ledger!Init

LEMMA LedgerStutter ==
  ASSUME UNCHANGED <<rows, orphaned>>,
         \A c \in Conn, id \in DOMAIN rows : Holds(c, id)' <=> Holds(c, id)
  PROVE  UNCHANGED Ledger!vars
BY DEF Ledger!vars, Statuses, Debts

LEMMA LedgerInsert ==
  ASSUME IInv, IInv', NEW c \in Conn, InsertRow(c)
  PROVE  Ledger!OpenNew(c)
<1> DEFINE row == [client |-> ClientOf[c], status |-> "connected",
                   session |-> c, leftBy |-> NoConn]
<1>1. row \in Row
  BY ClientOfAssumption DEF Row
<1> PICK n \in Nat : n = Len(rows) + 1
  BY DEF IInv, TypeOK
<1>2. /\ DOMAIN rows' = DOMAIN rows \cup {n}
      /\ DOMAIN rows = 1 .. Len(rows)
      /\ Len(rows) \in Nat
      /\ \A id \in DOMAIN rows : rows'[id] = rows[id]
      /\ rows'[n].status = "connected"
  BY <1>1, RowsInserted DEF InsertRow, IInv, TypeOK
<1>3. /\ Statuses \in Seq({"connected", "disconnected"})
      /\ Len(Statuses) = Len(rows)
      /\ Statuses' \in Seq({"connected", "disconnected"})
      /\ DOMAIN Statuses = DOMAIN rows
      /\ DOMAIN Statuses' = DOMAIN rows'
  BY StatusColumn DEF IInv, TypeOK, Statuses
<1>4. Statuses' = Append(Statuses, "connected")
  <2>1. \A id \in DOMAIN rows : Statuses'[id] = Statuses[id]
    BY <1>2 DEF Statuses
  <2>2. Statuses'[n] = "connected"
    BY <1>2 DEF Statuses
  <2> HIDE DEF row
  <2> QED
    BY <2>1, <2>2, <1>2, <1>3
<1>5. \A id \in DOMAIN rows : <<c, id>> \notin Debts
  BY DEF Debts, Holds, Serving, InsertRow
<1>6. Debts' = Debts \cup {<<c, n>>}
  <2>1. \A d \in Conn, id \in DOMAIN rows : Holds(d, id)' <=> Holds(d, id)
    BY <1>2 DEF Holds, Serving, InsertRow, Goto, IInv, TypeOK
  <2>2. \A d \in Conn : Holds(d, n)' <=> d = c
    BY <1>2 DEF Holds, Serving, InsertRow, Goto, IInv, TypeOK, OwnRow
  <2> QED
    BY <1>2, <2>1, <2>2 DEF Debts
<1> QED
  BY <1>3, <1>4, <1>5, <1>6 DEF Ledger!OpenNew, Ledger!OwesNothing, InsertRow

LEMMA LedgerUpdate ==
  ASSUME IInv, NEW c \in Conn, UpdateRow(c)
  PROVE  Ledger!OpenAgain(c, target[c]) /\ target[c] \in DOMAIN Statuses
<1> PICK mine \in DOMAIN rows : mine = target[c]
  BY UpdateRowRows
<1>1. /\ rows \in Seq(Row)
      /\ rows' = [rows EXCEPT ![mine] = Opened(@, c)]
  BY DEF UpdateRow, IInv, TypeOK
<1>2. /\ DOMAIN rows' = DOMAIN rows
      /\ \A id \in DOMAIN rows : id # mine => rows'[id] = rows[id]
      /\ rows'[mine].status = "connected"
  BY <1>1, RowsOpened
<1>3. Statuses' = [Statuses EXCEPT ![mine] = "connected"]
  BY <1>2 DEF Statuses
<1>4. \A id \in DOMAIN rows : <<c, id>> \notin Debts
  BY DEF Debts, Holds, Serving, UpdateRow
<1>5. Debts' = Debts \cup {<<c, mine>>}
  <2>1. \A d \in Conn, id \in DOMAIN rows :
          Holds(d, id)' <=> Holds(d, id) \/ (d = c /\ id = mine)
    BY <1>2 DEF Holds, Serving, UpdateRow, Goto, IInv, TypeOK
  <2> QED
    BY <1>2, <2>1 DEF Debts
<1>6. DOMAIN Statuses = DOMAIN rows
  BY DEF Statuses
<1> QED
  BY <1>3, <1>4, <1>5, <1>6 DEF Ledger!OpenAgain, Ledger!OwesNothing, UpdateRow

LEMMA LedgerClose ==
  ASSUME IInv, NEW c \in Conn, MarkDisconnected(c)
  PROVE  Ledger!Close(c, target[c]) /\ target[c] \in DOMAIN Statuses
<1> PICK mine \in DOMAIN rows : mine = target[c]
  BY MarkDisconnectedRows
<1>1. /\ rows \in Seq(Row)
      /\ rows' = [rows EXCEPT ![mine] = Closed(@, c)]
  BY DEF MarkDisconnected, IInv, TypeOK
<1>2. /\ DOMAIN rows' = DOMAIN rows
      /\ \A id \in DOMAIN rows : id # mine => rows'[id] = rows[id]
      /\ rows'[mine].status = "disconnected"
  BY <1>1, RowsClosed, MarkDisconnectedRows
<1>3. Statuses' = [Statuses EXCEPT ![mine] = "disconnected"]
  BY <1>2 DEF Statuses
<1>4. <<c, mine>> \in Debts
  BY DEF Debts, Holds, Serving, MarkDisconnected
<1>5. Debts' = Debts \ {<<c, mine>>}
  <2>1. \A d \in Conn, id \in DOMAIN rows :
          Holds(d, id)' <=> Holds(d, id) /\ ~(d = c /\ id = mine)
    BY <1>2 DEF Holds, Serving, MarkDisconnected, Goto, IInv, TypeOK
  <2> QED
    BY <1>2, <2>1 DEF Debts
<1>6. DOMAIN Statuses = DOMAIN rows
  BY DEF Statuses
<1> QED
  BY <1>3, <1>4, <1>5, <1>6 DEF Ledger!Close, MarkDisconnected

LEMMA LedgerFault ==
  ASSUME IInv, NEW c \in Conn, MarkFails(c)
  PROVE  \E debt \in Debts : Ledger!Lose({debt})
<1> PICK mine \in DOMAIN rows : mine = target[c]
  BY DEF MarkFails, IInv, Bookkeeping, Serving, OwnRow
<1>1. <<c, mine>> \in Debts
  BY DEF Debts, Holds, Serving, MarkFails
<1>2. Debts' = Debts \ {<<c, mine>>}
  <2>1. \A d \in Conn, id \in DOMAIN rows :
          Holds(d, id)' <=> Holds(d, id) /\ ~(d = c /\ id = mine)
    BY DEF Holds, Serving, MarkFails, Goto, IInv, TypeOK
  <2> QED
    BY <2>1 DEF Debts, MarkFails
<1>3. orphaned' = orphaned \cup {debt[2] : debt \in {<<c, mine>>}}
  BY DEF MarkFails
<1>4. UNCHANGED Statuses
  BY DEF MarkFails, Statuses
<1> QED
  BY <1>1, <1>2, <1>3, <1>4 DEF Ledger!Lose

LEMMA LedgerCrash ==
  ASSUME IInv, Crash
  PROVE  Ledger!Lose(Debts)
<1>1. Debts' = Debts \ Debts
  BY DEF Crash, Debts, Holds, Serving
<1>2. {debt[2] : debt \in Debts} = {id \in DOMAIN rows : \E c \in Conn : Holds(c, id)}
  <2>1. \A c \in Conn, id \in DOMAIN rows :
          Holds(c, id) => <<c, id>> \in Debts /\ id = <<c, id>>[2]
    BY DEF Debts
  <2>2. \A id \in DOMAIN rows :
          (\E c \in Conn : Holds(c, id)) => \E debt \in Debts : id = debt[2]
    BY <2>1
  <2>3. \A debt \in Debts :
          debt[2] \in DOMAIN rows /\ \E c \in Conn : Holds(c, debt[2])
    BY DEF Debts
  <2> QED
    BY <2>2, <2>3
<1>3. UNCHANGED Statuses
  BY DEF Crash, Statuses
<1> QED
  BY <1>1, <1>2, <1>3 DEF Ledger!Lose, Crash

LEMMA OtherStepsStutter ==
  ASSUME IInv,
         \/ Shutdown \/ ShutdownDone \/ Start \/ UNCHANGED vars
         \/ \E c \in Conn : Library(c) \/ FindRow(c) \/ EstablishFails(c) \/ Leave(c)
  PROVE  UNCHANGED Ledger!vars
<1>1. CASE Shutdown \/ ShutdownDone \/ Start \/ UNCHANGED vars
  <2>1. UNCHANGED <<rows, orphaned, phase, connectionIDs, target>>
    BY <1>1 DEF Shutdown, ShutdownDone, Start, vars
  <2> QED
    BY <2>1, LedgerStutter DEF Holds, Serving
<1>2. ASSUME NEW c \in Conn, Library(c) PROVE UNCHANGED Ledger!vars
  <2>1. /\ UNCHANGED <<rows, orphaned, connectionIDs, target>>
        /\ \A d \in Conn : phase'[d] = "leaving" <=> phase[d] = "leaving"
        /\ \A d \in Conn : phase'[d] \in Serving <=> phase[d] \in Serving
    BY <1>2 DEF Library, Accept, Refuse, Register, AckFails, Drop, Publish, Published, Goto,
                Serving, IInv, TypeOK
  <2> QED
    BY <2>1, LedgerStutter DEF Holds, Serving
<1>3. ASSUME NEW c \in Conn, FindRow(c) PROVE UNCHANGED Ledger!vars
  <2>1. UNCHANGED <<rows, orphaned>>
    BY <1>3 DEF FindRow
  <2>2. \A d \in Conn, id \in DOMAIN rows : Holds(d, id)' <=> Holds(d, id)
    BY <1>3 DEF FindRow, Holds, Serving, Goto, IInv, TypeOK
  <2> QED
    BY <2>1, <2>2, LedgerStutter
<1>4. ASSUME NEW c \in Conn, EstablishFails(c) PROVE UNCHANGED Ledger!vars
  <2>1. UNCHANGED <<rows, orphaned>>
    BY <1>4 DEF EstablishFails
  <2>2. \A d \in Conn, id \in DOMAIN rows : Holds(d, id)' <=> Holds(d, id)
    BY <1>4 DEF EstablishFails, Holds, Serving, Goto, IInv, TypeOK, Bookkeeping
  <2> QED
    BY <2>1, <2>2, LedgerStutter
<1>5. ASSUME NEW c \in Conn, Leave(c) PROVE UNCHANGED Ledger!vars
  <2>1. UNCHANGED <<rows, orphaned>>
    BY <1>5 DEF Leave
  <2>2. \A d \in Conn, id \in DOMAIN rows : Holds(d, id)' <=> Holds(d, id)
    BY <1>5 DEF Leave, Holds, Serving, Goto, IInv, TypeOK
  <2> QED
    BY <2>1, <2>2, LedgerStutter
<1> QED
  BY <1>1, <1>2, <1>3, <1>4, <1>5

LEMMA LedgerStep == IInv /\ IInv' /\ [Next]_vars => [Ledger!Next]_(Ledger!vars)
<1> SUFFICES ASSUME IInv, IInv', [Next]_vars
             PROVE  Ledger!Next \/ UNCHANGED Ledger!vars
  OBVIOUS
<1>1. ASSUME NEW c \in Conn, Hook(c) PROVE Ledger!Next \/ UNCHANGED Ledger!vars
  <2>1. CASE InsertRow(c)
    BY <2>1, LedgerInsert DEF Ledger!Next
  <2>2. CASE UpdateRow(c)
    BY <2>2, LedgerUpdate DEF Ledger!Next
  <2>3. CASE MarkDisconnected(c)
    BY <2>3, LedgerClose DEF Ledger!Next
  <2>4. CASE MarkFails(c)
    BY <2>4, LedgerFault DEF Ledger!Next
  <2>5. CASE FindRow(c) \/ EstablishFails(c) \/ Leave(c)
    BY <2>5, OtherStepsStutter
  <2> QED
    BY <1>1, <2>1, <2>2, <2>3, <2>4, <2>5 DEF Hook, Statements
<1>2. CASE Crash
  BY <1>2, LedgerCrash DEF Ledger!Next
<1> QED
  BY <1>1, <1>2, OtherStepsStutter DEF Next, Process

\* The hook and the repository together keep the ledger's promise.
THEOREM Refinement == Spec => ImplementsLedger
BY LedgerInit, LedgerStep, IInvHolds, PTL DEF Spec, ImplementsLedger, Ledger!Spec

=============================================================================
