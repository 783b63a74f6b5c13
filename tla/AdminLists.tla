----------------------------- MODULE AdminLists -----------------------------
(***************************************************************************)
(* GET /api/messages of the web interface (admin/server.go:51-59), and the *)
(* other tables in the same way: list makes one slice when the route is    *)
(* set up, and every request of the route has its rows scanned into it.    *)
(*                                                                         *)
(* From GORM: Find sets the length of the slice to 0, appends row by row   *)
(* to a slice header of its own over the same cells, and stores the header *)
(* at the end.  Requests that overlap race for header and cells: nothing   *)
(* is said of what they answer, only of requests that are alone.           *)
(***************************************************************************)
EXTENDS Naturals, Sequences

CONSTANTS
  Requests, \* requests of the route
  MaxRows   \* Limit(500)

ASSUME MaxRowsAssumption == MaxRows \in Nat

VARIABLES
  cells,   \* the array under the slice
  length,  \* the length in the header
  request, \* request[q]: where the handler of q is
  read,    \* read[q]: what the SELECT of q returns
  scanned, \* scanned[q]: rows appended so far
  answer,  \* answer[q]: status and rows
  alone    \* history: alone[q]: no other request has overlapped with q

listVars == <<cells, length, request, read, scanned, answer, alone>>

NoAnswer == [status |-> 0, list |-> <<>>]

ListsTypeOK ==
  /\ cells \in Seq(Nat \ {0})
  /\ length \in 0 .. Len(cells)
  /\ request \in [Requests -> {"none", "scan", "found", "done"}]
  /\ \A q \in Requests :
       /\ scanned[q] \in 0 .. Len(read[q])
       /\ Len(read[q]) <= MaxRows
       /\ answer[q].status \in {0, 200, 500}
  /\ alone \in [Requests -> BOOLEAN]

ListsInit ==
  /\ cells = <<>>
  /\ length = 0
  /\ request = [q \in Requests |-> "none"]
  /\ read = [q \in Requests |-> <<>>]
  /\ scanned = [q \in Requests |-> 0]
  /\ answer = [q \in Requests |-> NoAnswer]
  /\ alone = [q \in Requests |-> TRUE]

UnderWay == {q \in Requests : request[q] \in {"scan", "found"}}

\* The newest rows of a table whose ids are 1 to n: Order("id desc"), Limit.
Newest(n) == [k \in 1 .. (IF n < MaxRows THEN n ELSE MaxRows) |-> n + 1 - k]

-----------------------------------------------------------------------------
(* Plausible bugs, one per property: variants of the definitions below that *)
(* no definition of the model uses.                                         *)

\* The error is ignored, and the slice sent as it is.
SendAnyway(q) ==
  /\ request[q] = "scan"
  /\ answer' = [answer EXCEPT ![q] = [status |-> 200, list |-> SubSeq(cells, 1, length)]]
  /\ request' = [request EXCEPT ![q] = "done"]
  /\ UNCHANGED <<cells, length, read, scanned, alone>>

-----------------------------------------------------------------------------
\* The SELECT, over a table of n rows.
Find(q, n) ==
  /\ request[q] = "none"
  /\ request' = [request EXCEPT ![q] = "scan"]
  /\ read' = [read EXCEPT ![q] = Newest(n)]
  /\ length' = 0
  /\ alone' = [r \in Requests |->
       alone[r] /\ (r = q => UnderWay = {}) /\ (r \in UnderWay => FALSE)]
  /\ UNCHANGED <<cells, scanned, answer>>

\* rows.Next and append, in place.
Scan(q) ==
  /\ request[q] = "scan" /\ scanned[q] < Len(read[q])
  /\ LET k == scanned[q] + 1 IN
     /\ cells' = IF k <= Len(cells) THEN [cells EXCEPT ![k] = read[q][k]]
                 ELSE Append(cells, read[q][k])
     /\ scanned' = [scanned EXCEPT ![q] = k]
  /\ UNCHANGED <<length, request, read, answer, alone>>

Found(q) ==
  /\ request[q] = "scan" /\ scanned[q] = Len(read[q])
  /\ request' = [request EXCEPT ![q] = "found"]
  /\ length' = scanned[q]
  /\ UNCHANGED <<cells, read, scanned, answer, alone>>

\* c.JSON(200, target)
Send(q) ==
  /\ request[q] = "found"
  /\ answer' = [answer EXCEPT ![q] = [status |-> 200, list |-> SubSeq(cells, 1, length)]]
  /\ request' = [request EXCEPT ![q] = "done"]
  /\ UNCHANGED <<cells, length, read, scanned, alone>>

\* c.JSON(500, ...)
SendError(q) ==
  /\ request[q] = "scan"
  /\ answer' = [answer EXCEPT ![q] = [status |-> 500, list |-> <<>>]]
  /\ request' = [request EXCEPT ![q] = "done"]
  /\ UNCHANGED <<cells, length, read, scanned, alone>>

List(q, n) == Find(q, n) \/ Scan(q) \/ Found(q) \/ Send(q) \/ SendError(q)
=============================================================================
